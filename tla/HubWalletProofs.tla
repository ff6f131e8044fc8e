--------------------------- MODULE HubWalletProofs ---------------------------
(***************************************************************************)
(* Theorems about a user at the screens of a running hub, for every value  *)
(* of the constants: what the pages say of swaps, channels, connections,   *)
(* budgets and payments is so.                                             *)
(*                                                                         *)
(* The areas share no variable, so each has an inductive invariant of its  *)
(* own that its steps keep and the steps of the others cannot touch:       *)
(* ChannelsInv of the channels, AppsInv and PlanInv of the connections,    *)
(* WalletInv of the wallet, SwapsInv (in SwapsProofs) of the swaps.  They  *)
(* are put together in the last section.                                   *)
(***************************************************************************)
EXTENDS HubWallet, SwapsProofs, SequenceTheorems, WellFoundedInduction

-----------------------------------------------------------------------------
(* Channels: types.                                                        *)

Looks == {"none", "unfunded", "opening", "online"}
ChannelRow == [state : {"none", "opening", "online", "closed"}, by : Numbers,
               funded : BOOLEAN, outbound : BOOLEAN, was : BOOLEAN]
OrderRow == [n : Numbers, pay : {"onchain", "lightning"},
             status : {"none", "pay", "paid", "opening", "success"},
             prev : SUBSET Chans, funding : {0} \cup Chans]
OpenReqRow == [at : {"none", "connect", "open", "answered"}, n : Numbers, chan : {0} \cup Chans]
LspStates == {"none", "asked", "invoice", "paid", "opened"}
Funds == [total : Nat, spendable : Nat]
Dialogs == {"no", "confirm", "close", "fee", "rebalance"}
ChannelTabRow ==
    [page : ChannelPages, loaded : BOOLEAN, seen : [Chans -> Looks], prev : SUBSET Chans,
     mounted : BOOLEAN, started : BOOLEAN, asked : BOOLEAN, of : {0} \cup Chans,
     dialog : Dialogs, step : 0..4, deposit : {"no", "pending", "confirmed"}]

NodeTyped ==
    /\ channel \in [Chans -> ChannelRow] /\ lsp \in [1..MaxOrders -> LspStates]
    /\ onchain \in Funds /\ onchain.spendable <= onchain.total
    /\ peered \in BOOLEAN
OrderTyped ==
    /\ order \in OrderRow /\ orders \in Numbers /\ openReq \in OpenReqRow /\ payReq \in Numbers
    /\ late \in BOOLEAN /\ chanVisit \in ChannelVisits

-----------------------------------------------------------------------------
(* Channels: the inductive invariant.                                      *)

(* What was active is remembered.                                          *)
ChannelsTell ==
    \A c \in Chans : /\ channel[c].state = "online" => channel[c].was
                     /\ channel[c].was => channel[c].state # "none"

(* What the tab saw of a channel was so, and stays so as far as a page     *)
(* says it; and a page that waits for a channel has remembered the         *)
(* channels it does not wait for.                                          *)
ChannelTabTells ==
    /\ \A c \in Chans : /\ chanTab.seen[c] # "none" => channel[c].state # "none" /\ chanTab.mounted
                        /\ chanTab.seen[c] = "online" => channel[c].was
    /\ chanTab.dialog # "no" => chanTab.page \in {"channels", "outgoing"}
    /\ chanTab.dialog \in {"close", "fee", "rebalance"} => chanTab.of \in Chans /\ chanTab.mounted
    /\ chanTab.page \in WaitingPages => chanTab.mounted
    /\ chanTab.page \in {"auto/opening", "auto/opened"} /\ chanTab.of # 0 => chanTab.of \notin chanTab.prev
    /\ chanTab.page \in {"auto/opened", "first/opened"} => chanTab.of \in Chans /\ channel[chanTab.of].was

(* The request that opens a channel is for an order that was paid on       *)
(* chain, has a number of its own, and is answered with the channel that   *)
(* was opened for it; so the order has its own channel, unless an answer   *)
(* came late.                                                              *)
OrderTells ==
    /\ order.status = "pay" => order.n \in 1..MaxOrders
    /\ order.n <= orders /\ openReq.n <= orders
    /\ openReq.at # "none" /\ openReq.n = order.n => order.pay = "onchain"
    /\ openReq.at = "answered" =>
        /\ openReq.chan \in Chans /\ channel[openReq.chan].state # "none"
        /\ channel[openReq.chan].by = openReq.n
    /\ ~late /\ order.funding # 0 =>
        /\ channel[order.funding].state # "none"
        /\ order.pay = "onchain" => channel[order.funding].by = order.n
        /\ order.pay = "lightning" => order.funding \notin order.prev
    /\ ~late /\ order.status = "success" => order.funding # 0 /\ channel[order.funding].was

ChannelsInv ==
    /\ NodeTyped /\ OrderTyped /\ chanTab \in ChannelTabRow
    /\ ChannelsTell /\ ChannelTabTells /\ OrderTells

(* What no step undoes.                                                    *)
ChannelsKeep ==
    \A c \in Chans : /\ channel[c].state # "none" => channel'[c].state # "none" /\ channel'[c].by = channel[c].by
                     /\ channel[c].was => channel'[c].was

-----------------------------------------------------------------------------
(* Channels: the node.                                                     *)

(* The least element of a set of numbers.                                  *)
LEMMA SmallestOf ==
  ASSUME NEW S \in SUBSET Nat, S # {}
  PROVE  Min(S) \in S /\ \A n \in S : Min(S) <= n
<1> DEFINE R == OpToRel(<, Nat)
<1>1. R = {ss \in Nat \X Nat : ss[1] < ss[2]}
  BY DEF OpToRel
<1>2. IsWellFoundedOn(R, Nat)
  BY NatLessThanWellFounded
<1> HIDE DEF R
<1>3. \E x \in S : \A y \in S : ~(<<y, x>> \in R)
  BY <1>2, WFMin
<1>4. ASSUME NEW x \in Nat, NEW y \in Nat PROVE <<y, x>> \in R <=> y < x
  <2>1. <<y, x>> \in Nat \X Nat /\ <<y, x>>[1] = y /\ <<y, x>>[2] = x
    OBVIOUS
  <2> QED
    BY <1>1, <2>1
<1>5. PICK x \in S : \A y \in S : ~(<<y, x>> \in R)
  BY <1>3
<1>6. ASSUME NEW y \in S PROVE x <= y
  <2>1. x \in Nat /\ y \in Nat /\ ~(<<y, x>> \in R)
    BY <1>5
  <2>2. ~(y < x)
    BY <1>4, <2>1
  <2> QED
    BY <2>1, <2>2
<1> QED
  BY <1>5, <1>6 DEF Min

LEMMA ChanBasics ==
  /\ Chans \subseteq Nat /\ 0 \notin Chans /\ IsFiniteSet(Chans)
  /\ MaxOrders \in Nat /\ OrderAmount \in Nat /\ FeeEstimate \in Nat /\ FeeEstimate > 0
  BY ChannelsAssumption

LEMMA ChannelVisitFacts ==
  ASSUME ChannelsInv \/ chanVisit \in ChannelVisits
  PROVE  /\ Visit.pages \subseteq ChannelPages \ WaitingPages
         /\ Visit.orders \in Nat
         /\ Visit.rich \subseteq BOOLEAN /\ Visit.old \subseteq {1}
<1>1. chanVisit \in {"onchain", "twice", "lightning", "auto", "first", "manage"}
  BY ChannelsAssumption DEF ChannelsInv, OrderTyped, ChannelVisitTable
<1>2. CASE chanVisit = "onchain" BY <1>2 DEF Visit, ChannelVisitTable, NoVisit, ChannelPages, WaitingPages
<1>3. CASE chanVisit = "twice" BY <1>3 DEF Visit, ChannelVisitTable, NoVisit, ChannelPages, WaitingPages
<1>4. CASE chanVisit = "lightning" BY <1>4 DEF Visit, ChannelVisitTable, NoVisit, ChannelPages, WaitingPages
<1>5. CASE chanVisit = "auto" BY <1>5 DEF Visit, ChannelVisitTable, NoVisit, ChannelPages, WaitingPages
<1>6. CASE chanVisit = "first" BY <1>6 DEF Visit, ChannelVisitTable, NoVisit, ChannelPages, WaitingPages
<1>7. CASE chanVisit = "manage" BY <1>7 DEF Visit, ChannelVisitTable, NoVisit, ChannelPages, WaitingPages
<1> QED
  BY <1>1, <1>2, <1>3, <1>4, <1>5, <1>6, <1>7

LEMMA ChannelsSame == ASSUME NodeTyped, ChannelsTell, UNCHANGED channel PROVE ChannelsTell' /\ ChannelsKeep
  BY DEF NodeTyped, ChannelsTell, ChannelsKeep

(* A channel is added where there was none.                                *)
LEMMA ByNewChannel ==
  ASSUME NodeTyped, ChannelsTell, NEW c \in Unused, NEW n \in Numbers, NEW out \in BOOLEAN, channel' = NewChannel(c, n, out)
  PROVE  /\ channel' \in [Chans -> ChannelRow] /\ ChannelsTell' /\ ChannelsKeep
         /\ channel'[c].state = "opening" /\ channel'[c].by = n /\ c \in Chans
<1> DEFINE row == [state |-> "opening", by |-> n, funded |-> out, outbound |-> out, was |-> FALSE]
<1>1. row \in ChannelRow /\ row.state = "opening" /\ row.by = n /\ ~row.was
  BY DEF ChannelRow
<1>2. channel' = [channel EXCEPT ![c] = row] /\ c \in Chans /\ channel[c].state = "none"
  BY DEF NewChannel, Unused
<1> HIDE DEF row
<1>3. channel' \in [Chans -> ChannelRow] /\ channel'[c] = row /\ \A d \in Chans \ {c} : channel'[d] = channel[d]
  BY <1>1, <1>2 DEF NodeTyped
<1>4. ASSUME NEW d \in Chans
      PROVE  /\ channel'[d].state = "online" => channel'[d].was
             /\ channel'[d].was => channel'[d].state # "none"
             /\ channel[d].state # "none" => channel'[d].state # "none" /\ channel'[d].by = channel[d].by
             /\ channel[d].was => channel'[d].was
  BY <1>1, <1>2, <1>3, <1>4 DEF ChannelsTell
<1> QED
  BY <1>1, <1>2, <1>3, <1>4 DEF ChannelsTell, ChannelsKeep

LEMMA ByOpensOnchain ==
  ASSUME NodeTyped, ChannelsTell, NEW n \in Numbers, NEW c \in Chans, OpensOnchain(n, c), UNCHANGED <<lsp, peered>>
  PROVE  NodeTyped' /\ ChannelsTell' /\ ChannelsKeep /\ channel'[c].state = "opening" /\ channel'[c].by = n
<1>1. c \in Unused /\ channel' = NewChannel(c, n, TRUE) /\ onchain.spendable > OrderAmount
      /\ onchain' = [total |-> onchain.total - OrderAmount, spendable |-> onchain.spendable - OrderAmount]
  BY DEF OpensOnchain
<1>2. onchain.total \in Nat /\ onchain.spendable \in Nat /\ onchain.spendable <= onchain.total /\ OrderAmount \in Nat
  BY ChanBasics DEF NodeTyped, Funds
<1>3. onchain.total - OrderAmount \in Nat /\ onchain.spendable - OrderAmount \in Nat
      /\ onchain.spendable - OrderAmount <= onchain.total - OrderAmount
  BY <1>1, <1>2
<1>4. onchain' \in Funds /\ onchain'.spendable <= onchain'.total
  BY <1>1, <1>3 DEF Funds
<1> QED
  BY <1>1, <1>4, ByNewChannel DEF NodeTyped

(* A field of one channel changes.                                         *)
LEMMA ByChannelStep ==
  ASSUME NodeTyped, ChannelsTell, NEW c \in Chans,
         ChannelFunded(c) \/ ChannelOnline(c) \/ (CloseChannel /\ chanTab.of = c)
  PROVE  NodeTyped' /\ ChannelsTell' /\ ChannelsKeep
<1>1. channel[c] \in ChannelRow /\ UNCHANGED <<lsp, onchain, peered>> /\ channel[c].state \in {"opening", "online"}
  BY DEF NodeTyped, ChannelFunded, ChannelOnline, CloseChannel, Live
<1>2. PICK row \in ChannelRow : /\ channel' = [channel EXCEPT ![c] = row] /\ row.by = channel[c].by /\ row.state # "none"
                                /\ (channel[c].was => row.was) /\ (row.state = "online" => row.was \/ channel[c].state = "online")
  <2>1. CASE ChannelFunded(c)
    <3> DEFINE row == [channel[c] EXCEPT !.funded = TRUE]
    <3>1. /\ row \in ChannelRow /\ row.by = channel[c].by /\ row.state = channel[c].state /\ row.was = channel[c].was
      BY <1>1 DEF ChannelRow
    <3>2. channel' = [channel EXCEPT ![c] = row]
      BY <2>1 DEF ChannelFunded
    <3> QED
      BY <1>1, <3>1, <3>2
  <2>2. CASE ChannelOnline(c)
    <3> DEFINE row == [channel[c] EXCEPT !.state = "online", !.was = TRUE]
    <3>1. /\ row \in ChannelRow /\ row.by = channel[c].by /\ row.state = "online" /\ row.was
      BY <1>1 DEF ChannelRow
    <3>2. channel' = [channel EXCEPT ![c] = row]
      BY <2>2 DEF ChannelOnline
    <3> QED
      BY <1>1, <3>1, <3>2
  <2>3. CASE CloseChannel /\ chanTab.of = c
    <3> DEFINE row == [channel[c] EXCEPT !.state = "closed"]
    <3>1. /\ row \in ChannelRow /\ row.by = channel[c].by /\ row.state = "closed" /\ row.was = channel[c].was
      BY <1>1 DEF ChannelRow
    <3>2. channel' = [channel EXCEPT ![c] = row]
      BY <2>3 DEF CloseChannel
    <3> QED
      BY <1>1, <3>1, <3>2
  <2> QED
    BY <2>1, <2>2, <2>3
<1>3. c \in Chans
  OBVIOUS
<1>4. channel' \in [Chans -> ChannelRow] /\ channel'[c] = row /\ \A d \in Chans \ {c} : channel'[d] = channel[d]
  BY <1>2, <1>3 DEF NodeTyped
<1>5. ASSUME NEW d \in Chans
      PROVE  /\ channel'[d].state = "online" => channel'[d].was
             /\ channel'[d].was => channel'[d].state # "none"
             /\ channel[d].state # "none" => channel'[d].state # "none" /\ channel'[d].by = channel[d].by
             /\ channel[d].was => channel'[d].was
  BY <1>2, <1>4 DEF ChannelsTell
<1> QED
  BY <1>1, <1>4, <1>5 DEF ChannelsTell, ChannelsKeep, NodeTyped

(* The funds: a deposit that is recommended is a number of sats, and is    *)
(* enough.                                                                 *)
LEMMA TopupSuffices ==
  ASSUME NEW total \in Nat, total = onchain.total
  PROVE  /\ onchain.total + RecommendedTopup > OrderAmount
         /\ onchain.total <= OrderAmount => RecommendedTopup \in Nat
  BY ChanBasics DEF RecommendedTopup

(* What the order page shows, of which order.                              *)
LEMMA ScreenFacts ==
  ASSUME NodeTyped, order \in OrderRow
  PROVE  /\ OrderScreen = "topup" => order.status = "pay" /\ order.pay = "onchain" /\ onchain.total <= OrderAmount
         /\ OrderScreen = "open" => order.status = "pay" /\ order.pay = "onchain"
         /\ OrderScreen = "buy" => order.status = "pay" /\ order.pay = "lightning"
         /\ OrderScreen = "wait for channel" => order.status = "paid"
         /\ OrderScreen = "opening" => order.status = "opening"
         /\ OrderScreen = "success" => order.status = "success"
<1>1. onchain.total \in Nat /\ OrderAmount \in Nat
  BY ChanBasics DEF NodeTyped, Funds
<1>2. /\ PayBitcoinScreen \in {"open", "wait for confirmation", "topup"}
      /\ PayBitcoinScreen = "topup" => onchain.total <= OrderAmount
  BY <1>1 DEF PayBitcoinScreen
<1>3. order.status \in {"none", "pay", "paid", "opening", "success"} /\ order.pay \in {"onchain", "lightning"}
  BY DEF OrderRow
<1>4. CASE chanTab.page # "order" BY <1>4 DEF OrderScreen
<1>5. CASE chanTab.page = "order" /\ order.status = "none"
  <2>1. OrderScreen = "no order" BY <1>5 DEF OrderScreen
  <2> QED BY <2>1
<1>6. CASE chanTab.page = "order" /\ order.status = "pay" /\ order.pay = "onchain"
  <2>1. OrderScreen = PayBitcoinScreen BY <1>6 DEF OrderScreen
  <2>2. OrderScreen = "topup" => onchain.total <= OrderAmount BY <1>2, <2>1 DEF NodeTyped
  <2>3. OrderScreen \in {"open", "wait for confirmation", "topup"} BY <1>2, <2>1
  <2> QED BY <1>6, <2>2, <2>3
<1>7. CASE chanTab.page = "order" /\ order.status = "pay" /\ order.pay = "lightning"
  <2>1. OrderScreen = "buy" BY <1>7 DEF OrderScreen
  <2> QED BY <1>7, <2>1
<1>8. CASE chanTab.page = "order" /\ order.status = "paid"
  <2>1. OrderScreen = "wait for channel" BY <1>8 DEF OrderScreen
  <2> QED BY <1>8, <2>1
<1>9. CASE chanTab.page = "order" /\ order.status = "opening"
  <2>1. OrderScreen = "opening" BY <1>9 DEF OrderScreen
  <2> QED BY <1>9, <2>1
<1>10. CASE chanTab.page = "order" /\ order.status = "success"
  <2>1. OrderScreen = "success" BY <1>10 DEF OrderScreen
  <2> QED BY <1>10, <2>1
<1> QED
  BY <1>3, <1>4, <1>5, <1>6, <1>7, <1>8, <1>9, <1>10

LEMMA ByFunds ==
  ASSUME NodeTyped, ChannelsTell, order \in OrderRow, Topup \/ DepositConfirms \/ DepositMade
  PROVE  NodeTyped' /\ ChannelsTell' /\ ChannelsKeep
<1>1. UNCHANGED <<channel, lsp, peered>> /\ onchain.total \in Nat /\ onchain.spendable \in Nat /\ onchain.spendable <= onchain.total
  BY DEF Topup, DepositConfirms, DepositMade, NodeTyped, Funds
<1>2. \E total, spendable \in Nat : onchain' = [total |-> total, spendable |-> spendable] /\ spendable <= total
  <2>1. CASE Topup
    <3>1. onchain.total <= OrderAmount
      BY <2>1, ScreenFacts DEF Topup
    <3>2. RecommendedTopup \in Nat
      BY <1>1, <3>1, TopupSuffices
    <3>3. onchain' = [total |-> onchain.total + RecommendedTopup, spendable |-> onchain.spendable]
      BY <2>1 DEF Topup, NodeTyped, Funds
    <3> QED
      BY <1>1, <3>2, <3>3
  <2>2. CASE DepositConfirms
    <3>1. onchain' = [total |-> onchain.total, spendable |-> onchain.total]
      BY <2>2 DEF DepositConfirms, NodeTyped, Funds
    <3> QED
      BY <1>1, <3>1
  <2>3. CASE DepositMade
    <3>1. onchain' = [total |-> OrderAmount, spendable |-> onchain.spendable] /\ onchain.total = 0
      BY <2>3 DEF DepositMade, NodeTyped, Funds
    <3> QED
      BY <1>1, <3>1, ChanBasics
  <2> QED
    BY <2>1, <2>2, <2>3
<1>3. onchain' \in Funds /\ onchain'.spendable <= onchain'.total
  BY <1>2 DEF Funds
<1> QED
  BY <1>1, <1>3, ChannelsSame DEF NodeTyped

LEMMA NodeSame ==
  ASSUME NodeTyped, ChannelsTell, UNCHANGED <<channel, onchain>>, peered' \in BOOLEAN,
         lsp' = lsp \/ \E n \in 1..MaxOrders, s \in LspStates : lsp' = [lsp EXCEPT ![n] = s]
  PROVE  NodeTyped' /\ ChannelsTell' /\ ChannelsKeep
<1>1. lsp' \in [1..MaxOrders -> LspStates]
  BY DEF NodeTyped
<1> QED
  BY <1>1, ChannelsSame DEF NodeTyped

-----------------------------------------------------------------------------
(* Channels: every step, on the node and those outside.                    *)

(* An order that waits for its channel has a number the provider knows.    *)
LEMMA NextOrder ==
  ASSUME NodeTyped, OrderTyped, orders < Min({MaxOrders, Visit.orders})
  PROVE  orders + 1 \in 1..MaxOrders
<1>1. Visit.orders \in Nat
  BY ChannelVisitFacts DEF OrderTyped
<1>2. {MaxOrders, Visit.orders} \in SUBSET Nat /\ {MaxOrders, Visit.orders} # {}
  BY <1>1, ChanBasics
<1>3. Min({MaxOrders, Visit.orders}) <= MaxOrders /\ Min({MaxOrders, Visit.orders}) \in Nat
  BY <1>2, SmallestOf
<1>4. orders \in Nat /\ MaxOrders \in Nat
  BY ChanBasics DEF OrderTyped, Numbers
<1> QED
  BY <1>3, <1>4

(* What the steps do with the node.                                        *)
LEMMA NodeNext ==
  ASSUME NodeTyped, OrderTyped, ChannelsTell, OrderTells, chanTab \in ChannelTabRow, ChannelTabTells,
         [ChannelsNext]_chanVars
  PROVE  NodeTyped' /\ ChannelsTell' /\ ChannelsKeep
<1>1. order \in OrderRow /\ (order.status = "pay" => order.n \in 1..MaxOrders) /\ openReq.n \in Numbers
  BY DEF OrderTyped, OrderTells, OpenReqRow
<1>2. CASE UNCHANGED node
  BY <1>2, NodeSame DEF node, NodeTyped
<1>3. CASE ReloadChannelPage
  <2>1. UNCHANGED <<lsp, peered>>
    BY <1>3 DEF ReloadChannelPage
  <2>2. (\E c \in Chans : OpensOnchain(openReq.n, c)) \/ UNCHANGED <<channel, onchain>>
    BY <1>3 DEF ReloadChannelPage
  <2>3. CASE \E c \in Chans : OpensOnchain(openReq.n, c)
    BY <1>1, <2>1, <2>3, ByOpensOnchain
  <2> QED
    BY <1>2, <2>1, <2>2, <2>3 DEF node
<1>4. CASE OpenChannel
  <2>1. UNCHANGED <<lsp, peered>>
    BY <1>4 DEF OpenChannel
  <2>2. (\E c \in Chans : OpensOnchain(openReq.n, c)) \/ UNCHANGED <<channel, onchain>>
    BY <1>4 DEF OpenChannel
  <2>3. CASE \E c \in Chans : OpensOnchain(openReq.n, c)
    BY <1>1, <2>1, <2>3, ByOpensOnchain
  <2> QED
    BY <1>2, <2>1, <2>2, <2>3 DEF node
<1>5. CASE Topup \/ DepositConfirms \/ DepositMade
  BY <1>1, <1>5, ByFunds
<1>6. CASE ConnectPeer \/ SubmitPeer \/ DisconnectPeer
  <2>1. UNCHANGED <<channel, onchain, lsp>> /\ peered' \in BOOLEAN
    BY <1>6 DEF ConnectPeer, SubmitPeer, DisconnectPeer, NodeTyped
  <2> QED
    BY <2>1, NodeSame
<1>7. CASE RequestLspOrder \/ PayInternally
  <2>1. OrderScreen = "buy" /\ UNCHANGED <<channel, onchain, peered>>
    BY <1>7 DEF RequestLspOrder, PayInternally
  <2>2. order.n \in 1..MaxOrders
    BY <1>1, <2>1, ScreenFacts
  <2>3. lsp' = lsp \/ \E s \in LspStates : lsp' = [lsp EXCEPT ![order.n] = s]
    BY <1>7 DEF RequestLspOrder, PayInternally, LspStates
  <2> QED
    BY <2>1, <2>2, <2>3, NodeSame DEF NodeTyped
<1>8. CASE RequestAutoChannel
  <2>1. orders + 1 \in 1..MaxOrders /\ UNCHANGED <<channel, onchain, peered>>
    BY <1>8, NextOrder DEF RequestAutoChannel
  <2>2. \E s \in LspStates : lsp' = [lsp EXCEPT ![orders + 1] = s]
    BY <1>8 DEF RequestAutoChannel, LspStates
  <2> QED
    BY <2>1, <2>2, NodeSame DEF NodeTyped
<1>9. CASE CloseChannel
  <2>1. chanTab.of \in Chans
    BY <1>9 DEF CloseChannel, ChannelTabTells
  <2> QED
    BY <1>9, <2>1, ByChannelStep
<1>10. ASSUME NEW c \in Chans, ChannelFunded(c) \/ ChannelOnline(c) PROVE NodeTyped' /\ ChannelsTell' /\ ChannelsKeep
  BY <1>10, ByChannelStep
<1>11. ASSUME NEW c \in Chans, PeerOpens(c) PROVE NodeTyped' /\ ChannelsTell' /\ ChannelsKeep
  <2>1. c \in Unused /\ channel' = NewChannel(c, 0, FALSE) /\ UNCHANGED <<lsp, onchain, peered>> /\ 0 \in Numbers
    BY <1>11, ChanBasics DEF PeerOpens, Numbers
  <2> QED
    BY <2>1, ByNewChannel DEF NodeTyped
<1>12. ASSUME NEW n \in 1..MaxOrders, PaidExternally(n) PROVE NodeTyped' /\ ChannelsTell' /\ ChannelsKeep
  <2>1. UNCHANGED <<channel, onchain, peered>> /\ \E s \in LspStates : lsp' = [lsp EXCEPT ![n] = s]
    BY <1>12 DEF PaidExternally, LspStates
  <2> QED
    BY <2>1, NodeSame DEF NodeTyped
<1>13. ASSUME NEW n \in 1..MaxOrders, NEW c \in Chans, LspOpens(n, c) PROVE NodeTyped' /\ ChannelsTell' /\ ChannelsKeep
  <2>1. c \in Unused /\ channel' = NewChannel(c, n, FALSE) /\ UNCHANGED <<onchain, peered>> /\ n \in Numbers
        /\ lsp' = [lsp EXCEPT ![n] = "opened"]
    BY <1>13, ChanBasics DEF LspOpens, Numbers
  <2>2. lsp' \in [1..MaxOrders -> LspStates]
    BY <2>1 DEF NodeTyped, LspStates
  <2> QED
    BY <2>1, <2>2, ByNewChannel DEF NodeTyped
<1>14. ASSUME NEW p \in ChannelPages, OpenChannelPage(p) PROVE UNCHANGED node
  BY <1>14 DEF OpenChannelPage, notTab
<1>15. ASSUME NEW c \in Chans, NEW d, OpenDialog(c, d) PROVE UNCHANGED node
  BY <1>15 DEF OpenDialog, notTab
<1>16. ASSUME PollChannels \/ SubmitOutgoing \/ ConfirmOutgoing \/ SubmitIncoming \/ SuggestionsFail \/ CloseDialog
              \/ ContinueClosing \/ UpdateFee \/ Rebalance \/ WatchDeposit \/ NoAlbyAccount \/ AutoChannelAppears
              \/ AutoChannelActive \/ FirstChannelAppears \/ FirstChannelActive
       PROVE  UNCHANGED node
  BY <1>16 DEF PollChannels, SubmitOutgoing, ConfirmOutgoing, SubmitIncoming, SuggestionsFail, CloseDialog, ContinueClosing,
               UpdateFee, Rebalance, WatchDeposit, NoAlbyAccount, AutoChannelAppears, AutoChannelActive, FirstChannelAppears,
               FirstChannelActive, Goes, notTab
<1>17. ASSUME StartOpening \/ OpenChannelAnswered \/ WaitForNewChannel \/ PayInternallyAnswered \/ ChannelOpened
              \/ UNCHANGED chanVars
       PROVE  UNCHANGED node
  BY <1>17 DEF StartOpening, OpenChannelAnswered, WaitForNewChannel, PayInternallyAnswered, ChannelOpened, chanVars, node
<1>18. ASSUME ChannelScreensNext PROVE NodeTyped' /\ ChannelsTell' /\ ChannelsKeep
  <2>1. CASE OpenAutoChannel \/ \E o, c \in PaymentMethods : OpenFirstChannel(o, c)
    BY <1>8, <2>1 DEF OpenAutoChannel, OpenFirstChannel
  <2> QED
    BY <1>2, <1>3, <1>4, <1>5, <1>6, <1>7, <1>9, <1>14, <1>15, <1>16, <1>17, <1>18, <2>1 DEF ChannelScreensNext
<1> QED
  BY <1>2, <1>5, <1>10, <1>11, <1>12, <1>13, <1>17, <1>18 DEF ChannelsNext

-----------------------------------------------------------------------------
(* Channels: the tab.                                                      *)

(* What the tab says of the channels it saw.                               *)
SeenTells ==
    \A c \in Chans : /\ chanTab.seen[c] # "none" => channel[c].state # "none" /\ chanTab.mounted
                     /\ chanTab.seen[c] = "online" => channel[c].was

LEMMA TabLike ==
  ASSUME ChannelTabTells, ChannelsKeep, chanTab'.page = chanTab.page, chanTab'.seen = chanTab.seen,
         chanTab'.prev = chanTab.prev, chanTab'.mounted = chanTab.mounted, chanTab'.dialog = chanTab.dialog,
         chanTab'.of = chanTab.of
  PROVE  ChannelTabTells'
<1>1. \A c \in Chans : /\ chanTab'.seen[c] # "none" => channel'[c].state # "none" /\ chanTab'.mounted
                       /\ chanTab'.seen[c] = "online" => channel'[c].was
  BY DEF ChannelTabTells, ChannelsKeep
<1>2. chanTab'.page \in {"auto/opened", "first/opened"} => chanTab'.of \in Chans /\ channel'[chanTab'.of].was
  BY DEF ChannelTabTells, ChannelsKeep
<1> QED
  BY <1>1, <1>2 DEF ChannelTabTells

(* A page is opened that waits for nothing.                                *)
LEMMA TabFresh ==
  ASSUME NEW p \in ChannelPages \ WaitingPages, chanTab.started \in BOOLEAN, chanTab' = FreshTab(p, chanTab.started)
  PROVE  chanTab' \in ChannelTabRow /\ ChannelTabTells'
<1>1. chanTab' \in ChannelTabRow
  BY DEF FreshTab, ChannelTabRow, Looks, Dialogs
<1>2. /\ \A c \in Chans : chanTab'.seen[c] = "none"
      /\ chanTab'.dialog = "no" /\ chanTab'.page = p
  BY DEF FreshTab
<1> QED
  BY <1>1, <1>2 DEF ChannelTabTells, WaitingPages

(* What the tab is told of the channels.                                   *)
LEMMA LookFacts ==
  ASSUME NodeTyped, ChannelsTell, NEW c \in Chans
  PROVE  /\ Look(c) \in Looks
         /\ Look(c) # "none" => channel[c].state # "none"
         /\ Look(c) = "online" => channel[c].was
  BY DEF Look, Looks, Live, ChannelsTell

(* The channels are loaded, in this tab and the page it is at.             *)
LEMMA TabLoads ==
  ASSUME NodeTyped, ChannelsTell, chanTab \in ChannelTabRow, ChannelTabTells, UNCHANGED channel,
         PollChannels \/ UpdateFee \/ Rebalance
  PROVE  chanTab' \in ChannelTabRow /\ ChannelTabTells'
<1> DEFINE looks == [c \in Chans |-> Look(c)]
<1>1. looks \in [Chans -> Looks] /\ \A c \in Chans : looks[c] = Look(c)
  BY LookFacts
<1>2. Live \in SUBSET Chans
  BY DEF Live
<1>3. /\ chanTab' \in ChannelTabRow /\ chanTab'.seen = looks /\ chanTab'.page = chanTab.page /\ chanTab'.mounted
      /\ chanTab'.dialog \in {chanTab.dialog, "no"} /\ chanTab'.of \in {chanTab.of, 0}
      /\ chanTab.mounted => chanTab'.prev = chanTab.prev
      /\ chanTab'.dialog # "no" \/ chanTab.dialog = "no" => chanTab'.of = chanTab.of
  <2>1. CASE PollChannels
    <3>1. chanTab' = [chanTab EXCEPT !.loaded = TRUE, !.seen = looks,
                                     !.prev = IF chanTab.mounted THEN chanTab.prev ELSE Live, !.mounted = TRUE]
      BY <2>1 DEF PollChannels, ChannelTabRow
    <3> HIDE DEF looks
    <3> QED
      BY <1>1, <1>2, <3>1 DEF ChannelTabRow
  <2>2. CASE UpdateFee \/ Rebalance
    <3>1. /\ chanTab' = [chanTab EXCEPT !.seen = looks, !.dialog = "no", !.of = 0, !.step = 0]
          /\ chanTab.dialog \in {"fee", "rebalance"}
      BY <2>2 DEF UpdateFee, Rebalance, Reloaded
    <3>2. chanTab.mounted
      BY <3>1 DEF ChannelTabTells
    <3> HIDE DEF looks
    <3>3. "no" \in Dialogs /\ 0 \in {0} \cup Chans /\ 0 \in 0..4
      BY DEF Dialogs
    <3>4. chanTab' \in ChannelTabRow
      BY <1>1, <3>1, <3>3 DEF ChannelTabRow
    <3>5. /\ chanTab'.seen = looks /\ chanTab'.page = chanTab.page /\ chanTab'.mounted = chanTab.mounted
          /\ chanTab'.prev = chanTab.prev /\ chanTab'.dialog = "no" /\ chanTab'.of = 0
      BY <3>1 DEF ChannelTabRow
    <3> QED
      BY <3>1, <3>2, <3>4, <3>5
  <2> QED
    BY <2>1, <2>2
<1>4. chanTab'.dialog = "no" /\ chanTab.dialog # "no" => chanTab'.page \notin WaitingPages
  BY <1>3 DEF ChannelTabTells, WaitingPages
<1>5. \A c \in Chans : /\ chanTab'.seen[c] # "none" => channel'[c].state # "none" /\ chanTab'.mounted
                       /\ chanTab'.seen[c] = "online" => channel'[c].was
  BY <1>1, <1>3, LookFacts
<1>6. chanTab'.page \in WaitingPages => chanTab'.of = chanTab.of /\ chanTab'.prev = chanTab.prev
  BY <1>3, <1>4 DEF ChannelTabTells
<1>7. {"auto/opening", "auto/opened", "first/opened"} \subseteq WaitingPages
  BY DEF WaitingPages
<1>8. chanTab'.page \in {"auto/opening", "auto/opened"} /\ chanTab'.of # 0 => chanTab'.of \notin chanTab'.prev
  BY <1>3, <1>6, <1>7 DEF ChannelTabTells
<1>9. chanTab'.page \in {"auto/opened", "first/opened"} => chanTab'.of \in Chans /\ channel'[chanTab'.of].was
  BY <1>3, <1>6, <1>7 DEF ChannelTabTells
<1>10. /\ chanTab'.dialog # "no" => chanTab'.page \in {"channels", "outgoing"}
       /\ chanTab'.dialog \in {"close", "fee", "rebalance"} => chanTab'.of \in Chans /\ chanTab'.mounted
  BY <1>3 DEF ChannelTabTells
<1> QED
  BY <1>3, <1>5, <1>8, <1>9, <1>10 DEF ChannelTabTells

(* A page that waits for a channel goes on.                                *)
LEMMA TabGoes ==
  ASSUME NodeTyped, ChannelsTell, chanTab \in ChannelTabRow, ChannelTabTells, UNCHANGED channel,
         AutoChannelAppears \/ AutoChannelActive \/ FirstChannelAppears \/ FirstChannelActive
  PROVE  chanTab' \in ChannelTabRow /\ ChannelTabTells'
<1>1. NewChannels(chanTab.prev) \in SUBSET Nat /\ NewChannels(chanTab.prev) \subseteq Chans \ chanTab.prev
      /\ \A c \in NewChannels(chanTab.prev) : chanTab.seen[c] # "none"
  BY ChanBasics DEF NewChannels, WithFunding
<1>2. Shown \in SUBSET Nat /\ Shown \subseteq Chans /\ \A c \in Shown : chanTab.seen[c] # "none"
  BY ChanBasics DEF Shown
<1>3. \A c \in Chans : chanTab.seen[c] # "none" => chanTab.mounted
  BY DEF ChannelTabTells
<1>4. \A c \in Chans : chanTab.seen[c] = "online" => channel[c].was
  BY DEF ChannelTabTells
<1>5. chanTab.page \in {"auto", "auto/opening", "first", "first/opening"}
  BY DEF AutoChannelAppears, AutoChannelActive, FirstChannelAppears, FirstChannelActive
<1>6. ASSUME NEW p \in WaitingPages, NEW of \in {0} \cup Chans, chanTab' = [chanTab EXCEPT !.page = p, !.of = of]
      PROVE  /\ chanTab' \in ChannelTabRow /\ chanTab'.page = p /\ chanTab'.of = of /\ chanTab'.seen = chanTab.seen
             /\ chanTab'.prev = chanTab.prev /\ chanTab'.mounted = chanTab.mounted /\ chanTab'.dialog = chanTab.dialog
  <2>1. p \in ChannelPages
    BY DEF ChannelPages
  <2> QED
    BY <1>6, <2>1 DEF ChannelTabRow
<1>7. /\ chanTab' \in ChannelTabRow /\ chanTab'.seen = chanTab.seen
      /\ chanTab'.prev = chanTab.prev /\ chanTab'.mounted = chanTab.mounted /\ chanTab'.dialog = chanTab.dialog
      /\ chanTab.mounted
      /\ chanTab'.page \in {"auto/opening", "auto/opened"} => chanTab'.of \in Chans \ chanTab.prev
      /\ chanTab'.page \in {"auto/opened", "first/opened"} => chanTab'.of \in Chans /\ channel[chanTab'.of].was
  <2>1. CASE AutoChannelAppears
    <3> DEFINE c == Min(NewChannels(chanTab.prev))
    <3>1. c \in NewChannels(chanTab.prev)
      BY <2>1, <1>1, SmallestOf DEF AutoChannelAppears
    <3>2. c \in Chans \ chanTab.prev /\ chanTab.mounted
      BY <1>1, <1>3, <3>1
    <3>3. chanTab' = [chanTab EXCEPT !.page = "auto/opening", !.of = c]
      BY <2>1 DEF AutoChannelAppears, Goes
    <3> HIDE DEF c
    <3> QED
      BY <1>6, <3>2, <3>3 DEF WaitingPages
  <2>2. CASE AutoChannelActive
    <3>1. chanTab' = [chanTab EXCEPT !.page = "auto/opened", !.of = chanTab.of]
      BY <2>2 DEF AutoChannelActive, Goes
    <3>2. chanTab.of \in Chans /\ chanTab.seen[chanTab.of] = "online" /\ chanTab.page = "auto/opening" /\ chanTab.of # 0
      BY <2>2 DEF AutoChannelActive, ChannelTabRow
    <3>3. chanTab.mounted /\ channel[chanTab.of].was /\ chanTab.of \notin chanTab.prev
      BY <1>3, <1>4, <3>2 DEF ChannelTabTells
    <3> QED
      BY <1>6, <3>1, <3>2, <3>3 DEF WaitingPages
  <2>3. CASE FirstChannelAppears
    <3>1. chanTab' = [chanTab EXCEPT !.page = "first/opening", !.of = 0] /\ Shown # {}
      BY <2>3 DEF FirstChannelAppears, Goes
    <3>2. chanTab.mounted
      BY <1>2, <1>3, <3>1
    <3> QED
      BY <1>6, <3>1, <3>2 DEF WaitingPages
  <2>4. CASE FirstChannelActive
    <3> DEFINE c == Min(Shown)
    <3>1. chanTab' = [chanTab EXCEPT !.page = "first/opened", !.of = c] /\ Shown # {} /\ chanTab.seen[c] = "online"
      BY <2>4 DEF FirstChannelActive, Goes
    <3>2. c \in Shown
      BY <1>2, <3>1, SmallestOf
    <3>3. chanTab.mounted /\ c \in Chans /\ channel[c].was
      BY <1>2, <1>3, <1>4, <3>1, <3>2
    <3> HIDE DEF c
    <3> QED
      BY <1>6, <3>1, <3>3 DEF WaitingPages
  <2> QED
    BY <2>1, <2>2, <2>3, <2>4
<1>8. chanTab.dialog = "no"
  BY <1>5 DEF ChannelTabTells
<1>9. \A c \in Chans : /\ chanTab'.seen[c] # "none" => channel'[c].state # "none" /\ chanTab'.mounted
                       /\ chanTab'.seen[c] = "online" => channel'[c].was
  BY <1>7 DEF ChannelTabTells
<1> QED
  BY <1>7, <1>8, <1>9 DEF ChannelTabTells

(* The dialogs of the node page.                                           *)
LEMMA TabDialogs ==
  ASSUME NodeTyped, ChannelsKeep, chanTab \in ChannelTabRow, ChannelTabTells,
         \/ \E c \in Chans, d \in {"close", "fee", "rebalance"} : OpenDialog(c, d)
         \/ SubmitOutgoing \/ CloseDialog \/ ContinueClosing \/ CloseChannel
  PROVE  chanTab' \in ChannelTabRow /\ ChannelTabTells'
<1>1. chanTab.page \in {"channels", "outgoing"}
  BY DEF ChannelTabTells, OpenDialog, SubmitOutgoing, CloseDialog, ContinueClosing, CloseChannel
<1>2. /\ chanTab' \in ChannelTabRow /\ chanTab'.page = chanTab.page /\ chanTab'.seen = chanTab.seen
      /\ chanTab'.mounted = chanTab.mounted
      /\ chanTab'.dialog \in {"close", "fee", "rebalance"} => chanTab'.of \in Chans /\ chanTab'.mounted
  <2>1. ASSUME NEW c \in Chans, NEW d \in {"close", "fee", "rebalance"}, OpenDialog(c, d) PROVE <1>2!:
    <3>1. PICK n \in {1, 2} : chanTab' = [chanTab EXCEPT !.dialog = d, !.of = c, !.step = n]
      BY <2>1 DEF OpenDialog
    <3>2. chanTab.mounted
      BY <2>1 DEF OpenDialog, Shown, ChannelTabTells
    <3>3. d \in Dialogs /\ c \in {0} \cup Chans /\ n \in 0..4
      BY DEF Dialogs
    <3>4. chanTab' \in ChannelTabRow
      BY <3>1, <3>3 DEF ChannelTabRow
    <3> QED
      BY <3>1, <3>2, <3>4 DEF ChannelTabRow
  <2>2. CASE SubmitOutgoing BY <2>2 DEF SubmitOutgoing, ChannelTabRow, Dialogs
  <2>3. CASE CloseDialog
    <3>1. chanTab' = [chanTab EXCEPT !.dialog = "no", !.of = 0, !.step = 0]
      BY <2>3 DEF CloseDialog
    <3>2. "no" \in Dialogs /\ 0 \in {0} \cup Chans /\ 0 \in 0..4
      BY DEF Dialogs
    <3>3. chanTab' \in ChannelTabRow
      BY <3>1, <3>2 DEF ChannelTabRow
    <3> QED
      BY <3>1, <3>3 DEF ChannelTabRow
  <2>4. CASE ContinueClosing
    <3>1. chanTab' = [chanTab EXCEPT !.step = chanTab.step + 1] /\ chanTab.step + 1 \in 0..4 /\ chanTab.dialog = "close"
      BY <2>4 DEF ContinueClosing
    <3> QED
      BY <3>1 DEF ChannelTabRow, ChannelTabTells
  <2>5. CASE CloseChannel
    <3>1. chanTab' = [chanTab EXCEPT !.step = 4] /\ chanTab.dialog = "close"
      BY <2>5 DEF CloseChannel
    <3> QED
      BY <3>1 DEF ChannelTabRow, ChannelTabTells
  <2> QED
    BY <2>1, <2>2, <2>3, <2>4, <2>5
<1>3. \A c \in Chans : /\ chanTab'.seen[c] # "none" => channel'[c].state # "none" /\ chanTab'.mounted
                       /\ chanTab'.seen[c] = "online" => channel'[c].was
  BY <1>2 DEF ChannelTabTells, ChannelsKeep
<1>4. chanTab'.page \notin {"auto/opening", "auto/opened", "first/opened"} /\ chanTab'.page \notin WaitingPages
  BY <1>1, <1>2 DEF WaitingPages
<1>5. chanTab'.dialog # "no" => chanTab'.page \in {"channels", "outgoing"}
  BY <1>1, <1>2
<1>6. chanTab'.dialog \in {"close", "fee", "rebalance"} => chanTab'.of \in Chans /\ chanTab'.mounted
  BY <1>2
<1>7. /\ chanTab'.page \in WaitingPages => chanTab'.mounted
      /\ chanTab'.page \in {"auto/opening", "auto/opened"} /\ chanTab'.of # 0 => chanTab'.of \notin chanTab'.prev
      /\ chanTab'.page \in {"auto/opened", "first/opened"} => chanTab'.of \in Chans /\ channel'[chanTab'.of].was
  BY <1>4
<1>8. chanTab' \in ChannelTabRow
  BY <1>2
<1>9. ChannelTabTells'
  BY <1>3, <1>5, <1>6, <1>7 DEF ChannelTabTells
<1> QED
  BY <1>8, <1>9

(* The page is loaded again: it forgets what it saw.                       *)
LEMMA TabReloads ==
  ASSUME ChannelsKeep, chanTab \in ChannelTabRow, ChannelTabTells, ReloadChannelPage
  PROVE  chanTab' \in ChannelTabRow /\ ChannelTabTells'
<1> DEFINE fresh == FreshTab(chanTab.page, FALSE)
<1>1. /\ fresh \in ChannelTabRow /\ fresh.page = chanTab.page /\ fresh.dialog = "no"
      /\ \A c \in Chans : fresh.seen[c] = "none"
  BY DEF FreshTab, ChannelTabRow, Looks, Dialogs
<1>2. chanTab' = [fresh EXCEPT !.of = IF InHistory THEN chanTab.of ELSE 0, !.mounted = InHistory,
                               !.prev = IF InHistory THEN chanTab.prev ELSE {}]
  BY DEF ReloadChannelPage
<1>3. InHistory \in BOOLEAN /\ chanTab.of \in {0} \cup Chans /\ chanTab.prev \in SUBSET Chans
  BY DEF InHistory, ChannelTabRow
<1> HIDE DEF fresh
<1>4. /\ chanTab' \in ChannelTabRow /\ chanTab'.page = chanTab.page /\ chanTab'.dialog = "no"
      /\ chanTab'.seen = fresh.seen /\ chanTab'.mounted = InHistory
      /\ InHistory => chanTab'.of = chanTab.of /\ chanTab'.prev = chanTab.prev
  BY <1>1, <1>2, <1>3 DEF ChannelTabRow
<1>5. {"auto/opening", "auto/opened", "first/opened"} \subseteq WaitingPages
  BY DEF WaitingPages
<1>6. chanTab'.page \in {"auto/opened", "first/opened"} => chanTab'.of \in Chans /\ channel'[chanTab'.of].was
  BY <1>4, <1>5 DEF ChannelTabTells, ChannelsKeep, InHistory
<1> QED
  BY <1>1, <1>4, <1>5, <1>6 DEF ChannelTabTells, InHistory

(* What the steps do with the tab.                                         *)
LEMMA ChannelTabNext ==
  ASSUME NodeTyped, OrderTyped, ChannelsTell, OrderTells, chanTab \in ChannelTabRow, ChannelTabTells,
         [ChannelsNext]_chanVars
  PROVE  chanTab' \in ChannelTabRow /\ ChannelTabTells'
<1>1. NodeTyped' /\ ChannelsTell' /\ ChannelsKeep
  BY NodeNext
<1>2. CASE UNCHANGED chanTab
  BY <1>1, <1>2, TabLike
<1>3. CASE chanTab' = [chanTab EXCEPT !.asked = TRUE] \/ chanTab' = [chanTab EXCEPT !.started = TRUE]
           \/ \E d \in {"pending", "confirmed"} : chanTab' = [chanTab EXCEPT !.deposit = d]
  <2>1. /\ chanTab' \in ChannelTabRow /\ chanTab'.page = chanTab.page /\ chanTab'.seen = chanTab.seen
        /\ chanTab'.prev = chanTab.prev /\ chanTab'.mounted = chanTab.mounted /\ chanTab'.dialog = chanTab.dialog
        /\ chanTab'.of = chanTab.of
    <3>1. CASE chanTab' = [chanTab EXCEPT !.asked = TRUE]
      <4>1. \A b \in BOOLEAN : [chanTab EXCEPT !.asked = b] \in ChannelTabRow
        BY DEF ChannelTabRow
      <4>2. chanTab' \in ChannelTabRow
        BY <3>1, <4>1
      <4> QED
        BY <3>1, <4>2 DEF ChannelTabRow
    <3>2. CASE chanTab' = [chanTab EXCEPT !.started = TRUE]
      <4>1. \A b \in BOOLEAN : [chanTab EXCEPT !.started = b] \in ChannelTabRow
        BY DEF ChannelTabRow
      <4>2. chanTab' \in ChannelTabRow
        BY <3>2, <4>1
      <4> QED
        BY <3>2, <4>2 DEF ChannelTabRow
    <3>3. CASE \E d \in {"pending", "confirmed"} : chanTab' = [chanTab EXCEPT !.deposit = d]
      BY <3>3 DEF ChannelTabRow
    <3> QED
      BY <1>3, <3>1, <3>2, <3>3
  <2> QED
    BY <1>1, <2>1, TabLike
<1>4. CASE \E p \in ChannelPages \ WaitingPages : chanTab' = FreshTab(p, chanTab.started)
  BY <1>4, TabFresh DEF ChannelTabRow
<1>5. ASSUME NEW p \in ChannelPages, OpenChannelPage(p) PROVE chanTab' \in ChannelTabRow /\ ChannelTabTells'
  <2>1. p \in ChannelPages \ WaitingPages
    BY <1>5, ChannelVisitFacts DEF OpenChannelPage, OrderTyped
  <2> QED
    BY <1>4, <1>5, <2>1 DEF OpenChannelPage
<1>6. CASE ConfirmOutgoing \/ SubmitIncoming \/ SuggestionsFail \/ NoAlbyAccount \/ SubmitPeer
  <2>1. {"order", "outgoing", "incoming", "peers"} \subseteq ChannelPages \ WaitingPages
    BY DEF ChannelPages, WaitingPages
  <2> QED
    BY <1>4, <1>6, <2>1 DEF ConfirmOutgoing, SubmitIncoming, SuggestionsFail, NoAlbyAccount, SubmitPeer
<1>7. CASE StartOpening \/ RequestLspOrder \/ RequestAutoChannel \/ WatchDeposit
  BY <1>3, <1>7 DEF StartOpening, RequestLspOrder, RequestAutoChannel, WatchDeposit
<1>8. CASE PollChannels \/ UpdateFee \/ Rebalance
  BY <1>8, TabLoads DEF PollChannels, UpdateFee, Rebalance, notTab, node
<1>9. CASE AutoChannelAppears \/ AutoChannelActive \/ FirstChannelAppears \/ FirstChannelActive
  BY <1>9, TabGoes DEF AutoChannelAppears, AutoChannelActive, FirstChannelAppears, FirstChannelActive, Goes, notTab, node
<1>10. CASE \/ \E c \in Chans, d \in {"close", "fee", "rebalance"} : OpenDialog(c, d)
            \/ SubmitOutgoing \/ CloseDialog \/ ContinueClosing \/ CloseChannel
  BY <1>1, <1>10, TabDialogs
<1>11. CASE ReloadChannelPage
  BY <1>1, <1>11, TabReloads
<1>12. ASSUME \/ Topup \/ ConnectPeer \/ OpenChannel \/ OpenChannelAnswered \/ WaitForNewChannel \/ PayInternally
              \/ PayInternallyAnswered \/ ChannelOpened \/ DisconnectPeer \/ DepositMade \/ DepositConfirms
              \/ UNCHANGED chanVars
       PROVE  UNCHANGED chanTab
  BY <1>12 DEF Topup, ConnectPeer, OpenChannel, OpenChannelAnswered, WaitForNewChannel, PayInternally,
               PayInternallyAnswered, ChannelOpened, DisconnectPeer, DepositMade, DepositConfirms, chanVars
<1>13. ASSUME NEW c \in Chans, PeerOpens(c) \/ ChannelFunded(c) \/ ChannelOnline(c) PROVE UNCHANGED chanTab
  BY <1>13 DEF PeerOpens, ChannelFunded, ChannelOnline
<1>14. ASSUME NEW n \in 1..MaxOrders, PaidExternally(n) \/ \E c \in Chans : LspOpens(n, c) PROVE UNCHANGED chanTab
  BY <1>14 DEF PaidExternally, LspOpens
<1>15. ASSUME ChannelScreensNext PROVE chanTab' \in ChannelTabRow /\ ChannelTabTells'
  <2>1. CASE OpenAutoChannel \/ \E o, c \in PaymentMethods : OpenFirstChannel(o, c)
    BY <1>7, <2>1 DEF OpenAutoChannel, OpenFirstChannel
  <2> QED
    BY <1>2, <1>5, <1>6, <1>7, <1>8, <1>9, <1>10, <1>11, <1>12, <1>15, <2>1 DEF ChannelScreensNext
<1>16. CASE \E c \in Chans : PeerOpens(c) \/ ChannelFunded(c) \/ ChannelOnline(c)
  BY <1>2, <1>13, <1>16
<1>17. CASE \E n \in 1..MaxOrders : PaidExternally(n) \/ \E c \in Chans : LspOpens(n, c)
  BY <1>2, <1>14, <1>17
<1>18. CASE DepositConfirms \/ UNCHANGED chanVars
  BY <1>2, <1>12, <1>18
<1> QED
  BY <1>15, <1>16, <1>17, <1>18 DEF ChannelsNext

-----------------------------------------------------------------------------
(* Channels: the order.                                                    *)

(* The order has a channel of its own, and a success is one.               *)
OwnChannel ==
    /\ order.funding # 0 =>
        /\ channel[order.funding].state # "none"
        /\ order.pay = "onchain" => channel[order.funding].by = order.n
        /\ order.pay = "lightning" => order.funding \notin order.prev
    /\ order.status = "success" => order.funding # 0 /\ channel[order.funding].was

(* The request that is under way is for an order that is paid on chain.    *)
RequestTells ==
    /\ openReq.n <= orders
    /\ openReq.at # "none" /\ openReq.n = order.n => order.pay = "onchain"
    /\ openReq.at = "answered" =>
        /\ openReq.chan \in Chans /\ channel[openReq.chan].state # "none"
        /\ channel[openReq.chan].by = openReq.n

LEMMA OrderTellsParts ==
  ASSUME OrderTyped
  PROVE  OrderTells <=> /\ order.status = "pay" => order.n \in 1..MaxOrders
                        /\ order.n <= orders
                        /\ RequestTells
                        /\ ~late => OwnChannel
  BY DEF OrderTells, RequestTells, OwnChannel, OrderTyped

(* The node keeps what the order and the request say of it.                *)
LEMMA OwnChannelKept ==
  ASSUME OrderTyped, ChannelsKeep, OwnChannel, UNCHANGED order
  PROVE  OwnChannel'
  BY ChanBasics DEF OwnChannel, ChannelsKeep, OrderTyped, OrderRow

LEMMA RequestKept ==
  ASSUME OrderTyped, ChannelsKeep, RequestTells, UNCHANGED openReq, orders' \in Nat, orders <= orders',
         openReq.n = order'.n => openReq.n = order.n /\ order'.pay = order.pay
  PROVE  RequestTells'
<1>1. openReq.n <= orders'
  BY DEF RequestTells, OrderTyped, OpenReqRow, Numbers
<1>2. openReq.at = "answered" => /\ openReq.chan \in Chans /\ channel'[openReq.chan].state # "none"
                                 /\ channel'[openReq.chan].by = openReq.n
  BY DEF RequestTells, ChannelsKeep
<1> QED
  BY <1>1, <1>2 DEF RequestTells

LEMMA NoRequestTells ==
  ASSUME openReq' = NoRequest, orders' \in Nat
  PROVE  openReq' \in OpenReqRow /\ RequestTells'
  BY ChanBasics DEF NoRequest, RequestTells, OpenReqRow, Numbers

(* An answer is merged into the order there is.                            *)
LEMMA ByUpdateOrder ==
  ASSUME OrderTyped, OrderTells, ChannelsKeep, NEW n, NEW s \in {"paid", "opening", "success"},
         NEW f \in {0} \cup Chans, UpdateOrder(n, s, f), UNCHANGED orders,
         openReq' = openReq \/ openReq' = NoRequest,
         f # 0 /\ n = order.n => /\ channel'[f].state # "none"
                                 /\ order.pay = "onchain" => channel'[f].by = order.n
                                 /\ order.pay = "lightning" => f \notin order.prev,
         s = "success" /\ ~late => order.funding # 0 /\ channel[order.funding].was /\ f = 0
  PROVE  order' \in OrderRow /\ late' \in BOOLEAN /\ openReq' \in OpenReqRow /\ OrderTells'
<1> DEFINE g == IF f = 0 THEN order.funding ELSE f
<1>1. order' = [order EXCEPT !.status = s, !.funding = g] /\ late' = (late \/ n # order.n)
  BY DEF UpdateOrder
<1>2. order \in OrderRow /\ g \in {0} \cup Chans /\ orders \in Nat /\ orders' = orders
  BY DEF OrderTyped, OrderRow, Numbers
<1>3. (f # 0 /\ g = f) \/ (f = 0 /\ g = order.funding)
  OBVIOUS
<1> HIDE DEF g
<1>4. /\ order' \in OrderRow /\ order'.status = s /\ order'.funding = g
      /\ order'.n = order.n /\ order'.pay = order.pay /\ order'.prev = order.prev
  BY <1>1, <1>2 DEF OrderRow
<1>5. /\ order.n <= orders /\ RequestTells
      /\ ~late => OwnChannel
  BY OrderTellsParts
<1>6. openReq' \in OpenReqRow /\ RequestTells'
  BY <1>2, <1>4, <1>5, RequestKept, NoRequestTells DEF OrderTyped
<1>7. ASSUME ~late' PROVE OwnChannel'
  <2>1. ~late /\ n = order.n /\ OwnChannel
    BY <1>1, <1>5, <1>7
  <2>2. CASE g = 0
    BY <1>3, <1>4, <2>1, <2>2 DEF OwnChannel
  <2>3. CASE f # 0 /\ g = f
    BY <1>4, <2>1, <2>3 DEF OwnChannel
  <2>4. CASE f = 0 /\ g = order.funding /\ g # 0
    <3>1. g \in Chans /\ channel[g].state # "none" /\ channel'[g].by = channel[g].by /\ channel'[g].state # "none"
      BY <1>2, <2>1, <2>4 DEF OwnChannel, ChannelsKeep
    <3>2. channel[g].was => channel'[g].was
      BY <3>1 DEF ChannelsKeep
    <3> QED
      BY <1>4, <2>1, <2>4, <3>1, <3>2 DEF OwnChannel
  <2> QED
    BY <1>3, <2>2, <2>3, <2>4
<1>8. order'.status # "pay" /\ order'.n <= orders'
  BY <1>2, <1>4, <1>5
<1> QED
  BY <1>1, <1>4, <1>6, <1>7, <1>8 DEF OrderTells, RequestTells, OwnChannel, OrderTyped

(* A new order has a number of its own.                                    *)
LEMMA BySetOrder ==
  ASSUME NodeTyped, OrderTyped, OrderTells, ChannelsKeep, NEW pay \in {"onchain", "lightning"}, NEW prev \in SUBSET Chans,
         SetOrder(pay, prev), UNCHANGED <<openReq, late>>
  PROVE  order' \in OrderRow /\ orders' \in Numbers /\ OrderTells'
<1>1. orders + 1 \in 1..MaxOrders /\ orders' = orders + 1 /\ orders \in Nat
  BY NextOrder DEF SetOrder, OrderTyped, Numbers
<1>2. orders + 1 \in Numbers
  BY <1>1, ChanBasics DEF Numbers
<1>3. order' \in OrderRow /\ order'.n = orders + 1 /\ order'.status = "pay" /\ order'.funding = 0
  BY <1>2 DEF SetOrder, OrderRow
<1>4. RequestTells /\ openReq.n \in Nat
  BY OrderTellsParts DEF OrderTyped, OpenReqRow, Numbers
<1>5. openReq.n # orders + 1
  BY <1>1, <1>4 DEF RequestTells
<1>6. RequestTells'
  BY <1>1, <1>3, <1>4, <1>5, RequestKept
<1> QED
  BY <1>1, <1>2, <1>3, <1>6 DEF OrderTells, RequestTells

(* An order that has succeeded is forgotten.                               *)
LEMMA ByForgetOrder ==
  ASSUME OrderTyped, OrderTells, ChannelsKeep, order' = NoOrder, UNCHANGED <<orders, openReq, late>>
  PROVE  order' \in OrderRow /\ OrderTells'
<1>1. order' \in OrderRow /\ order'.n = 0 /\ order'.status = "none" /\ order'.funding = 0 /\ order'.pay = "onchain"
  BY ChanBasics DEF NoOrder, OrderRow, Numbers
<1>2. orders \in Nat /\ order.n \in Nat
  BY DEF OrderTyped, OrderRow, Numbers
<1>3. /\ openReq.n <= orders'
      /\ openReq.at = "answered" => /\ openReq.chan \in Chans /\ channel'[openReq.chan].state # "none"
                                    /\ channel'[openReq.chan].by = openReq.n
  BY DEF OrderTells, ChannelsKeep
<1> QED
  BY <1>1, <1>2, <1>3 DEF OrderTells

(* The order and the number of orders stay as they are.                    *)
LEMMA OrderLike ==
  ASSUME OrderTyped, OrderTells, ChannelsKeep, UNCHANGED <<order, late>>, orders' \in Numbers, orders <= orders',
         openReq' = openReq \/ openReq' = NoRequest \/ (openReq' \in OpenReqRow /\ RequestTells')
  PROVE  openReq' \in OpenReqRow /\ OrderTells'
<1>1. order.n \in Nat /\ orders \in Nat /\ orders' \in Nat
  BY DEF OrderTyped, OrderRow, Numbers
<1>2. /\ order.status = "pay" => order.n \in 1..MaxOrders
      /\ order.n <= orders /\ RequestTells
      /\ ~late => OwnChannel
  BY OrderTellsParts
<1>3. openReq' \in OpenReqRow /\ RequestTells'
  BY <1>1, <1>2, RequestKept, NoRequestTells DEF OrderTyped
<1>4. ~late => OwnChannel'
  BY <1>2, OwnChannelKept
<1>5. order.n <= orders'
  BY <1>1, <1>2
<1> QED
  BY <1>2, <1>3, <1>4, <1>5 DEF OrderTells, RequestTells, OwnChannel

(* What the steps do with the order.                                       *)
LEMMA OrderNext ==
  ASSUME ChannelsInv, [ChannelsNext]_chanVars
  PROVE  OrderTyped' /\ OrderTells'
<1>1. NodeTyped /\ OrderTyped /\ chanTab \in ChannelTabRow /\ ChannelsTell /\ ChannelTabTells /\ OrderTells
  BY DEF ChannelsInv
<1>2. NodeTyped' /\ ChannelsTell' /\ ChannelsKeep
  BY <1>1, NodeNext
<1>3. /\ order \in OrderRow /\ orders \in Numbers /\ openReq \in OpenReqRow /\ payReq \in Numbers
      /\ late \in BOOLEAN /\ chanVisit \in ChannelVisits /\ 0 \in Numbers /\ order.n \in Numbers
  BY <1>1, ChanBasics DEF OrderTyped, OrderRow, Numbers
<1>4. orders <= orders /\ orders \in Nat
  BY <1>3 DEF Numbers
<1>5. CASE UNCHANGED <<order, orders, openReq, late, payReq, chanVisit>>
  BY <1>1, <1>2, <1>4, <1>5, OrderLike DEF OrderTyped
<1>6. ASSUME NEW p, OpenChannelPage(p) PROVE OrderTyped' /\ OrderTells'
  <2>1. UNCHANGED <<orders, openReq, late, payReq, chanVisit>> /\ (order' = NoOrder \/ order' = order)
    BY <1>6 DEF OpenChannelPage, notTab
  <2>2. CASE order' = NoOrder
    BY <1>1, <1>2, <2>1, <2>2, ByForgetOrder DEF OrderTyped
  <2>3. CASE order' = order
    BY <1>5, <2>1, <2>3
  <2> QED
    BY <2>1, <2>2, <2>3
<1>7. CASE ReloadChannelPage
  <2>1. openReq' = NoRequest /\ payReq' = 0 /\ UNCHANGED <<order, orders, late, chanVisit>>
    BY <1>7 DEF ReloadChannelPage
  <2> QED
    BY <1>1, <1>2, <1>3, <1>4, <2>1, OrderLike DEF OrderTyped
<1>8. CASE ConfirmOutgoing \/ SubmitIncoming
  <2>1. UNCHANGED <<openReq, payReq, late, chanVisit>>
    BY <1>8 DEF ConfirmOutgoing, SubmitIncoming, notTab
  <2>2. \E pay \in {"onchain", "lightning"}, prev \in SUBSET Chans : SetOrder(pay, prev)
    BY <1>1, <1>8 DEF ConfirmOutgoing, SubmitIncoming, ChannelTabRow
  <2> QED
    BY <1>1, <1>2, <2>1, <2>2, BySetOrder DEF OrderTyped
<1>9. CASE StartOpening
  <2>1. UNCHANGED <<order, orders, late, payReq, chanVisit>> /\ order.pay = "onchain"
    BY <1>1, <1>3, <1>9, ScreenFacts DEF StartOpening
  <2>2. PICK at \in {"open", "connect"} : openReq' = [at |-> at, n |-> order.n, chan |-> 0]
    BY <1>9 DEF StartOpening
  <2>3. openReq' \in OpenReqRow
    BY <1>3, <2>2 DEF OpenReqRow
  <2>4. RequestTells'
    BY <1>1, <2>1, <2>2 DEF RequestTells, OrderTells
  <2> QED
    BY <1>1, <1>2, <1>4, <2>1, <2>3, <2>4, OrderLike DEF OrderTyped
<1>10. CASE ConnectPeer
  <2>1. UNCHANGED <<order, orders, late, payReq, chanVisit>>
    BY <1>10 DEF ConnectPeer
  <2>2. CASE openReq' = NoRequest
    BY <1>1, <1>2, <1>4, <2>1, <2>2, OrderLike DEF OrderTyped
  <2>3. CASE openReq' = [openReq EXCEPT !.at = "open"] /\ openReq.at = "connect"
    <3>1. openReq' \in OpenReqRow /\ openReq'.at = "open" /\ openReq'.n = openReq.n
      BY <1>3, <2>3 DEF OpenReqRow
    <3>2. RequestTells'
      BY <1>1, <2>1, <2>3, <3>1 DEF RequestTells, OrderTells
    <3> QED
      BY <1>1, <1>2, <1>4, <2>1, <3>1, <3>2, OrderLike DEF OrderTyped
  <2> QED
    BY <1>10, <2>2, <2>3 DEF ConnectPeer
<1>11. CASE OpenChannel
  <2>1. UNCHANGED <<order, orders, late, payReq, chanVisit>> /\ openReq.at = "open" /\ UNCHANGED <<lsp, peered>>
    BY <1>11 DEF OpenChannel
  <2>2. CASE openReq' = NoRequest
    BY <1>1, <1>2, <1>4, <2>1, <2>2, OrderLike DEF OrderTyped
  <2>3. ASSUME NEW c \in Chans, OpensOnchain(openReq.n, c), openReq' = [openReq EXCEPT !.at = "answered", !.chan = c]
        PROVE  OrderTyped' /\ OrderTells'
    <3>1. /\ openReq' \in OpenReqRow /\ openReq'.at = "answered" /\ openReq'.n = openReq.n /\ openReq'.chan = c
          /\ openReq.n \in Numbers
      BY <1>3, <2>3 DEF OpenReqRow
    <3>2. channel'[c].state = "opening" /\ channel'[c].by = openReq.n
      BY <1>1, <2>1, <2>3, <3>1, ByOpensOnchain
    <3>3. RequestTells'
      BY <1>1, <2>1, <3>1, <3>2 DEF RequestTells, OrderTells
    <3> QED
      BY <1>1, <1>2, <1>4, <2>1, <3>1, <3>3, OrderLike DEF OrderTyped
  <2> QED
    BY <1>11, <2>2, <2>3 DEF OpenChannel
<1>12. CASE OpenChannelAnswered
  <2>1. /\ UpdateOrder(openReq.n, "opening", openReq.chan) /\ openReq' = NoRequest
        /\ UNCHANGED <<channel, orders, payReq, chanVisit>> /\ openReq.at = "answered"
    BY <1>12 DEF OpenChannelAnswered, node
  <2>2. /\ openReq.chan \in Chans /\ channel[openReq.chan].state # "none" /\ channel[openReq.chan].by = openReq.n
        /\ openReq.n = order.n => order.pay = "onchain"
    BY <1>1, <2>1 DEF OrderTells
  <2>3. order' \in OrderRow /\ late' \in BOOLEAN /\ openReq' \in OpenReqRow /\ OrderTells'
    BY <1>1, <1>2, <2>1, <2>2, ByUpdateOrder
  <2> QED
    BY <1>3, <2>1, <2>3 DEF OrderTyped
<1>13. CASE WaitForNewChannel
  <2> DEFINE c == Min(NewChannels(order.prev))
  <2>1. /\ UpdateOrder(order.n, "opening", c) /\ UNCHANGED <<channel, openReq, orders, payReq, chanVisit>>
        /\ order.pay = "lightning" /\ NewChannels(order.prev) # {}
    BY <1>13 DEF WaitForNewChannel, node
  <2>2. NewChannels(order.prev) \in SUBSET Nat
    BY ChanBasics DEF NewChannels, WithFunding
  <2>3. c \in NewChannels(order.prev)
    BY <2>1, <2>2, SmallestOf
  <2>4. c \in Chans /\ c \notin order.prev /\ channel[c].state # "none"
    BY <1>1, <2>3 DEF NewChannels, WithFunding, ChannelTabTells
  <2> HIDE DEF c
  <2>5. order' \in OrderRow /\ late' \in BOOLEAN /\ openReq' \in OpenReqRow /\ OrderTells'
    BY <1>1, <1>2, <2>1, <2>4, ByUpdateOrder
  <2> QED
    BY <1>3, <2>1, <2>5 DEF OrderTyped
<1>14. CASE RequestLspOrder
  <2>1. UNCHANGED <<openReq, orders, payReq, chanVisit>>
    BY <1>14 DEF RequestLspOrder
  <2>2. CASE UNCHANGED <<order, late>>
    BY <1>5, <2>1, <2>2
  <2>3. CASE UpdateOrder(order.n, "paid", 0)
    <3>1. order' \in OrderRow /\ late' \in BOOLEAN /\ openReq' \in OpenReqRow /\ OrderTells'
      BY <1>1, <1>2, <2>1, <2>3, ByUpdateOrder
    <3> QED
      BY <1>3, <2>1, <3>1 DEF OrderTyped
  <2> QED
    BY <1>14, <2>2, <2>3 DEF RequestLspOrder
<1>15. CASE PayInternally
  <2>1. UNCHANGED <<order, orders, openReq, late, chanVisit>> /\ payReq' = order.n
    BY <1>15 DEF PayInternally
  <2> QED
    BY <1>1, <1>2, <1>3, <1>4, <2>1, OrderLike DEF OrderTyped
<1>16. CASE PayInternallyAnswered
  <2>1. UpdateOrder(payReq, "paid", 0) /\ payReq' = 0 /\ UNCHANGED <<orders, openReq, chanVisit>>
    BY <1>16 DEF PayInternallyAnswered
  <2>2. order' \in OrderRow /\ late' \in BOOLEAN /\ openReq' \in OpenReqRow /\ OrderTells'
    BY <1>1, <1>2, <2>1, ByUpdateOrder
  <2> QED
    BY <1>3, <2>1, <2>2 DEF OrderTyped
<1>17. CASE ChannelOpened
  <2>1. /\ UpdateOrder(order.n, "success", 0) /\ UNCHANGED <<orders, openReq, payReq, chanVisit>>
        /\ order.funding # 0 /\ chanTab.seen[order.funding] = "online"
    BY <1>17 DEF ChannelOpened
  <2>2. order.funding \in Chans /\ channel[order.funding].was
    BY <1>1, <1>3, <2>1 DEF OrderRow, ChannelTabTells
  <2>3. order' \in OrderRow /\ late' \in BOOLEAN /\ openReq' \in OpenReqRow /\ OrderTells'
    BY <1>1, <1>2, <2>1, <2>2, ByUpdateOrder
  <2> QED
    BY <1>3, <2>1, <2>3 DEF OrderTyped
<1>18. CASE RequestAutoChannel
  <2>1. /\ UNCHANGED <<order, openReq, payReq, late, chanVisit>> /\ orders' = orders + 1
        /\ orders < Min({MaxOrders, Visit.orders})
    BY <1>18 DEF RequestAutoChannel
  <2>2. orders' \in 1..MaxOrders
    BY <1>1, <2>1, NextOrder
  <2>3. orders' \in Numbers /\ orders <= orders'
    BY <1>4, <2>1, <2>2, ChanBasics DEF Numbers
  <2>4. openReq' \in OpenReqRow /\ OrderTells'
    BY <1>1, <1>2, <2>1, <2>3, OrderLike
  <2> QED
    BY <1>3, <2>1, <2>3, <2>4 DEF OrderTyped
<1>19. ASSUME \/ PollChannels \/ SubmitOutgoing \/ SuggestionsFail \/ CloseDialog \/ ContinueClosing \/ CloseChannel
              \/ UpdateFee \/ Rebalance \/ WatchDeposit \/ NoAlbyAccount \/ AutoChannelAppears \/ AutoChannelActive
              \/ FirstChannelAppears \/ FirstChannelActive \/ SubmitPeer \/ DisconnectPeer \/ DepositMade
              \/ Topup \/ DepositConfirms \/ \E c \in Chans, d \in {"close", "fee", "rebalance"} : OpenDialog(c, d)
              \/ UNCHANGED chanVars
       PROVE  UNCHANGED <<order, orders, openReq, late, payReq, chanVisit>>
  BY <1>19 DEF PollChannels, SubmitOutgoing, SuggestionsFail, CloseDialog, ContinueClosing, CloseChannel, UpdateFee, Rebalance,
               WatchDeposit, NoAlbyAccount, AutoChannelAppears, AutoChannelActive, FirstChannelAppears, FirstChannelActive,
               Goes, SubmitPeer, DisconnectPeer, DepositMade, Topup, DepositConfirms, OpenDialog, notTab, chanVars
<1>20. ASSUME NEW c \in Chans, PeerOpens(c) \/ ChannelFunded(c) \/ ChannelOnline(c)
       PROVE  UNCHANGED <<order, orders, openReq, late, payReq, chanVisit>>
  BY <1>20 DEF PeerOpens, ChannelFunded, ChannelOnline
<1>21. ASSUME NEW n \in 1..MaxOrders, PaidExternally(n) \/ \E c \in Chans : LspOpens(n, c)
       PROVE  UNCHANGED <<order, orders, openReq, late, payReq, chanVisit>>
  BY <1>21 DEF PaidExternally, LspOpens
<1>22. ASSUME ChannelScreensNext PROVE OrderTyped' /\ OrderTells'
  <2>1. CASE OpenAutoChannel \/ \E o, c \in PaymentMethods : OpenFirstChannel(o, c)
    BY <1>18, <2>1 DEF OpenAutoChannel, OpenFirstChannel
  <2> QED
    BY <1>5, <1>6, <1>7, <1>8, <1>9, <1>10, <1>11, <1>12, <1>13, <1>14, <1>15, <1>16, <1>17, <1>19, <1>22, <2>1
       DEF ChannelScreensNext
<1> QED
  BY <1>5, <1>19, <1>20, <1>21, <1>22 DEF ChannelsNext

-----------------------------------------------------------------------------
(* Channels: the invariant.                                                *)

LEMMA ChannelsInvInit == ChannelInit => ChannelsInv
<1> SUFFICES ASSUME ChannelInit PROVE ChannelsInv
  OBVIOUS
<1>1. chanVisit \in ChannelVisits /\ Visit.pages \subseteq ChannelPages \ WaitingPages /\ Visit.rich \subseteq BOOLEAN
  BY ChannelVisitFacts DEF ChannelInit
<1>2. channel \in [Chans -> ChannelRow] /\ ChannelsTell
  <2> DEFINE old(c) == c \in Visit.old
             row(c) == [state |-> IF old(c) THEN "online" ELSE "none", by |-> 0, funded |-> old(c),
                        outbound |-> FALSE, was |-> old(c)]
  <2>1. ASSUME NEW c \in Chans
        PROVE  /\ row(c) \in ChannelRow
               /\ row(c).state = "online" => row(c).was
               /\ row(c).was => row(c).state # "none"
    <3>1. 0 \in Numbers
      BY ChanBasics DEF Numbers
    <3>2. old(c) = TRUE \/ old(c) = FALSE
      OBVIOUS
    <3> HIDE DEF old
    <3>3. CASE old(c) = TRUE
      <4>1. row(c) = [state |-> "online", by |-> 0, funded |-> TRUE, outbound |-> FALSE, was |-> TRUE]
        BY <3>3
      <4> HIDE DEF row
      <4> QED
        BY <3>1, <4>1 DEF ChannelRow
    <3>4. CASE old(c) = FALSE
      <4>1. row(c) = [state |-> "none", by |-> 0, funded |-> FALSE, outbound |-> FALSE, was |-> FALSE]
        BY <3>4
      <4> HIDE DEF row
      <4> QED
        BY <3>1, <4>1 DEF ChannelRow
    <3> QED
      BY <3>2, <3>3, <3>4
  <2>2. channel = [c \in Chans |-> row(c)]
    BY DEF ChannelInit
  <2> HIDE DEF row
  <2> QED
    BY <2>1, <2>2 DEF ChannelsTell
<1>3. lsp \in [1..MaxOrders -> LspStates]
  BY DEF ChannelInit, LspStates
<1>4. onchain \in Funds /\ onchain.spendable <= onchain.total
  <2>1. PICK rich \in BOOLEAN : LET sats == IF rich THEN 2 * OrderAmount ELSE 0 IN
                                onchain = [total |-> sats, spendable |-> sats]
    BY <1>1 DEF ChannelInit
  <2> QED
    BY <2>1, ChanBasics DEF Funds
<1>5. OrderTyped /\ OrderTells
  <2>1. order = NoOrder /\ orders = 0 /\ openReq = NoRequest /\ payReq = 0 /\ late = FALSE /\ 0 \in Numbers
    BY ChanBasics DEF ChannelInit, Numbers
  <2>2. NoOrder \in OrderRow /\ NoOrder.status = "none" /\ NoOrder.n = 0 /\ NoOrder.funding = 0 /\ NoOrder.pay = "onchain"
    BY <2>1 DEF NoOrder, OrderRow
  <2>3. NoRequest \in OpenReqRow /\ NoRequest.at = "none" /\ NoRequest.n = 0
    BY <2>1 DEF NoRequest, OpenReqRow
  <2>4. OrderTyped
    BY <1>1, <2>1, <2>2, <2>3 DEF OrderTyped
  <2>5. order.status = "none" /\ order.n = 0 /\ order.funding = 0 /\ order.pay = "onchain"
    BY <2>1, <2>2
  <2>6. openReq.at = "none" /\ openReq.n = 0 /\ orders = 0 /\ 0 <= 0
    BY <2>1, <2>3
  <2> QED
    BY <2>4, <2>5, <2>6 DEF OrderTells
<1>6. chanTab \in ChannelTabRow /\ ChannelTabTells
  <2>1. PICK p \in ChannelPages \ WaitingPages : chanTab = FreshTab(p, FALSE)
    BY <1>1 DEF ChannelInit
  <2>2. chanTab \in ChannelTabRow
    BY <2>1 DEF FreshTab, ChannelTabRow, Looks, Dialogs
  <2>3. chanTab.dialog = "no" /\ chanTab.page = p /\ \A c \in Chans : chanTab.seen[c] = "none"
    BY <2>1 DEF FreshTab
  <2> QED
    BY <2>2, <2>3 DEF ChannelTabTells, WaitingPages
<1> QED
  BY <1>2, <1>3, <1>4, <1>5, <1>6 DEF ChannelsInv, NodeTyped, ChannelInit

LEMMA ChannelsInvNext ==
  ASSUME ChannelsInv, [ChannelsNext]_chanVars
  PROVE  ChannelsInv'
<1>1. NodeTyped /\ OrderTyped /\ chanTab \in ChannelTabRow /\ ChannelsTell /\ ChannelTabTells /\ OrderTells
  BY DEF ChannelsInv
<1>2. NodeTyped' /\ ChannelsTell'
  BY <1>1, NodeNext
<1>3. (chanTab \in ChannelTabRow)' /\ ChannelTabTells'
  BY <1>1, ChannelTabNext
<1>4. OrderTyped' /\ OrderTells'
  BY OrderNext
<1> QED
  BY <1>2, <1>3, <1>4 DEF ChannelsInv

(* The health of a node, as it is shown, is a percentage.                  *)
LEMMA HealthIsPercentage == NodeHealth \in 0..100
<1> DEFINE partners == Cardinality(Shown)
           capacity == Min({partners * OrderAmount, 1000000})
           weight == partners * 50 * capacity
           health == (weight + 999999) \div 1000000
<1>1. IsFiniteSet(Shown)
  BY ChanBasics, FS_Subset DEF Shown
<1>2. partners \in Nat
  BY <1>1, FS_CardinalityType
<1>3. partners * OrderAmount \in Nat
  BY <1>2, ChanBasics
<1>4. capacity \in Nat
  <2>1. {partners * OrderAmount, 1000000} \in SUBSET Nat /\ {partners * OrderAmount, 1000000} # {}
    BY <1>3
  <2>2. capacity \in {partners * OrderAmount, 1000000}
    BY <2>1, SmallestOf
  <2> QED
    BY <2>1, <2>2
<1>5. weight \in Nat
  BY <1>2, <1>4
<1>6. health \in Nat
  BY <1>5
<1>7. NodeHealth = IF health > 95 THEN 100 ELSE health
  BY DEF NodeHealth
<1> QED
  BY <1>6, <1>7

LEMMA ChannelsInvMeans == ChannelsInv => ChannelTypeOK /\ SuccessIsRight /\ TopupIsEnough
<1> SUFFICES ASSUME ChannelsInv PROVE ChannelTypeOK /\ SuccessIsRight /\ TopupIsEnough
  OBVIOUS
<1>1. NodeTyped /\ OrderTyped /\ chanTab \in ChannelTabRow /\ ChannelsTell /\ ChannelTabTells /\ OrderTells
  BY DEF ChannelsInv
<1>2. ChannelTypeOK
  BY <1>1 DEF ChannelTypeOK, NodeTyped, OrderTyped, ChannelRow, OrderRow, OpenReqRow, LspStates, Funds, ChannelTabRow, Looks, Dialogs
<1>3. SuccessIsRight
  <2>1. order \in OrderRow
    BY <1>1 DEF OrderTyped
  <2>2. ASSUME OrderScreen = "success", ~late
        PROVE  /\ order.funding # 0 /\ channel[order.funding].was
               /\ order.pay = "onchain" => channel[order.funding].by = order.n
               /\ order.pay = "lightning" => order.funding \notin order.prev
    BY <1>1, <2>1, <2>2, ScreenFacts DEF OrderTells
  <2>3. /\ chanTab.page = "auto/opened" => channel[chanTab.of].was /\ chanTab.of \notin chanTab.prev
        /\ chanTab.page = "first/opened" => channel[chanTab.of].was
    BY <1>1, ChanBasics DEF ChannelTabTells
  <2> QED
    BY <2>2, <2>3, HealthIsPercentage DEF SuccessIsRight
<1>4. TopupIsEnough
  <2>1. onchain.total \in Nat
    BY <1>1 DEF NodeTyped, Funds
  <2> QED
    BY <2>1, TopupSuffices DEF TopupIsEnough
<1> QED
  BY <1>2, <1>3, <1>4
-----------------------------------------------------------------------------
(* Connections: types.                                                     *)

Births == {"none", "new", "subwallet", "buzzpay", "boost", "board", "game", "cli", "plan"}
AppRow == [state : AppStates, isolated : BOOLEAN, store : Stores, lud16 : BOOLEAN,
           scopes : SUBSET Scopes, limit : BOOLEAN, funds : BOOLEAN, born : Births,
           unlocked : BOOLEAN, used : BOOLEAN]
AppTabRow == [page : AppPages, copy : AppRow, form : FormType, editing : BOOLEAN,
              dialog : {"no", "confirm", "password", "disconnect"}, edits : 0..2]
AppReqRow == [kind : {"none", "save", "convert", "address", "write", "remove", "erase", "delete"},
              base : AppRow, form : FormType, confirmed : BOOLEAN, stale : BOOLEAN]
PlanRow == [at : {"closed", "form", "made", "running"}, typed : Nat, sats : Nat,
            pending : SUBSET PlanAmounts, overtaken : BOOLEAN, max : Nat, each : Nat, left : Nat,
            spent : Nat, trouble : BOOLEAN]
AccountRow == [plan : BOOLEAN, full : BOOLEAN, linked : BOOLEAN]

AppsTyped ==
    /\ app \in AppRow /\ address \in BOOLEAN
    /\ appTab \in [Tabs -> AppTabRow] /\ appReq \in [Tabs -> AppReqRow]
    /\ zap \in PlanRow /\ account \in AccountRow /\ appVisit \in AppVisits

-----------------------------------------------------------------------------
(* Connections: the inductive invariant.                                   *)

(* A sub-wallet is what it was made as, and superuser is only who was made *)
(* with the unlock password.                                               *)
RowIsSafe(a) ==
    /\ a.born = "subwallet" => a.isolated /\ a.store = "subwallet"
    /\ "superuser" \in a.scopes => a.unlocked

(* The form for a new app is open only as long as there is none: nobody    *)
(* makes an app over another one.                                          *)
FormIsForNewApp(t, tab, a) ==
    /\ tab.dialog = "password" => tab.page = "configure"
    /\ tab.page = "configure" =>
        a.state = "none" /\ AppVisitTable[appVisit].kinds = {"new"} /\ t = 1

(* A request was made for this app, which the handler read when it was     *)
(* safe; a conversion makes a sub-wallet; and a save that was not to be    *)
(* confirmed, from a page that knew the app, grants nothing.               *)
RequestIsSafe(r, a) ==
    r.kind # "none" =>
        /\ a.state # "none" /\ r.base.born = a.born /\ RowIsSafe(r.base)
        /\ r.kind = "convert" => r.form.store = "subwallet"
        /\ r.kind = "save" /\ ~r.stale /\ ~r.confirmed =>
            /\ ~(r.base.isolated /\ ~r.form.isolated)
            /\ "pay_invoice" \notin r.form.scopes \ r.base.scopes

AppsInv ==
    /\ AppsTyped /\ RowIsSafe(app)
    /\ \A t \in Tabs : FormIsForNewApp(t, appTab[t], app) /\ RequestIsSafe(appReq[t], app)

(* The plan: what was spent and what is still to be paid, with one per     *)
(* cent of fees each time, fits the budget and stays below the warning.    *)
PlannedTotal == zap.spent + zap.left * (zap.each + (zap.each \div 100))
PlanInv ==
    /\ zap.at # "closed" => "plan" \in AppVisitTable[appVisit].kinds
    /\ zap.at # "running" => zap.spent = 0 /\ ~zap.trouble
    /\ zap.at \in {"made", "running"} /\ ~zap.overtaken =>
        /\ PlannedTotal + 10 <= zap.max
        /\ 10 * (PlannedTotal + 1) <= 8 * zap.max
        /\ ~zap.trouble

(* What GrantsAreConfirmed asks of a step.                                 *)
GrantIsConfirmed ==
    /\ app.state = "live" /\ app'.state = "live"
       /\ ("pay_invoice" \in app'.scopes \ app.scopes \/ (app.isolated /\ ~app'.isolated))
       => \E t \in Tabs : /\ appReq[t].kind = "save" /\ appReq'[t].kind = "none"
                          /\ \/ appReq[t].confirmed \/ appReq[t].stale \/ appReq[t].base # app
    /\ "superuser" \in app'.scopes => app'.unlocked

-----------------------------------------------------------------------------
(* Connections: a step changes one tab, its request and the row.           *)

LEMMA AppsStep ==
  ASSUME AppsInv, NEW t \in Tabs, NEW tab \in AppTabRow, NEW req \in AppReqRow,
         appTab' = [appTab EXCEPT ![t] = tab], appReq' = [appReq EXCEPT ![t] = req],
         app' \in AppRow, RowIsSafe(app'), app'.state = "none" => app.state = "none",
         app.state # "none" => app'.born = app.born,
         app.state = "none" /\ app'.state # "none" =>
            \A u \in Tabs \ {t} : appTab[u].page # "configure",
         FormIsForNewApp(t, tab, app'), RequestIsSafe(req, app'),
         address' \in BOOLEAN, zap' \in PlanRow, account' \in AccountRow, UNCHANGED appVisit
  PROVE  AppsInv'
<1>1. AppsTyped'
  BY DEF AppsInv, AppsTyped
<1>2. appTab'[t] = tab /\ appReq'[t] = req
  BY DEF AppsInv, AppsTyped
<1>3. ASSUME NEW u \in Tabs, u # t
      PROVE  FormIsForNewApp(u, appTab[u], app)' /\ RequestIsSafe(appReq[u], app)'
  <2>1. appTab'[u] = appTab[u] /\ appReq'[u] = appReq[u]
    BY <1>3 DEF AppsInv, AppsTyped
  <2>2. FormIsForNewApp(u, appTab[u], app) /\ RequestIsSafe(appReq[u], app)
    BY DEF AppsInv
  <2>3. FormIsForNewApp(u, appTab[u], app)'
    BY <1>3, <2>1, <2>2 DEF FormIsForNewApp
  <2> QED
    BY <2>1, <2>2, <2>3 DEF RequestIsSafe
<1>4. FormIsForNewApp(t, appTab[t], app)' /\ RequestIsSafe(appReq[t], app)'
  BY <1>2 DEF FormIsForNewApp, RequestIsSafe
<1> QED
  BY <1>1, <1>3, <1>4 DEF AppsInv

(* Only the tab changes.                                                   *)
LEMMA AppsTabStep ==
  ASSUME AppsInv, NEW t \in Tabs, NEW tab \in AppTabRow,
         appTab' = [appTab EXCEPT ![t] = tab], FormIsForNewApp(t, tab, app),
         UNCHANGED <<app, address, appReq, zap, account, appVisit>>
  PROVE  AppsInv' /\ GrantIsConfirmed
<1>1. appReq[t] \in AppReqRow /\ appReq' = [appReq EXCEPT ![t] = appReq[t]]
  BY DEF AppsInv, AppsTyped
<1>2. RequestIsSafe(appReq[t], app)' /\ RowIsSafe(app') /\ FormIsForNewApp(t, tab, app')
  BY DEF AppsInv, RequestIsSafe, RowIsSafe, FormIsForNewApp
<1>3. AppsInv'
  BY <1>1, <1>2, AppsStep DEF AppsInv, AppsTyped
<1> QED
  BY <1>3 DEF AppsInv, RowIsSafe, GrantIsConfirmed

(* The request of a tab changes, and perhaps the row.                      *)
LEMMA AppsReqStep ==
  ASSUME AppsInv, NEW t \in Tabs, NEW req \in AppReqRow,
         appReq' = [appReq EXCEPT ![t] = req], app' \in AppRow, RowIsSafe(app'),
         app.state # "none", app'.state # "none", app'.born = app.born, RequestIsSafe(req, app'),
         address' \in BOOLEAN, UNCHANGED <<appTab, zap, account, appVisit>>
  PROVE  AppsInv'
<1>1. appTab[t] \in AppTabRow /\ appTab' = [appTab EXCEPT ![t] = appTab[t]]
  BY DEF AppsInv, AppsTyped
<1>2. FormIsForNewApp(t, appTab[t], app')
  BY DEF AppsInv, FormIsForNewApp
<1> QED
  BY <1>1, <1>2, AppsStep DEF AppsInv, AppsTyped

-----------------------------------------------------------------------------
(* Connections: making an app.                                             *)

LEMMA VisitFacts ==
  ASSUME NEW v \in DOMAIN AppVisitTable
  PROVE  /\ \A t \in Tabs : AppVisitTable[v].edits[t] \in 0..2
         /\ AppVisitTable[v].links \subseteq Links
         /\ AppVisitTable[v].links # {} => AppVisitTable[v].kinds = {"new"}
<1>1. v \in {"subwallet", "new", "isolated", "shared", "internal", "planner"}
  BY DEF AppVisitTable
<1>2. PlainLink \in Links /\ IsolatedLink \in Links /\ SuperuserLink \in Links
  BY DEF PlainLink, IsolatedLink, SuperuserLink, Links
<1>3. <<1, 0>>[1] = 1 /\ <<1, 0>>[2] = 0 /\ <<2, 0>>[1] = 2 /\ <<2, 0>>[2] = 0
      /\ <<1, 1>>[1] = 1 /\ <<1, 1>>[2] = 1 /\ <<0, 0>>[1] = 0 /\ <<0, 0>>[2] = 0
  OBVIOUS
<1>4. AppVisitTable[v].edits \in {<<1, 0>>, <<2, 0>>, <<1, 1>>, <<0, 0>>}
  BY <1>1 DEF AppVisitTable, Does
<1>5. \A t \in Tabs : AppVisitTable[v].edits[t] \in 0..2
  BY <1>3, <1>4 DEF Tabs
<1>6. AppVisitTable[v].links \subseteq Links
  <2>1. CASE v = "subwallet" BY <2>1 DEF AppVisitTable, Does
  <2>2. CASE v = "new" BY <2>2 DEF AppVisitTable, Does
  <2>3. CASE v = "isolated" BY <2>3, <1>2 DEF AppVisitTable, Does
  <2>4. CASE v = "shared" BY <2>4, <1>2 DEF AppVisitTable, Does
  <2>5. CASE v = "internal" BY <2>5 DEF AppVisitTable, Does
  <2>6. CASE v = "planner" BY <2>6 DEF AppVisitTable, Does
  <2> QED
    BY <1>1, <2>1, <2>2, <2>3, <2>4, <2>5, <2>6
<1>7. AppVisitTable[v].links # {} => AppVisitTable[v].kinds = {"new"}
  BY <1>1 DEF AppVisitTable, Does
<1> QED
  BY <1>5, <1>6, <1>7

LEMMA VisitIsListed == AppsInv => appVisit \in DOMAIN AppVisitTable
  BY ConnectionsAssumption DEF AppsInv, AppsTyped

LEMMA RowTypes == /\ NoApp \in AppRow /\ NoForm \in FormType /\ NoAppTab \in AppTabRow /\ NoAppReq \in AppReqRow
  BY DEF NoApp, NoForm, NoAppTab, NoAppReq, AppRow, FormType, AppTabRow, AppReqRow, AppStates, Stores,
         Scopes, Capabilities, AppPages, Births

LEMMA FormTypes ==
  ASSUME NEW l \in Links PROVE InitialForm(l) \in FormType
  BY DEF InitialForm, InitialScopes, FormType, ScopeGroup, GroupScopes, Links, Capabilities, Scopes, Stores

LEMMA AppFormTypes ==
  ASSUME NEW a \in AppRow PROVE FormOf(a) \in FormType
  BY DEF FormOf, FormType, ScopeGroup, AppRow

LEMMA AppPageTypes ==
  ASSUME AppsInv, NEW t \in Tabs PROVE AppPage(t) \in AppTabRow /\ AppPage(t).page = "app" /\ AppPage(t).dialog = "no"
  <1>1. FormOf(app) \in FormType
    BY AppFormTypes DEF AppsInv, AppsTyped
  <1> QED
    BY <1>1, RowTypes DEF AppsInv, AppsTyped, AppPage, NoAppTab, AppTabRow, AppPages

LEMMA AppIsMade ==
  ASSUME NEW f \in FormType, NEW born \in Births, NEW unlocked \in BOOLEAN, CreateApp(f, born, unlocked),
         born = "subwallet" => f.isolated /\ f.store = "subwallet"
  PROVE  app' \in AppRow /\ app'.state = "live" /\ RowIsSafe(app')
<1>1. app' = [NoApp EXCEPT !.state = "live", !.isolated = f.isolated, !.store = f.store,
                           !.scopes = f.scopes, !.limit = f.limit, !.born = born, !.unlocked = unlocked]
      /\ ("superuser" \in f.scopes => unlocked)
  BY DEF CreateApp
<1>2. app' = [state |-> "live", isolated |-> f.isolated, store |-> f.store, lud16 |-> NoApp.lud16,
              scopes |-> f.scopes, limit |-> f.limit, funds |-> NoApp.funds, born |-> born,
              unlocked |-> unlocked, used |-> NoApp.used]
  BY <1>1 DEF NoApp
<1>3. /\ "live" \in AppStates /\ f.isolated \in BOOLEAN /\ f.store \in Stores /\ NoApp.lud16 \in BOOLEAN
      /\ f.scopes \in SUBSET Scopes /\ f.limit \in BOOLEAN /\ NoApp.funds \in BOOLEAN /\ NoApp.used \in BOOLEAN
  BY DEF AppStates, FormType, NoApp
<1>4. app' \in AppRow
  BY <1>2, <1>3 DEF AppRow
<1>5. /\ app'.state = "live" /\ app'.isolated = f.isolated /\ app'.store = f.store /\ app'.scopes = f.scopes
      /\ app'.born = born /\ app'.unlocked = unlocked
  BY <1>2
<1> QED
  BY <1>1, <1>4, <1>5 DEF RowIsSafe

LEMMA ByOpenNewApp == ASSUME AppsInv, NEW t \in Tabs, NEW l \in Links, OpenNewApp(t, l) PROVE AppsInv' /\ GrantIsConfirmed
<1> DEFINE tab == [appTab[t] EXCEPT !.page = "configure", !.form = InitialForm(l)]
<1>1. tab \in AppTabRow /\ appTab' = [appTab EXCEPT ![t] = tab]
  <2>1. appTab \in [Tabs -> AppTabRow] /\ InitialForm(l) \in FormType /\ "configure" \in AppPages
    BY FormTypes DEF AppsInv, AppsTyped, AppPages
  <2>2. appTab[t] \in AppTabRow
    BY <2>1
  <2>3. tab \in AppTabRow
    BY <2>1, <2>2 DEF AppTabRow
  <2>4. appTab' = [appTab EXCEPT ![t].page = "configure", ![t].form = InitialForm(l)]
    BY DEF OpenNewApp
  <2>5. appTab' = [appTab EXCEPT ![t] = tab]
    BY <2>1, <2>4
  <2> QED
    BY <2>3, <2>5
<1>2. AppVisitTable[appVisit].kinds = {"new"}
  BY VisitFacts, VisitIsListed DEF OpenNewApp
<1>3. FormIsForNewApp(t, tab, app)
  BY <1>2 DEF OpenNewApp, FormIsForNewApp, AppsInv, AppsTyped, AppTabRow
<1> HIDE DEF tab
<1> QED
  BY <1>1, <1>3, AppsTabStep DEF OpenNewApp

(* The form for a new app is sent, at once or with the password.           *)
LEMMA BySubmitNewApp ==
  ASSUME AppsInv, NEW t \in Tabs, SubmitNewApp(t) \/ ConfirmSuperuser(t, TRUE) \/ ConfirmSuperuser(t, FALSE)
  PROVE  AppsInv' /\ GrantIsConfirmed
<1>1. /\ appTab[t] \in AppTabRow /\ FormIsForNewApp(t, appTab[t], app)
      /\ appTab[t].page = "configure" /\ app.state = "none" /\ AppVisitTable[appVisit].kinds = {"new"} /\ t = 1
  BY DEF AppsInv, AppsTyped, FormIsForNewApp, SubmitNewApp, ConfirmSuperuser
<1>2. UNCHANGED <<address, appReq, zap, account, appVisit>>
  BY DEF SubmitNewApp, ConfirmSuperuser
<1>3. ASSUME app' = app, NEW d \in {"no", "password"}, appTab' = [appTab EXCEPT ![t].dialog = d]
      PROVE  AppsInv' /\ GrantIsConfirmed
  <2> DEFINE tab == [appTab[t] EXCEPT !.dialog = d]
  <2>1. tab \in AppTabRow /\ appTab' = [appTab EXCEPT ![t] = tab] /\ tab.page = "configure"
    BY <1>1, <1>3 DEF AppTabRow
  <2>2. FormIsForNewApp(t, tab, app)
    BY <1>1, <2>1 DEF FormIsForNewApp
  <2> HIDE DEF tab
  <2> QED
    BY <1>2, <1>3, <2>1, <2>2, AppsTabStep
<1>4. ASSUME NEW unlocked \in BOOLEAN, CreateApp(appTab[t].form, "new", unlocked),
             NEW tab \in AppTabRow, appTab' = [appTab EXCEPT ![t] = tab], tab.page = "finalize", tab.dialog = "no"
      PROVE  AppsInv' /\ GrantIsConfirmed
  <2>1. app' \in AppRow /\ app'.state = "live" /\ RowIsSafe(app')
    BY <1>1, <1>4, AppIsMade DEF AppTabRow, Births
  <2>2. appReq[t] \in AppReqRow /\ appReq' = [appReq EXCEPT ![t] = appReq[t]] /\ appReq[t].kind = "none"
    BY <1>1, <1>2 DEF AppsInv, AppsTyped, RequestIsSafe
  <2>3. \A u \in Tabs \ {t} : appTab[u].page # "configure"
    BY <1>1 DEF AppsInv, FormIsForNewApp
  <2>4. FormIsForNewApp(t, tab, app') /\ RequestIsSafe(appReq[t], app')
    BY <1>4, <2>2 DEF FormIsForNewApp, RequestIsSafe
  <2>5. AppsInv'
    BY <1>1, <1>2, <1>4, <2>1, <2>2, <2>3, <2>4, AppsStep DEF AppsInv, AppsTyped
  <2> QED
    BY <1>1, <2>1, <2>5 DEF GrantIsConfirmed, RowIsSafe
<1>5. CASE SubmitNewApp(t) /\ "superuser" \in appTab[t].form.scopes
  BY <1>3, <1>5 DEF SubmitNewApp
<1>6. CASE SubmitNewApp(t) /\ "superuser" \notin appTab[t].form.scopes
  <2> DEFINE tab == [appTab[t] EXCEPT !.page = "finalize"]
  <2>1. tab \in AppTabRow /\ tab.page = "finalize" /\ tab.dialog = "no" /\ appTab' = [appTab EXCEPT ![t] = tab]
    BY <1>1, <1>6 DEF SubmitNewApp, AppTabRow, AppPages
  <2> HIDE DEF tab
  <2> QED
    BY <1>4, <1>6, <2>1 DEF SubmitNewApp
<1>7. CASE ConfirmSuperuser(t, TRUE)
  <2> DEFINE tab == [appTab[t] EXCEPT !.dialog = "no", !.page = "finalize"]
  <2>1. tab \in AppTabRow /\ tab.page = "finalize" /\ tab.dialog = "no"
    BY <1>1 DEF AppTabRow, AppPages
  <2>2. appTab' = [appTab EXCEPT ![t] = tab]
    BY <1>7, Zenon DEF ConfirmSuperuser
  <2> HIDE DEF tab
  <2> QED
    BY <1>4, <1>7, <2>1, <2>2 DEF ConfirmSuperuser
<1>8. CASE ConfirmSuperuser(t, FALSE)
  BY <1>3, <1>8 DEF ConfirmSuperuser
<1> QED
  BY <1>5, <1>6, <1>7, <1>8

(* Apps with a page of their own, and sub-wallets.                         *)
LEMMA ByOtherApps ==
  ASSUME AppsInv, NEW t \in Tabs, SubmitSubwallet(t) \/ SubmitInternal(t)
  PROVE  AppsInv' /\ GrantIsConfirmed
<1>1. /\ appTab[t] \in AppTabRow /\ app.state = "none" /\ appTab[t].page = "start"
      /\ AppVisitTable[appVisit].kinds # {"new"} /\ FormIsForNewApp(t, appTab[t], app)
  <2>1. app.state = "none" /\ appTab[t].page = "start"
    BY DEF SubmitSubwallet, SubmitInternal
  <2>2. \E k \in {"subwallet", "shop", "game", "cli"} : k \in AppVisitTable[appVisit].kinds
    BY DEF SubmitSubwallet, SubmitInternal
  <2> QED
    BY <2>1, <2>2 DEF AppsInv, AppsTyped
<1>2. UNCHANGED <<address, appReq, zap, account, appVisit>>
  BY DEF SubmitSubwallet, SubmitInternal
<1>3. /\ app' \in AppRow /\ app'.state = "live" /\ RowIsSafe(app')
  <2>1. CASE SubmitSubwallet(t)
    <3> DEFINE f == [NoForm EXCEPT !.scopes = GroupScopes("isolated"), !.isolated = TRUE, !.store = "subwallet"]
    <3>1. f \in FormType /\ f.isolated /\ f.store = "subwallet"
      BY DEF NoForm, FormType, GroupScopes, Scopes, Capabilities, Stores
    <3>2. CreateApp(f, "subwallet", FALSE)
      BY <2>1 DEF SubmitSubwallet
    <3> HIDE DEF f
    <3> QED
      BY <3>1, <3>2, AppIsMade DEF Births
  <2>2. CASE SubmitInternal(t)
    <3>1. ASSUME NEW scopes \in SUBSET Capabilities, NEW i \in BOOLEAN, NEW m \in BOOLEAN
          PROVE  InternalApp(scopes, i, m) \in FormType
      BY DEF InternalApp, NoForm, FormType, Scopes, Capabilities, Stores
    <3>2. \E f \in FormType, born \in Births \ {"subwallet"} : CreateApp(f, born, FALSE)
      BY <2>2, <3>1 DEF SubmitInternal, SubmitBuzzPay, SubmitSimpleBoost, SubmitMessageboard, SubmitTictactoe,
         SubmitAlbyCliSkill, Births, Capabilities
    <3> QED
      BY <3>2, AppIsMade
  <2> QED
    BY <2>1, <2>2
<1>4. PICK tab \in AppTabRow : appTab' = [appTab EXCEPT ![t] = tab] /\ tab.page \in {"created", "list"} /\ tab.dialog # "password"
  <2>1. appTab[t].dialog # "password"
    BY <1>1 DEF FormIsForNewApp
  <2>2. CASE SubmitSubwallet(t)
    <3> DEFINE tab == [appTab[t] EXCEPT !.page = "created", !.copy = app']
    <3>1. tab \in AppTabRow /\ tab.page = "created" /\ tab.dialog # "password" /\ appTab' = [appTab EXCEPT ![t] = tab]
      BY <1>1, <1>3, <2>1, <2>2 DEF SubmitSubwallet, AppTabRow, AppPages
    <3> QED
      BY <3>1
  <2>3. CASE SubmitInternal(t)
    <3> DEFINE tab == [appTab[t] EXCEPT !.page = "list"]
    <3>1. tab \in AppTabRow /\ tab.page = "list" /\ tab.dialog # "password" /\ appTab' = [appTab EXCEPT ![t] = tab]
      BY <1>1, <2>1, <2>3 DEF SubmitInternal, AppTabRow, AppPages
    <3> QED
      BY <3>1
  <2> QED
    BY <2>2, <2>3
<1>5. appReq[t] \in AppReqRow /\ appReq' = [appReq EXCEPT ![t] = appReq[t]] /\ appReq[t].kind = "none"
  BY <1>1, <1>2 DEF AppsInv, AppsTyped, RequestIsSafe
<1>6. \A u \in Tabs \ {t} : appTab[u].page # "configure"
  BY <1>1 DEF AppsInv, FormIsForNewApp
<1>7. FormIsForNewApp(t, tab, app') /\ RequestIsSafe(appReq[t], app')
  BY <1>4, <1>5 DEF FormIsForNewApp, RequestIsSafe
<1>8. AppsInv'
  BY <1>1, <1>2, <1>3, <1>4, <1>5, <1>6, <1>7, AppsStep DEF AppsInv, AppsTyped
<1> QED
  BY <1>1, <1>3, <1>8 DEF GrantIsConfirmed, RowIsSafe

-----------------------------------------------------------------------------
(* Connections: steps of a page.                                           *)

(* A tab that keeps its page, and opens no password dialog.                *)
LEMMA SamePage ==
  ASSUME AppsInv, NEW t \in Tabs, NEW tab, tab.page = appTab[t].page,
         tab.dialog \in {"no", appTab[t].dialog, "confirm", "disconnect"}
  PROVE  FormIsForNewApp(t, tab, app)
  BY DEF AppsInv, FormIsForNewApp

LEMMA ByPages ==
  ASSUME AppsInv, NEW t \in Tabs,
         Finalized(t) \/ OpenApp(t, TRUE) \/ OpenApp(t, FALSE) \/ StoreAppConnected(t) \/ SkipApp(t) \/ OpenCleanup(t)
  PROVE  AppsInv' /\ GrantIsConfirmed
<1>1. appTab[t] \in AppTabRow /\ app \in AppRow
  BY DEF AppsInv, AppsTyped
<1>2. UNCHANGED <<app, address, appReq, zap, account, appVisit>>
  BY DEF Finalized, OpenApp, StoreAppConnected, SkipApp, OpenCleanup, OnlyTab
<1>3. \E tab \in AppTabRow : appTab' = [appTab EXCEPT ![t] = tab] /\ FormIsForNewApp(t, tab, app)
  <2>1. ASSUME NEW e \in BOOLEAN
        PROVE  LET tab == [AppPage(t) EXCEPT !.editing = e] IN tab \in AppTabRow /\ FormIsForNewApp(t, tab, app)
    BY AppPageTypes DEF FormIsForNewApp, AppTabRow
  <2>2. LET tab == [NoAppTab EXCEPT !.page = "list"] IN tab \in AppTabRow /\ FormIsForNewApp(t, tab, app)
    BY RowTypes DEF FormIsForNewApp, AppTabRow, NoAppTab, AppPages
  <2>3. OpenCleanup(t) => LET tab == [appTab[t] EXCEPT !.page = "cleanup", !.copy = app] IN tab \in AppTabRow /\ FormIsForNewApp(t, tab, app)
    BY <1>1 DEF FormIsForNewApp, AppTabRow, AppPages, OpenCleanup, AppsInv
  <2>4. AppPage(t) \in AppTabRow /\ FormIsForNewApp(t, AppPage(t), app)
    BY AppPageTypes DEF FormIsForNewApp
  <2> QED
    BY <2>1, <2>2, <2>3, <2>4 DEF Finalized, OpenApp, StoreAppConnected, SkipApp, OpenCleanup, OnlyTab
<1> QED
  BY <1>2, <1>3, AppsTabStep

LEMMA ByDetails ==
  ASSUME AppsInv, NEW t \in Tabs,
         RefreshApp(t) \/ StartEditing(t) \/ CancelEditing(t) \/ AskConfirmation(t) \/ OpenDisconnect(t)
  PROVE  AppsInv' /\ GrantIsConfirmed
<1>1. appTab[t] \in AppTabRow /\ app \in AppRow
  BY DEF AppsInv, AppsTyped
<1>2. UNCHANGED <<app, address, appReq, zap, account, appVisit>>
  BY DEF RefreshApp, StartEditing, CancelEditing, AskConfirmation, OpenDisconnect, OnlyTab
<1>3. \E tab \in AppTabRow : /\ appTab' = [appTab EXCEPT ![t] = tab] /\ tab.page = appTab[t].page
                             /\ tab.dialog \in {"no", appTab[t].dialog, "confirm", "disconnect"}
  <2>1. [appTab[t] EXCEPT !.copy = app] \in AppTabRow
    BY <1>1 DEF AppTabRow
  <2>2. \A e \in BOOLEAN : [appTab[t] EXCEPT !.editing = e] \in AppTabRow
    BY <1>1 DEF AppTabRow
  <2>3. \A d \in {"confirm", "disconnect"} : [appTab[t] EXCEPT !.dialog = d] \in AppTabRow
    BY <1>1 DEF AppTabRow
  <2>4. CASE RefreshApp(t)
    BY <1>1, <2>1, <2>4 DEF RefreshApp, OnlyTab, AppTabRow
  <2>5. CASE StartEditing(t) \/ CancelEditing(t)
    BY <1>1, <2>2, <2>5 DEF StartEditing, CancelEditing, OnlyTab, AppTabRow
  <2>6. CASE AskConfirmation(t) \/ OpenDisconnect(t)
    BY <1>1, <2>3, <2>6 DEF AskConfirmation, OpenDisconnect, OnlyTab, AppTabRow
  <2> QED
    BY <2>4, <2>5, <2>6 DEF RefreshApp, StartEditing, CancelEditing, AskConfirmation, OpenDisconnect
<1> QED
  BY <1>2, <1>3, SamePage, AppsTabStep

LEMMA ByEditForm ==
  ASSUME AppsInv, NEW t \in Tabs, NEW f \in FormType, EditForm(t, f)
  PROVE  AppsInv' /\ GrantIsConfirmed
<1> DEFINE tab == [appTab[t] EXCEPT !.form = f, !.edits = @ + 1]
<1>1. AppVisitTable[appVisit].edits[t] \in 0..2
  BY VisitFacts, VisitIsListed
<1>2. tab \in AppTabRow /\ tab.page = appTab[t].page /\ tab.dialog = appTab[t].dialog
  <2>1. appTab[t] \in AppTabRow
    BY DEF AppsInv, AppsTyped
  <2>2. appTab[t].edits < AppVisitTable[appVisit].edits[t]
    BY DEF EditForm
  <2>3. appTab[t].edits + 1 \in 0..2
    BY <1>1, <2>1, <2>2 DEF AppTabRow
  <2> QED
    BY <2>1, <2>3 DEF AppTabRow
<1>3. appTab' = [appTab EXCEPT ![t] = tab] /\ UNCHANGED <<app, address, appReq, zap, account, appVisit>>
  BY DEF EditForm, OnlyTab
<1> HIDE DEF tab
<1> QED
  BY <1>2, <1>3, SamePage, AppsTabStep

LEMMA ByForms ==
  ASSUME AppsInv, NEW t \in Tabs, NEW g \in {"full_access", "read_only", "isolated", "custom"}, NEW s \in Capabilities,
         ChooseGroup(t, g) \/ SwitchScope(t, s) \/ SwitchIsolated(t) \/ SwitchLimit(t)
  PROVE  AppsInv' /\ GrantIsConfirmed
<1>1. appTab[t].form \in FormType
  BY DEF AppsInv, AppsTyped, AppTabRow
<1>2. GroupScopes(g) \subseteq Scopes
  BY DEF GroupScopes, Scopes, Capabilities
<1>3. \E f \in FormType : EditForm(t, f)
  <2>1. CASE ChooseGroup(t, g)
    BY <1>1, <1>2, <2>1 DEF ChooseGroup, FormType
  <2>2. CASE SwitchScope(t, s)
    BY <1>1, <2>2 DEF SwitchScope, FormType, Scopes
  <2>3. CASE SwitchIsolated(t)
    BY <1>1, <2>3 DEF SwitchIsolated, FormType
  <2>4. CASE SwitchLimit(t)
    BY <1>1, <2>4 DEF SwitchLimit, FormType
  <2> QED
    BY <2>1, <2>2, <2>3, <2>4
<1> QED
  BY <1>3, ByEditForm

-----------------------------------------------------------------------------
(* Connections: requests.                                                  *)

LEMMA SameRights ==
  ASSUME RowIsSafe(app'), app'.scopes = app.scopes, app'.isolated = app.isolated
  PROVE  GrantIsConfirmed
  BY DEF GrantIsConfirmed, RowIsSafe

(* What a request holds when it is sent.                                   *)
LEMMA SentRequest ==
  ASSUME AppsInv, NEW t \in Tabs, NEW f \in FormType,
         NEW kind \in {"save", "convert", "address", "remove", "delete"}, Sends(t, kind, f)
  PROVE  /\ appReq'[t] \in AppReqRow /\ appReq' = [appReq EXCEPT ![t] = appReq'[t]]
         /\ app.state # "none"
         /\ appReq'[t].kind = kind /\ appReq'[t].base = app /\ appReq'[t].form = f
         /\ appReq'[t].confirmed = (appTab[t].dialog = "confirm")
         /\ appReq'[t].stale = (appTab[t].copy # app)
  BY DEF Sends, AppsInv, AppsTyped, AppReqRow

LEMMA ByAsking ==
  ASSUME AppsInv, NEW t \in Tabs, ConvertToSubwallet(t) \/ AskAddress(t) \/ AskNoAddress(t) \/ AskDelete(t)
  PROVE  AppsInv' /\ GrantIsConfirmed
<1>1. UNCHANGED <<app, address, appTab, zap, account, appVisit>>
  BY DEF ConvertToSubwallet, AskAddress, AskNoAddress, AskDelete
<1>2. \E kind \in {"convert", "address", "remove", "delete"}, f \in FormType :
        Sends(t, kind, f) /\ (kind = "convert" => f.store = "subwallet")
  <2>1. CASE ConvertToSubwallet(t)
    <3>1. [NoForm EXCEPT !.store = "subwallet", !.lud16 = appTab[t].copy.lud16] \in FormType
      <4>1. appTab[t].copy.lud16 \in BOOLEAN
        BY DEF AppsInv, AppsTyped, AppTabRow, AppRow
      <4>2. ASSUME NEW b \in BOOLEAN PROVE [NoForm EXCEPT !.store = "subwallet", !.lud16 = b] \in FormType
        <5> DEFINE g == [NoForm EXCEPT !.store = "subwallet"]
        <5>1. "subwallet" \in Stores /\ NoForm \in FormType
          BY RowTypes DEF Stores
        <5>2. g \in FormType
          BY <5>1 DEF FormType
        <5>3. [NoForm EXCEPT !.store = "subwallet", !.lud16 = b] = [g EXCEPT !.lud16 = b]
          OBVIOUS
        <5> HIDE DEF g
        <5>4. [g EXCEPT !.lud16 = b] \in FormType
          BY <5>2 DEF FormType
        <5> QED
          BY <5>3, <5>4
      <4> QED
        BY <4>1, <4>2
    <3>2. [NoForm EXCEPT !.store = "subwallet", !.lud16 = appTab[t].copy.lud16].store = "subwallet"
      BY DEF NoForm
    <3> QED
      BY <2>1, <3>1, <3>2 DEF ConvertToSubwallet
  <2>2. CASE AskAddress(t) \/ AskNoAddress(t) \/ AskDelete(t)
    BY <2>2, RowTypes DEF AskAddress, AskNoAddress, AskDelete
  <2> QED
    BY <2>1, <2>2
<1>3. /\ appReq'[t] \in AppReqRow /\ appReq' = [appReq EXCEPT ![t] = appReq'[t]]
      /\ app.state # "none" /\ RequestIsSafe(appReq'[t], app')
  BY <1>1, <1>2, SentRequest DEF RequestIsSafe, AppsInv
<1>4. AppsInv'
  BY <1>1, <1>3, AppsReqStep DEF AppsInv, AppsTyped
<1> QED
  BY <1>1, <1>4, SameRights DEF AppsInv

LEMMA ByHandleSave == ASSUME AppsInv, NEW t \in Tabs, HandleSave(t) PROVE AppsInv' /\ GrantIsConfirmed
<1> DEFINE tab == [appTab[t] EXCEPT !.dialog = "no"]
<1>1. /\ appTab[t] \in AppTabRow /\ appTab[t].form \in FormType
      /\ UNCHANGED <<app, address, zap, account, appVisit>>
  BY DEF AppsInv, AppsTyped, AppTabRow, HandleSave
<1>2. tab \in AppTabRow /\ appTab' = [appTab EXCEPT ![t] = tab] /\ tab.page = appTab[t].page /\ tab.dialog = "no"
  BY <1>1 DEF HandleSave, AppTabRow
<1>3. Sends(t, "save", appTab[t].form)
  BY DEF HandleSave
<1>4. RequestIsSafe(appReq'[t], app')
  <2>1. ~appReq'[t].stale /\ ~appReq'[t].confirmed => ~NeedsConfirmation(t) /\ appTab[t].copy = app
    BY <1>1, <1>3, SentRequest DEF HandleSave
  <2> QED
    BY <1>1, <1>3, <2>1, SentRequest DEF RequestIsSafe, NeedsConfirmation, AppsInv
<1>5. FormIsForNewApp(t, tab, app)
  BY <1>2, SamePage
<1> HIDE DEF tab
<1>6. AppsInv'
  BY <1>1, <1>2, <1>3, <1>4, <1>5, SentRequest, AppsStep DEF AppsInv, AppsTyped
<1> QED
  BY <1>1, <1>6, SameRights DEF AppsInv

(* Alby is asked for an address, or to take one back.                      *)
LEMMA ByAddress ==
  ASSUME AppsInv, NEW t \in Tabs, AddressMade(t) \/ AddressRemoved(t)
  PROVE  AppsInv' /\ GrantIsConfirmed
<1>1. /\ appReq[t] \in AppReqRow /\ RequestIsSafe(appReq[t], app) /\ appReq[t].kind \in {"address", "remove"}
      /\ UNCHANGED <<app, appTab, zap, account, appVisit>> /\ address' \in BOOLEAN
  BY DEF AppsInv, AppsTyped, AddressMade, AddressRemoved
<1>2. \E req \in AppReqRow : appReq' = [appReq EXCEPT ![t] = req] /\ RequestIsSafe(req, app)
  <2>1. RequestIsSafe(NoAppReq, app)
    BY DEF RequestIsSafe, NoAppReq
  <2>2. \A k \in {"write", "erase"} : [appReq[t] EXCEPT !.kind = k] \in AppReqRow /\ RequestIsSafe([appReq[t] EXCEPT !.kind = k], app)
    BY <1>1 DEF AppReqRow, RequestIsSafe
  <2> QED
    BY <2>1, <2>2, RowTypes DEF AddressMade, AddressRemoved, Answered
<1>3. app.state # "none"
  BY <1>1 DEF RequestIsSafe
<1>4. AppsInv'
  BY <1>1, <1>2, <1>3, AppsReqStep DEF AppsInv, AppsTyped
<1> QED
  BY <1>1, <1>4, SameRights DEF AppsInv

(* The row is written with what the handler has read before.               *)
LEMMA ByMetadata ==
  ASSUME AppsInv, NEW t \in Tabs, AddressWritten(t) \/ ConvertCommits(t)
  PROVE  AppsInv' /\ GrantIsConfirmed
<1>1. /\ appReq[t] \in AppReqRow /\ RequestIsSafe(appReq[t], app) /\ appReq[t].kind \in {"write", "erase", "convert"}
      /\ UNCHANGED <<address, appTab, zap, account, appVisit>> /\ app \in AppRow /\ RowIsSafe(app)
      /\ appReq' = [appReq EXCEPT ![t] = NoAppReq] /\ app.state # "none"
  BY DEF AppsInv, AppsTyped, AddressWritten, ConvertCommits, Answered, RequestIsSafe
<1>2. app' \in AppRow /\ RowIsSafe(app') /\ app'.state = app.state /\ app'.born = app.born
      /\ app'.scopes = app.scopes /\ app'.isolated = app.isolated
  <2>1. CASE AddressWritten(t)
    <3>1. CASE app.state # "live"
      BY <1>1, <2>1, <3>1 DEF AddressWritten
    <3>2. CASE app.state = "live"
      <4>1. app' = [app EXCEPT !.store = appReq[t].base.store, !.lud16 = (appReq[t].kind = "write")]
        BY <2>1, <3>2 DEF AddressWritten
      <4>2. app.born = "subwallet" => appReq[t].base.store = "subwallet"
        BY <1>1 DEF RequestIsSafe, RowIsSafe
      <4>3. appReq[t].base.store \in Stores /\ (appReq[t].kind = "write") \in BOOLEAN
        BY <1>1 DEF AppReqRow, AppRow
      <4> QED
        BY <1>1, <4>1, <4>2, <4>3 DEF AppRow, RowIsSafe
    <3> QED
      BY <3>1, <3>2
  <2>2. CASE ConvertCommits(t)
    <3>1. CASE app.state # "live"
      BY <1>1, <2>2, <3>1 DEF ConvertCommits
    <3>2. CASE app.state = "live"
      <4>1. app' = [app EXCEPT !.store = appReq[t].form.store, !.lud16 = appReq[t].form.lud16]
        BY <2>2, <3>2 DEF ConvertCommits
      <4>2. appReq[t].form.store = "subwallet"
        BY <1>1, <2>2 DEF RequestIsSafe, ConvertCommits
      <4>3. appReq[t].form.lud16 \in BOOLEAN /\ "subwallet" \in Stores
        BY <1>1 DEF AppReqRow, FormType, Stores
      <4> QED
        BY <1>1, <4>1, <4>2, <4>3 DEF AppRow, RowIsSafe
    <3> QED
      BY <3>1, <3>2
  <2> QED
    BY <2>1, <2>2
<1>3. RequestIsSafe(NoAppReq, app')
  BY DEF RequestIsSafe, NoAppReq
<1>4. AppsInv'
  BY <1>1, <1>2, <1>3, RowTypes, AppsReqStep DEF AppsInv, AppsTyped
<1> QED
  BY <1>2, <1>4, SameRights

LEMMA BySaveCommits == ASSUME AppsInv, NEW t \in Tabs, SaveCommits(t) PROVE AppsInv' /\ GrantIsConfirmed
<1> DEFINE r == appReq[t]
           tab == [appTab[t] EXCEPT !.editing = UpdateAppRefuses(r.base, r.form)]
<1>1. /\ r \in AppReqRow /\ r.base \in AppRow /\ r.form \in FormType /\ RequestIsSafe(r, app) /\ r.kind = "save"
      /\ UNCHANGED <<address, zap, account, appVisit>> /\ app \in AppRow /\ RowIsSafe(app)
      /\ appReq' = [appReq EXCEPT ![t] = NoAppReq] /\ app.state # "none" /\ app' = UpdateApp(r.base, r.form)
  BY DEF AppsInv, AppsTyped, SaveCommits, Answered, RequestIsSafe, AppReqRow
<1>2. UpdateAppRefuses(r.base, r.form) \in BOOLEAN
  BY DEF UpdateAppRefuses
<1>3. tab \in AppTabRow /\ tab.page = appTab[t].page /\ tab.dialog = appTab[t].dialog /\ appTab' = [appTab EXCEPT ![t] = tab]
  BY <1>2 DEF AppsInv, AppsTyped, AppTabRow, SaveCommits
<1>4. FormIsForNewApp(t, tab, app)
  BY <1>3, SamePage
<1>5. CASE app' = app
  <2>1. RequestIsSafe(NoAppReq, app')
    BY DEF RequestIsSafe, NoAppReq
  <2> HIDE DEF tab, r
  <2>2. AppsInv'
    BY <1>1, <1>3, <1>4, <1>5, <2>1, RowTypes, AppsStep DEF AppsInv, AppsTyped
  <2> QED
    BY <1>5, <2>2, SameRights DEF AppsInv
<1>6. CASE app' # app
  <2>1. /\ app' = [app EXCEPT !.isolated = IF r.form.isolated # r.base.isolated THEN r.form.isolated ELSE @,
                              !.scopes = r.form.scopes, !.limit = r.form.limit]
        /\ app.state = "live" /\ ~UpdateAppRefuses(r.base, r.form)
    BY <1>1, <1>6 DEF UpdateApp
  <2>2. /\ app' \in AppRow /\ app'.state = app.state /\ app'.born = app.born /\ app'.unlocked = app.unlocked
        /\ app'.store = app.store /\ app'.scopes = r.form.scopes
        /\ app'.isolated = IF r.form.isolated # r.base.isolated THEN r.form.isolated ELSE app.isolated
    BY <1>1, <2>1 DEF AppRow, FormType
  <2>3. RowIsSafe(app')
    BY <1>1, <2>1, <2>2 DEF RowIsSafe, RequestIsSafe, UpdateAppRefuses
  <2>4. FormIsForNewApp(t, tab, app') /\ RequestIsSafe(NoAppReq, app')
    BY <1>4, <2>1, <2>2 DEF FormIsForNewApp, RequestIsSafe, NoAppReq
  <2>5. AppsInv'
    <3> HIDE DEF tab, r
    <3> QED
      BY <1>1, <1>3, <2>2, <2>3, <2>4, RowTypes, AppsStep DEF AppsInv, AppsTyped
  <2>6. ASSUME "pay_invoice" \in app'.scopes \ app.scopes \/ (app.isolated /\ ~app'.isolated)
        PROVE  r.confirmed \/ r.stale \/ r.base # app
    BY <1>1, <2>2, <2>6 DEF RequestIsSafe
  <2>7. appReq'[t].kind = "none"
    BY <1>1 DEF AppsInv, AppsTyped, NoAppReq
  <2> QED
    BY <1>1, <2>3, <2>5, <2>6, <2>7 DEF GrantIsConfirmed, RowIsSafe
<1> QED
  BY <1>5, <1>6

LEMMA ByTransfer ==
  ASSUME AppsInv, NEW t \in Tabs, NEW what \in {"topup", "drawdown"}, Transfer(t, what)
  PROVE  AppsInv' /\ GrantIsConfirmed
<1> DEFINE tab == [appTab[t] EXCEPT !.copy = app']
<1>1. UNCHANGED <<address, appReq, zap, account, appVisit>> /\ app.state = "live" /\ app \in AppRow /\ RowIsSafe(app)
      /\ app' = [app EXCEPT !.funds = (what = "topup")]
  BY DEF AppsInv, AppsTyped, Transfer
<1>2. /\ app' \in AppRow /\ app'.state = "live" /\ app'.born = app.born /\ app'.scopes = app.scopes
      /\ app'.isolated = app.isolated /\ app'.store = app.store /\ app'.unlocked = app.unlocked
  BY <1>1 DEF AppRow
<1>3. RowIsSafe(app') /\ RequestIsSafe(appReq[t], app') /\ appReq[t] \in AppReqRow /\ appReq' = [appReq EXCEPT ![t] = appReq[t]]
  BY <1>1, <1>2 DEF RowIsSafe, RequestIsSafe, AppsInv, AppsTyped
<1>4. tab \in AppTabRow /\ tab.page = "app" /\ tab.dialog = appTab[t].dialog /\ appTab' = [appTab EXCEPT ![t] = tab]
  BY <1>2 DEF AppsInv, AppsTyped, AppTabRow, Transfer
<1>5. FormIsForNewApp(t, tab, app')
  BY <1>2, <1>4 DEF FormIsForNewApp, AppsInv, Transfer
<1> HIDE DEF tab
<1>6. AppsInv'
  BY <1>1, <1>2, <1>3, <1>4, <1>5, AppsStep DEF AppsInv, AppsTyped
<1> QED
  BY <1>2, <1>3, <1>6, SameRights

LEMMA ByDeleteApp == ASSUME AppsInv, NEW t \in Tabs, DeleteApp(t) PROVE AppsInv' /\ GrantIsConfirmed
<1> DEFINE tab == [NoAppTab EXCEPT !.page = "list"]
<1>1. /\ UNCHANGED <<zap, account, appVisit>> /\ app.state # "none" /\ app \in AppRow /\ RowIsSafe(app)
      /\ app' = [app EXCEPT !.state = "deleted"] /\ address' \in BOOLEAN
      /\ appReq' = [appReq EXCEPT ![t] = NoAppReq]
  BY DEF AppsInv, AppsTyped, DeleteApp, Answered, RequestIsSafe
<1>2. /\ app' \in AppRow /\ app'.state = "deleted" /\ app'.born = app.born /\ app'.scopes = app.scopes
      /\ app'.isolated = app.isolated /\ app'.store = app.store /\ app'.unlocked = app.unlocked
  BY <1>1 DEF AppRow, AppStates
<1>3. RowIsSafe(app') /\ RequestIsSafe(NoAppReq, app')
  BY <1>1, <1>2 DEF RowIsSafe, RequestIsSafe, NoAppReq
<1>4. tab \in AppTabRow /\ FormIsForNewApp(t, tab, app') /\ appTab' = [appTab EXCEPT ![t] = tab]
  BY RowTypes DEF AppTabRow, AppPages, NoAppTab, DeleteApp, FormIsForNewApp
<1> HIDE DEF tab
<1>5. AppsInv'
  BY <1>1, <1>2, <1>3, <1>4, RowTypes, AppsStep DEF AppsInv, AppsTyped
<1> QED
  BY <1>2, <1>3, <1>5, SameRights

(* Steps of no tab, and the link of the account.                           *)
LEMMA ByOthers ==
  ASSUME AppsInv, UNCHANGED <<address, appTab, appReq, appVisit>>,
         account' \in AccountRow, zap' \in PlanRow, AppUsed \/ app' = app
  PROVE  AppsInv' /\ GrantIsConfirmed
<1>1. /\ app' \in AppRow /\ app'.state = app.state /\ app'.born = app.born /\ app'.scopes = app.scopes
      /\ app'.isolated = app.isolated /\ app'.store = app.store /\ app'.unlocked = app.unlocked
  BY DEF AppsInv, AppsTyped, AppRow, AppUsed
<1>2. RowIsSafe(app')
  BY <1>1 DEF AppsInv, RowIsSafe
<1>3. ASSUME NEW t \in Tabs PROVE FormIsForNewApp(t, appTab[t], app)' /\ RequestIsSafe(appReq[t], app)'
  BY <1>1 DEF AppsInv, FormIsForNewApp, RequestIsSafe
<1>4. AppsInv'
  BY <1>1, <1>2, <1>3 DEF AppsInv, AppsTyped
<1> QED
  BY <1>1, <1>2, <1>4, SameRights

-----------------------------------------------------------------------------
(* Connections: the arithmetic of plans.                                   *)

(* Rounding up.                                                            *)
LEMMA CeilBounds ==
  ASSUME NEW a \in Nat, NEW b \in Nat \ {0}
  PROVE  CeilDiv(a, b) \in Nat /\ b * CeilDiv(a, b) >= a
<1>1. \A x \in Nat : x \div b \in Nat /\ x < b * (x \div b) + b
  OBVIOUS
<1>2. a + b - 1 \in Nat
  OBVIOUS
<1> QED
  BY <1>1, <1>2 DEF CeilDiv

LEMMA PeriodsAreNumbers ==
  ASSUME NEW r \in PlanRates PROVE PeriodsPerMonth(r) \in Nat
<1>1. r.unit \in {"days", "weeks", "months"} /\ r.every \in Nat \ {0}
  BY ConnectionsAssumption
<1>2. 7 * r.every \in Nat \ {0}
  BY <1>1
<1> QED
  BY <1>1, <1>2, CeilBounds DEF PeriodsPerMonth

(* A payment with its reserve, and with one per cent of fees.              *)
LEMMA ReserveIsSmall ==
  ASSUME NEW a \in Nat PROVE FeeReserve(a) <= (a \div 100) + 10 /\ FeeReserve(a) \in Nat
<1> DEFINE c == CeilDiv(a, 100)
<1>1. c \in Nat /\ c <= (a \div 100) + 1
  BY DEF CeilDiv
<1>2. \E m \in {c, 10} : \A n \in {c, 10} : n <= m
  BY <1>1
<1>3. Max({c, 10}) \in {c, 10}
  BY <1>2 DEF Max
<1> QED
  BY <1>1, <1>3 DEF FeeReserve

(* What a month of payments may cost, of n payments of a sats.             *)
LEMMA MonthFits ==
  ASSUME NEW a \in Nat, NEW n \in Nat
  PROVE  /\ MonthlyBudget(a, n) \in Nat
         /\ n * (a + (a \div 100)) \in Nat
         /\ 10 * (n * (a + (a \div 100)) + 10) <= 8 * MonthlyBudget(a, n)
<1> DEFINE x == a * n
           e == a + (a \div 100)
           total == n * e
           m == MonthlyBudget(a, n)
<1>1. x \in Nat /\ e \in Nat /\ 100 * e <= 101 * a
  OBVIOUS
<1>2. total \in Nat /\ 100 * total <= 101 * x
  <2>1. n * (100 * e) <= n * (101 * a)
    BY <1>1
  <2>2. n * (100 * e) = 100 * total /\ n * (101 * a) = 101 * x
    BY <1>1
  <2> QED
    BY <1>1, <2>1, <2>2
<1>3. 101 * a * n = 101 * x
  OBVIOUS
<1>4. m \in Nat /\ 1000 * m >= 13 * (101 * x + 1000)
  <2>1. 13 * (101 * x + 1000) \in Nat
    BY <1>1
  <2>2. m = CeilDiv(13 * (101 * x + 1000), 1000)
    BY <1>3 DEF MonthlyBudget
  <2> QED
    BY <2>1, <2>2, CeilBounds
<1> HIDE DEF x, e, m, total
<1>5. 10 * (total + 10) <= 8 * m
  BY <1>1, <1>2, <1>4
<1> QED
  BY <1>2, <1>4, <1>5 DEF total, e, m

LEMMA SupportFits ==
  ASSUME NEW a \in Nat, a >= 1000
  PROVE  SupportBudget(a) \in Nat /\ 10 * (a + (a \div 100) + 10) <= 8 * SupportBudget(a)
  BY DEF SupportBudget

-----------------------------------------------------------------------------
(* Connections: plans.                                                     *)

LEMMA PlanStays == ASSUME PlanInv, UNCHANGED <<zap, appVisit>> PROVE PlanInv'
  BY DEF PlanInv, PlannedTotal

LEMMA ByTypeAmount ==
  ASSUME AppsInv, PlanInv, NEW a \in PlanAmounts, TypeAmount(a) \/ AmountConverted(a)
  PROVE  AppsInv' /\ PlanInv' /\ GrantIsConfirmed
<1>1. a \in Nat
  BY ConnectionsAssumption
<1>2. UNCHANGED <<app, address, appTab, appReq, account, appVisit>> /\ zap.at \in {"closed", "form"} /\ zap \in PlanRow
      /\ "plan" \in AppVisitTable[appVisit].kinds
  BY DEF TypeAmount, AmountConverted, OnlyPlan, AppsInv, AppsTyped, PlanInv
<1>3. zap' \in PlanRow /\ zap'.at = "form" /\ zap'.spent = zap.spent /\ zap'.trouble = zap.trouble
  <2>1. CASE TypeAmount(a)
    <3>1. zap' = [zap EXCEPT !.at = "form", !.typed = a, !.pending = @ \cup {a}]
      BY <2>1 DEF TypeAmount, OnlyPlan
    <3> QED
      BY <1>1, <1>2, <3>1 DEF PlanRow
  <2>2. CASE AmountConverted(a)
    <3>1. zap' = [zap EXCEPT !.sats = a, !.pending = @ \ {a}] /\ zap.at = "form"
      BY <2>2 DEF AmountConverted, OnlyPlan
    <3> QED
      BY <1>1, <1>2, <3>1 DEF PlanRow
  <2> QED
    BY <2>1, <2>2
<1>4. PlanInv'
  BY <1>2, <1>3 DEF PlanInv
<1> QED
  BY <1>2, <1>3, <1>4, ByOthers DEF AppsInv, AppsTyped

(* A plan is made for n payments of a sats, which the budget is enough for *)
(* unless the amount was overtaken.                                        *)
LEMMA ByMakePlan ==
  ASSUME AppsInv, PlanInv, NEW max \in Nat, NEW n \in Nat, NEW a \in Nat, MakePlan(max, n, a),
         zap.at \in {"closed", "form"}, "plan" \in AppVisitTable[appVisit].kinds,
         ~zap'.overtaken => 10 * (n * (a + (a \div 100)) + 10) <= 8 * max
  PROVE  AppsInv' /\ PlanInv' /\ GrantIsConfirmed
<1> DEFINE f == [NoForm EXCEPT !.scopes = {"pay_invoice"}, !.limit = TRUE, !.store = "internal"]
           outdated == zap.at = "form" /\ zap.sats # zap.typed
<1>1. /\ UNCHANGED <<address, appTab, appReq, account, appVisit>> /\ app.state = "none" /\ zap \in PlanRow
      /\ CreateApp(f, "plan", FALSE)
      /\ zap' = [zap EXCEPT !.at = "made", !.max = max, !.left = n, !.each = a, !.pending = {}, !.overtaken = outdated]
  BY DEF MakePlan, AppsInv, AppsTyped
<1>2. f \in FormType
  BY DEF NoForm, FormType, Scopes, Capabilities, Stores
<1>3. app' \in AppRow /\ app'.state = "live" /\ RowIsSafe(app')
  <2> HIDE DEF f
  <2> QED
    BY <1>1, <1>2, AppIsMade DEF Births
<1>4. /\ zap' \in PlanRow /\ zap'.at = "made" /\ zap'.max = max /\ zap'.left = n /\ zap'.each = a
      /\ zap'.spent = zap.spent /\ zap'.trouble = zap.trouble
  <2>1. outdated \in BOOLEAN
    OBVIOUS
  <2> HIDE DEF outdated
  <2> QED
    BY <1>1, <2>1 DEF PlanRow
<1>5. ASSUME NEW t \in Tabs
      PROVE  /\ appTab[t].page # "configure" /\ FormIsForNewApp(t, appTab[t], app')
             /\ appReq[t].kind = "none" /\ RequestIsSafe(appReq[t], app')
  <2>1. FormIsForNewApp(t, appTab[t], app) /\ RequestIsSafe(appReq[t], app)
    BY DEF AppsInv
  <2>2. AppVisitTable[appVisit].kinds # {"new"}
    OBVIOUS
  <2> QED
    BY <1>1, <2>1, <2>2 DEF FormIsForNewApp, RequestIsSafe
<1>6. AppsInv'
  <2>1. AppsTyped'
    BY <1>1, <1>3, <1>4 DEF AppsInv, AppsTyped
  <2>2. ASSUME NEW t \in Tabs PROVE FormIsForNewApp(t, appTab[t], app)' /\ RequestIsSafe(appReq[t], app)'
    BY <1>1, <1>5 DEF FormIsForNewApp, RequestIsSafe
  <2> QED
    BY <1>3, <2>1, <2>2 DEF AppsInv
<1>7. PlanInv'
  <2>1. zap'.spent = 0 /\ ~zap'.trouble
    BY <1>4 DEF PlanInv
  <2>2. PlannedTotal' = n * (a + (a \div 100)) /\ PlannedTotal' \in Nat
    BY <1>4, <2>1, MonthFits DEF PlannedTotal
  <2>3. ~zap'.overtaken => PlannedTotal' + 10 <= max /\ 10 * (PlannedTotal' + 1) <= 8 * max
    BY <2>2
  <2> QED
    BY <1>1, <1>4, <2>1, <2>3 DEF PlanInv
<1> QED
  BY <1>1, <1>3, <1>6, <1>7 DEF GrantIsConfirmed, RowIsSafe

LEMMA ByPlans ==
  ASSUME AppsInv, PlanInv,
         (\E a \in PlanAmounts : SubmitSupport(a)) \/ (\E r \in PlanRates : SubmitPlan(r))
  PROVE  AppsInv' /\ PlanInv' /\ GrantIsConfirmed
<1>1. ASSUME NEW a \in PlanAmounts, SubmitSupport(a) PROVE AppsInv' /\ PlanInv' /\ GrantIsConfirmed
  <2>1. a \in Nat /\ a >= 1000 /\ zap.at = "closed" /\ "plan" \in AppVisitTable[appVisit].kinds
        /\ MakePlan(SupportBudget(a), 1, a)
    BY <1>1, ConnectionsAssumption DEF SubmitSupport
  <2>2. 1 * (a + (a \div 100)) = a + (a \div 100)
    BY <2>1
  <2>3. SupportBudget(a) \in Nat /\ 10 * (1 * (a + (a \div 100)) + 10) <= 8 * SupportBudget(a)
    BY <2>1, <2>2, SupportFits
  <2> QED
    BY <2>1, <2>3, ByMakePlan
<1>2. ASSUME NEW r \in PlanRates, SubmitPlan(r) PROVE AppsInv' /\ PlanInv' /\ GrantIsConfirmed
  <2> DEFINE n == PeriodsPerMonth(r)
  <2>1. /\ zap.at = "form" /\ zap \in PlanRow /\ "plan" \in AppVisitTable[appVisit].kinds
        /\ MakePlan(MonthlyBudget(zap.sats, n), n, zap.typed)
    BY <1>2 DEF SubmitPlan, PlanInv, AppsInv, AppsTyped
  <2>2. n \in Nat /\ zap.sats \in Nat /\ zap.typed \in Nat
    BY <2>1, PeriodsAreNumbers DEF PlanRow
  <2> HIDE DEF n
  <2>3. MonthlyBudget(zap.sats, n) \in Nat
    BY <2>2, MonthFits
  <2>4. ~zap'.overtaken => zap.typed = zap.sats
    BY <2>1 DEF MakePlan, PlanRow
  <2>5. ~zap'.overtaken => 10 * (n * (zap.typed + (zap.typed \div 100)) + 10) <= 8 * MonthlyBudget(zap.sats, n)
    BY <2>2, <2>4, MonthFits
  <2> QED
    BY <2>1, <2>2, <2>3, <2>5, ByMakePlan
<1> QED
  BY <1>1, <1>2

LEMMA BySubscribe == ASSUME AppsInv, PlanInv, Subscribe PROVE AppsInv' /\ PlanInv' /\ GrantIsConfirmed
<1>1. PICK at \in {"running", "closed"} : OnlyPlan([zap EXCEPT !.at = at, !.left = IF at = "closed" THEN 0 ELSE @])
  BY DEF Subscribe
<1>2. UNCHANGED <<app, address, appTab, appReq, account, appVisit>> /\ zap.at = "made" /\ zap \in PlanRow
  BY <1>1 DEF OnlyPlan, Subscribe, AppsInv, AppsTyped
<1>3. /\ zap' \in PlanRow /\ zap'.at = at /\ zap'.spent = zap.spent /\ zap'.trouble = zap.trouble /\ zap'.max = zap.max
      /\ zap'.overtaken = zap.overtaken /\ zap'.each = zap.each /\ (at = "running" => zap'.left = zap.left)
  BY <1>1, <1>2 DEF OnlyPlan, PlanRow
<1>4. PlanInv'
  BY <1>2, <1>3 DEF PlanInv, PlannedTotal
<1> QED
  BY <1>2, <1>3, <1>4, ByOthers DEF AppsInv, AppsTyped

LEMMA ByPlanPays ==
  ASSUME AppsInv, PlanInv, NEW fee \in {0, zap.each \div 100}, PlanPays(fee)
  PROVE  AppsInv' /\ PlanInv' /\ GrantIsConfirmed
<1> DEFINE fits == zap.spent + zap.each + FeeReserve(zap.each) <= zap.max
           spent == IF fits THEN zap.spent + zap.each + fee ELSE zap.spent
           trouble == zap.trouble \/ ~fits \/ spent >= (8 * zap.max) \div 10
           e == zap.each + (zap.each \div 100)
<1>1. /\ zap.at = "running" /\ zap.left > 0 /\ zap \in PlanRow
      /\ zap' = [zap EXCEPT !.left = @ - 1, !.spent = spent, !.trouble = trouble]
      /\ UNCHANGED <<app, address, appTab, appReq, account, appVisit>>
  BY DEF PlanPays, OnlyPlan, AppsInv, AppsTyped
<1>2. zap.spent \in Nat /\ zap.each \in Nat /\ zap.left \in Nat /\ zap.max \in Nat /\ fee \in Nat /\ fee <= zap.each \div 100
  BY <1>1 DEF PlanRow
<1>3. spent \in Nat /\ spent <= zap.spent + e /\ trouble \in BOOLEAN /\ zap.left - 1 \in Nat /\ e \in Nat
  BY <1>1, <1>2
<1> HIDE DEF spent, trouble
<1>4. /\ zap' \in PlanRow /\ zap'.at = "running" /\ zap'.left = zap.left - 1 /\ zap'.spent = spent /\ zap'.trouble = trouble
      /\ zap'.max = zap.max /\ zap'.each = zap.each /\ zap'.overtaken = zap.overtaken
  BY <1>1, <1>3 DEF PlanRow
<1>5. PlannedTotal' <= PlannedTotal /\ spent <= PlannedTotal' /\ PlannedTotal' \in Nat /\ PlannedTotal \in Nat
      /\ zap.spent + e <= PlannedTotal
  <2>1. (zap.left - 1) * e \in Nat /\ zap.left * e = (zap.left - 1) * e + e
    BY <1>2, <1>3
  <2> HIDE DEF e
  <2>2. PlannedTotal = zap.spent + zap.left * e /\ PlannedTotal' = spent + (zap.left - 1) * e
    BY <1>4 DEF PlannedTotal, e
  <2> QED
    BY <1>2, <1>3, <2>1, <2>2
<1>6. ASSUME ~zap.overtaken PROVE ~trouble
  <2>1. PlannedTotal + 10 <= zap.max /\ 10 * (PlannedTotal + 1) <= 8 * zap.max /\ ~zap.trouble
    BY <1>1, <1>6 DEF PlanInv
  <2>2. fits
    BY <1>2, <1>5, <2>1, ReserveIsSmall
  <2>3. PlannedTotal + 1 <= (8 * zap.max) \div 10
    BY <1>2, <1>5, <2>1
  <2>4. ~(spent >= (8 * zap.max) \div 10)
    <3>1. (8 * zap.max) \div 10 \in Nat
      BY <1>2
    <3> QED
      BY <1>3, <1>5, <2>3, <3>1
  <2> QED
    BY <2>1, <2>2, <2>4 DEF trouble
<1>7. PlanInv'
  BY <1>1, <1>2, <1>4, <1>5, <1>6 DEF PlanInv
<1> QED
  BY <1>1, <1>4, <1>7, ByOthers DEF AppsInv, AppsTyped

-----------------------------------------------------------------------------
(* Connections: the theorems.                                              *)

LEMMA AppsInit == AppInit => AppsInv /\ PlanInv
<1> SUFFICES ASSUME AppInit PROVE AppsInv /\ PlanInv
  OBVIOUS
<1>1. AppsTyped
  <2>1. NoPlan \in PlanRow
    BY DEF NoPlan, PlanRow
  <2>2. account \in AccountRow
    BY DEF AppInit, AccountRow
  <2> QED
    BY <2>1, <2>2, RowTypes DEF AppInit, AppsTyped
<1>2. RowIsSafe(app) /\ \A t \in Tabs : FormIsForNewApp(t, appTab[t], app) /\ RequestIsSafe(appReq[t], app)
  BY DEF AppInit, RowIsSafe, FormIsForNewApp, RequestIsSafe, NoApp, NoAppTab, NoAppReq
<1>3. PlanInv
  BY DEF AppInit, PlanInv, NoPlan
<1> QED
  BY <1>1, <1>2, <1>3 DEF AppsInv

LEMMA AppsNext ==
  ASSUME AppsInv, PlanInv, [ConnectionsNext]_appVars
  PROVE  AppsInv' /\ PlanInv' /\ [GrantIsConfirmed]_appVars
<1>1. CASE UNCHANGED appVars
  BY <1>1 DEF appVars, AppsInv, AppsTyped, RowIsSafe, FormIsForNewApp, RequestIsSafe, PlanInv, PlannedTotal
<1>2. CASE AppUsed
  <2>1. UNCHANGED <<address, appTab, appReq, zap, account, appVisit>>
    BY <1>2 DEF AppUsed
  <2> QED
    BY <1>2, <2>1, ByOthers, PlanStays DEF AppsInv, AppsTyped
<1>3. ASSUME NEW t \in Tabs, AppTabNext(t) PROVE AppsInv' /\ PlanInv' /\ GrantIsConfirmed
  <2>1. PlanInv'
    <3>1. UNCHANGED <<zap, appVisit>>
      <4>1. CASE \/ \E l \in Links : OpenNewApp(t, l)
                 \/ Finalized(t) \/ (\E e \in BOOLEAN : OpenApp(t, e)) \/ StoreAppConnected(t)
        BY <4>1 DEF OpenNewApp, Finalized, OpenApp, StoreAppConnected
      <4>5. CASE SubmitNewApp(t) \/ \E right \in BOOLEAN : ConfirmSuperuser(t, right)
        BY <4>5 DEF SubmitNewApp, ConfirmSuperuser
      <4>6. CASE SubmitSubwallet(t) \/ SubmitInternal(t)
        BY <4>6 DEF SubmitSubwallet, SubmitInternal
      <4>2. CASE \/ RefreshApp(t) \/ StartEditing(t) \/ CancelEditing(t)
                 \/ \E g \in {"full_access", "read_only", "isolated", "custom"} : ChooseGroup(t, g)
                 \/ \E s \in Capabilities : SwitchScope(t, s)
                 \/ SwitchIsolated(t) \/ SwitchLimit(t)
        BY <4>2 DEF RefreshApp, StartEditing, CancelEditing, ChooseGroup, SwitchScope, SwitchIsolated,
           SwitchLimit, EditForm, OnlyTab
      <4>3. CASE \/ AskConfirmation(t) \/ HandleSave(t) \/ SaveCommits(t)
                 \/ ConvertToSubwallet(t) \/ ConvertCommits(t)
                 \/ AskAddress(t) \/ AddressMade(t) \/ AddressWritten(t) \/ AskNoAddress(t) \/ AddressRemoved(t)
        BY <4>3 DEF AskConfirmation, HandleSave, SaveCommits, ConvertToSubwallet, ConvertCommits, AskAddress,
           AddressMade, AddressWritten, AskNoAddress, AddressRemoved, OnlyTab
      <4>4. CASE \/ \E what \in {"topup", "drawdown"} : Transfer(t, what)
                 \/ OpenDisconnect(t) \/ OpenCleanup(t) \/ SkipApp(t) \/ AskDelete(t) \/ DeleteApp(t)
                 \/ LinkAccount(t)
        BY <4>4 DEF Transfer, OpenDisconnect, OpenCleanup, SkipApp, AskDelete, DeleteApp, LinkAccount, OnlyTab
      <4> QED
        BY <1>3, <4>1, <4>2, <4>3, <4>4, <4>5, <4>6 DEF AppTabNext
    <3> QED
      BY <3>1, PlanStays
  <2>2. ASSUME NEW l \in Links, OpenNewApp(t, l) PROVE AppsInv' /\ PlanInv' /\ GrantIsConfirmed
    BY <2>1, <2>2, ByOpenNewApp
  <2>3. CASE SubmitNewApp(t) \/ \E right \in BOOLEAN : ConfirmSuperuser(t, right)
    BY <2>1, <2>3, BySubmitNewApp
  <2>4. CASE SubmitSubwallet(t) \/ SubmitInternal(t)
    BY <2>1, <2>4, ByOtherApps
  <2>5. CASE Finalized(t) \/ (\E e \in BOOLEAN : OpenApp(t, e)) \/ StoreAppConnected(t) \/ SkipApp(t) \/ OpenCleanup(t)
    BY <2>1, <2>5, ByPages
  <2>6. CASE RefreshApp(t) \/ StartEditing(t) \/ CancelEditing(t) \/ AskConfirmation(t) \/ OpenDisconnect(t)
    BY <2>1, <2>6, ByDetails
  <2>7. CASE \/ \E g \in {"full_access", "read_only", "isolated", "custom"} : ChooseGroup(t, g)
             \/ \E s \in Capabilities : SwitchScope(t, s)
             \/ SwitchIsolated(t) \/ SwitchLimit(t)
    <3>1. "get_info" \in Capabilities
      BY DEF Capabilities
    <3> QED
      BY <2>1, <2>7, <3>1, ByForms
  <2>8. CASE ConvertToSubwallet(t) \/ AskAddress(t) \/ AskNoAddress(t) \/ AskDelete(t)
    BY <2>1, <2>8, ByAsking
  <2>9. CASE HandleSave(t)
    BY <2>1, <2>9, ByHandleSave
  <2>10. CASE AddressMade(t) \/ AddressRemoved(t)
    BY <2>1, <2>10, ByAddress
  <2>11. CASE AddressWritten(t) \/ ConvertCommits(t)
    BY <2>1, <2>11, ByMetadata
  <2>12. CASE SaveCommits(t)
    BY <2>1, <2>12, BySaveCommits
  <2>13. CASE \E what \in {"topup", "drawdown"} : Transfer(t, what)
    BY <2>1, <2>13, ByTransfer
  <2>14. CASE DeleteApp(t)
    BY <2>1, <2>14, ByDeleteApp
  <2>15. CASE LinkAccount(t)
    <3>1. account' \in AccountRow /\ UNCHANGED <<app, address, appTab, appReq, zap, appVisit>>
      BY <2>15 DEF LinkAccount, AppsInv, AppsTyped, AccountRow
    <3> QED
      BY <2>1, <3>1, ByOthers DEF AppsInv, AppsTyped
  <2> QED
    BY <1>3, <2>2, <2>3, <2>4, <2>5, <2>6, <2>7, <2>8, <2>9, <2>10, <2>11, <2>12, <2>13, <2>14, <2>15 DEF AppTabNext
<1>4. CASE \E a \in PlanAmounts : TypeAmount(a) \/ AmountConverted(a)
  BY <1>4, ByTypeAmount
<1>5. CASE (\E a \in PlanAmounts : SubmitSupport(a)) \/ (\E r \in PlanRates : SubmitPlan(r))
  BY <1>5, ByPlans
<1>6. CASE Subscribe
  BY <1>6, BySubscribe
<1>7. CASE \E fee \in {0, zap.each \div 100} : PlanPays(fee)
  BY <1>7, ByPlanPays
<1> QED
  BY <1>1, <1>2, <1>3, <1>4, <1>5, <1>6, <1>7 DEF ConnectionsNext

-----------------------------------------------------------------------------
(* Wallet: types.                                                          *)

TxStates == {"none", "open", "pending", "settled", "failed"}
TxRow == [type : {"none", "incoming", "outgoing"}, state : TxStates, inv : Ids, fits : BOOLEAN,
          labels : SUBSET Labels]
CoinsRow == [sent : [CoinIds -> {"none", "mempool", "confirmed"}], funds : 0..2]
CoinCallRow == [of : 0..2, page : {"none", "onchain", "withdraw"}]
Utxo == [state : {"none", "mempool", "replaced", "confirmed"}, to : 0..2]
DepositsRow == [addr : 1..2, utxo : [Deposits -> Utxo]]
TermsRow == [jit : BOOLEAN, public : BOOLEAN, receivable : Nat]
Probes == {"none", "loading", "ok", "failed"}
Probings == {"no", "made", "refused", "answered"}
WalletTabRow ==
    [page : WalletPages, of : Ids, call : Ids, error : BOOLEAN, swapAlert : BOOLEAN, funds : 0..2,
     seen : BOOLEAN, confirm : BOOLEAN, before : SUBSET Deposits, asking : BOOLEAN, done : BOOLEAN,
     probe : Probes, probing : Probings, hint : BOOLEAN, filter : Filters, listPage : Nat,
     editing : Ids, rows : SUBSET (Labels \cup {NoLabel}), fiat : BOOLEAN, over : Nat,
     latest : {<<>>} \cup (TxIds \X TxRow), toasts : Nat, saves : 0..MaxSaves]
ExportRow == [at : {"idle", "running", "saved"}, offset : Nat, rows : SUBSET TxIds,
              listed : SUBSET TxIds, moved : SUBSET TxIds]

HistoryTyped == history \in Seq(TxIds) /\ IsInjective(history)
WalletTyped ==
    /\ tx \in [TxIds -> TxRow] /\ HistoryTyped /\ calls \in SUBSET TxIds
    /\ coins \in CoinsRow /\ coinCall \in CoinCallRow
    /\ deposits \in DepositsRow /\ terms \in TermsRow
    /\ walletTab \in WalletTabRow /\ exporting \in ExportRow /\ walletVisit \in WalletVisits

-----------------------------------------------------------------------------
(* Wallet: the inductive invariant.                                        *)

(* A row that is not used has no state; the list has rows that are used,   *)
(* and of payments received only those that have arrived.                  *)
RowsTell ==
    /\ \A i \in TxIds : tx[i].type = "none" => tx[i].state = "none"
    /\ \A k \in DOMAIN history : /\ tx[history[k]].type # "none"
                                 /\ tx[history[k]].type = "incoming" => tx[history[k]].state = "settled"

(* There is a coin left to spend for all that there is to spend.           *)
FundsTell ==
    /\ coins.funds > 0 => \E c \in CoinIds : coins.sent[c] = "none"
    /\ coins.funds = 2 => \A c \in CoinIds : coins.sent[c] = "none"

(* What a page says of a payment, an invoice, a deposit, the provider.     *)
InvoiceTells(t) ==
    /\ t.of \in TxIds /\ tx[t.of].state # "none"
    /\ t.done => tx[t.of].state = "settled"
    /\ tx[t.of].fits \/ terms.public \/ (t.over > 0 /\ 2 * t.over <= CentSats)
Confirmed == {d \in Deposits : deposits.utxo[d].state = "confirmed"}
DepositTells(t) ==
    /\ t.before \subseteq Confirmed
    /\ t.page = "deposit" =>
        /\ t.of # 0 => t.of \in Deposits \ t.before
        /\ t.done => t.of # 0 /\ t.of \in Confirmed
ProbeIsRight == terms.jit /\ (IsJitInvoice(JitTerms.min) => ProviderTakes(JitTerms.min))
ProbeTells(t) ==
    /\ t.probe # "none" \/ t.probing # "no" => terms.jit
    /\ t.probe = "ok" \/ t.probing = "made" => ProbeIsRight
PageTells(t) ==
    /\ t.page = "success" => t.of \in TxIds /\ tx[t.of].state = "settled"
    /\ t.page = "onchain-success" => t.of \in CoinIds /\ (t.seen => coins.sent[t.of] = "confirmed")
    /\ t.page \in {"invoice", "crypto"} => (t.of # 0 => InvoiceTells(t)) /\ (t.of = 0 => ~t.done)
    /\ DepositTells(t) /\ ProbeTells(t)
    /\ t.page = "invoice" => t.call = 0 /\ (t.error => t.hint)
    /\ t.editing # 0 => t.saves < MaxSaves

(* Every notification is of a payment that has arrived or an edit of a     *)
(* label, and so is the one that is due.                                   *)
Arrived == {i \in TxIds : tx[i].type = "incoming" /\ tx[i].state = "settled"}
Due == /\ history # <<>> /\ walletTab.latest # <<>>
       /\ tx[history[1]].type = "incoming" /\ walletTab.latest # <<history[1], tx[history[1]]>>
ToastsTell == walletTab.toasts + (IF Due THEN 1 ELSE 0) <= walletTab.saves + Cardinality(Arrived)

(* A row that was listed and has not moved is in the file or still ahead.  *)
ExportTells ==
    /\ exporting.at = "running" =>
        \A r \in exporting.listed \ exporting.moved :
            r \in exporting.rows \/ \E k \in DOMAIN history : k > exporting.offset /\ history[k] = r
    /\ exporting.at = "saved" => exporting.listed \ exporting.moved \subseteq exporting.rows

WalletInv ==
    /\ WalletTyped /\ RowsTell /\ FundsTell /\ PageTells(walletTab) /\ ToastsTell /\ ExportTells

-----------------------------------------------------------------------------
(* Wallet: the list.                                                       *)

LEMMA WalletBasics ==
  /\ MaxTx \in Nat /\ MaxTx > 2 /\ ListSize \in Nat /\ ListSize > 0 /\ CentSats \in Nat /\ CentSats > 0
  /\ JitTerms.min \in Nat /\ JitTerms.min > 0 /\ JitTerms.max \in Nat
  /\ Deposits \subseteq TxIds /\ CoinIds \subseteq TxIds /\ TxIds \subseteq Ids /\ 0 \in Ids /\ 0 \notin TxIds
  BY WalletAssumption DEF Deposits, CoinIds, TxIds, Ids

(* Where a row is in the list, or behind its end.                          *)
LEMMA PlaceFacts ==
  ASSUME HistoryTyped, NEW i \in TxIds
  PROVE  /\ PlaceOf(i) \in 1..(Len(history) + 1)
         /\ \A k \in 1..Len(history) : k # PlaceOf(i) => history[k] # i
         /\ PlaceOf(i) <= Len(history) => history[PlaceOf(i)] = i
<1> DEFINE S == {Len(history) + 1} \cup {k \in DOMAIN history : history[k] = i}
<1>1. Len(history) \in Nat /\ DOMAIN history = 1..Len(history)
  BY DEF HistoryTyped
<1>2. S \in SUBSET Nat /\ S # {}
  BY <1>1
<1>3. PlaceOf(i) = Min(S)
  BY DEF PlaceOf
<1>4. Min(S) \in S /\ \A n \in S : Min(S) <= n
  BY <1>2, SmallestOf
<1>5. PlaceOf(i) \in 1..(Len(history) + 1) /\ (PlaceOf(i) <= Len(history) => history[PlaceOf(i)] = i)
  BY <1>1, <1>3, <1>4
<1>6. ASSUME NEW k \in 1..Len(history), k # PlaceOf(i) PROVE history[k] # i
  <2>1. SUFFICES ASSUME history[k] = i PROVE FALSE
    OBVIOUS
  <2>2. k \in S
    BY <1>1, <2>1
  <2>3. PlaceOf(i) <= k
    BY <1>3, <1>4, <2>2
  <2>4. PlaceOf(i) <= Len(history)
    BY <1>1, <1>5, <2>3
  <2>5. history[PlaceOf(i)] = i /\ PlaceOf(i) \in DOMAIN history
    BY <1>1, <1>5, <2>4
  <2> QED
    BY <1>1, <1>6, <2>1, <2>5 DEF HistoryTyped, IsInjective
<1> QED
  BY <1>5, <1>6

(* The list without a row.                                                 *)
Removed(s, p, r) ==
    /\ r \in Seq(TxIds)
    /\ p <= Len(s) => Len(r) = Len(s) - 1
    /\ p > Len(s) => Len(r) = Len(s)
    /\ \A k \in 1..Len(r) : /\ k < p => k \in 1..Len(s) /\ r[k] = s[k]
                            /\ k >= p => k + 1 \in 1..Len(s) /\ r[k] = s[k + 1]
    /\ \A k \in 1..Len(s) : /\ k < p => k \in 1..Len(r) /\ r[k] = s[k]
                            /\ k > p => k - 1 \in 1..Len(r) /\ r[k - 1] = s[k]
LEMMA RemovedFacts ==
  ASSUME NEW s \in Seq(TxIds), NEW p \in 1..(Len(s) + 1)
  PROVE  Removed(s, p, RemoveAt(s, p))
<1> DEFINE r == RemoveAt(s, p)
<1> DEFINE a == SubSeq(s, 1, p - 1)
           b == SubSeq(s, p + 1, Len(s))
           n == Len(s)
<1>1. n \in Nat /\ p \in Nat /\ p >= 1 /\ p <= n + 1
  OBVIOUS
<1>2. a \in Seq(TxIds) /\ Len(a) = p - 1 /\ \A k \in 1..(p - 1) : a[k] = s[k]
  BY <1>1
<1>3. /\ b \in Seq(TxIds) /\ (p <= n => Len(b) = n - p) /\ (p > n => Len(b) = 0)
      /\ \A k \in 1..(n - p) : b[k] = s[p + k]
  BY <1>1
<1> HIDE DEF a, b
<1>4. /\ a \o b \in Seq(TxIds) /\ Len(a \o b) = Len(a) + Len(b)
      /\ \A k \in 1..Len(a) + Len(b) : (a \o b)[k] = IF k <= Len(a) THEN a[k] ELSE b[k - Len(a)]
  BY <1>2, <1>3, ConcatProperties
<1>5. r = a \o b
  BY DEF RemoveAt, a, b
<1> HIDE DEF n
<1>6. r \in Seq(TxIds) /\ (p <= n => Len(r) = n - 1) /\ (p > n => Len(r) = n)
  BY <1>1, <1>2, <1>3, <1>4, <1>5
<1>7. ASSUME NEW k \in Nat, 1 <= k, k < p PROVE k <= n /\ k \in 1..Len(r) /\ r[k] = s[k]
  <2>1. k \in 1..Len(a) + Len(b) /\ k <= Len(a) /\ k \in 1..(p - 1)
    BY <1>1, <1>2, <1>3, <1>7
  <2>2. r[k] = a[k]
    BY <1>4, <1>5, <2>1
  <2>3. k <= n /\ k \in 1..Len(r)
    BY <1>1, <1>6, <1>7
  <2> QED
    BY <1>2, <2>1, <2>2, <2>3
<1>8. ASSUME NEW k \in Nat, k >= p, k < n PROVE k \in 1..Len(r) /\ r[k] = s[k + 1]
  <2>1. k \in 1..Len(a) + Len(b) /\ ~(k <= Len(a)) /\ k - Len(a) \in 1..(n - p) /\ p + (k - Len(a)) = k + 1
    BY <1>1, <1>2, <1>3, <1>8
  <2>2. r[k] = b[k - Len(a)]
    BY <1>4, <1>5, <2>1
  <2>3. k \in 1..Len(r)
    BY <1>1, <1>6, <1>8
  <2> QED
    BY <1>3, <2>1, <2>2, <2>3
<1>9. ASSUME NEW k \in 1..Len(r)
      PROVE  /\ k < p => k \in 1..n /\ r[k] = s[k]
             /\ k >= p => k + 1 \in 1..n /\ r[k] = s[k + 1]
  <2>1. k \in Nat /\ 1 <= k /\ (k >= p => k < n)
    BY <1>1, <1>6
  <2> QED
    BY <1>1, <1>7, <1>8, <2>1
<1>10. ASSUME NEW k \in 1..n
       PROVE  /\ k < p => k \in 1..Len(r) /\ r[k] = s[k]
              /\ k > p => k - 1 \in 1..Len(r) /\ r[k - 1] = s[k]
  <2>1. CASE k < p
    BY <1>1, <1>7, <2>1
  <2>2. CASE k > p
    <3>1. k - 1 \in Nat /\ k - 1 >= p /\ k - 1 < n /\ (k - 1) + 1 = k
      BY <1>1, <2>2
    <3> QED
      BY <1>8, <3>1
  <2> QED
    BY <1>1, <2>1, <2>2
<1> QED
  BY <1>6, <1>9, <1>10 DEF n, Removed

(* A row comes to the top of the list; the others keep their order.        *)
LEMMA TopFacts ==
  ASSUME HistoryTyped, NEW i \in TxIds, history' = ToTop(i)
  PROVE  /\ HistoryTyped' /\ history' # <<>> /\ history'[1] = i
         /\ \A k \in DOMAIN history' : history'[k] = i \/ \E m \in DOMAIN history : history'[k] = history[m]
         /\ \A k \in DOMAIN history : history[k] = i \/ \E m \in DOMAIN history' : m >= k /\ history'[m] = history[k]
<1> DEFINE p == PlaceOf(i)
           r == RemoveAt(history, p)
           n == Len(history)
           q == Len(r)
<1>1. history \in Seq(TxIds) /\ n \in Nat /\ DOMAIN history = 1..n
  BY DEF HistoryTyped
<1>2. /\ p \in 1..(n + 1)
      /\ \A k \in 1..n : k # p => history[k] # i
  BY PlaceFacts
<1>0. r = RemoveAt(history, p)
  OBVIOUS
<1> HIDE DEF p, r
<1>3. Removed(history, p, r)
  BY <1>0, <1>1, <1>2, RemovedFacts
<1>a. \A k \in 1..q : (k < p => k \in 1..n /\ r[k] = history[k]) /\ (k >= p => k + 1 \in 1..n /\ r[k] = history[k + 1])
  BY <1>3 DEF Removed
<1>b. \A k \in 1..n : (k < p => k \in 1..q /\ r[k] = history[k]) /\ (k > p => k - 1 \in 1..q /\ r[k - 1] = history[k])
  BY <1>3 DEF Removed
<1>4. history' = <<i>> \o r
  BY DEF ToTop, p, r
<1>5. q \in Nat /\ r \in Seq(TxIds) /\ (p <= n => q = n - 1) /\ (p > n => q = n)
  BY <1>3 DEF Removed
<1>6. /\ history' \in Seq(TxIds) /\ Len(history') = q + 1 /\ history'[1] = i
      /\ DOMAIN history' = 1..(q + 1)
      /\ \A k \in 1..q : history'[k + 1] = r[k]
  BY <1>4, <1>5
<1> HIDE DEF n, q
<1>7. ASSUME NEW k \in 1..q
      PROVE  \E m \in 1..n : m # p /\ r[k] = history[m] /\ (k < p => m = k) /\ (k >= p => m = k + 1)
  <2>1. CASE k < p
    <3>1. k \in 1..n /\ r[k] = history[k] /\ k # p
      BY <1>2, <1>a, <2>1
    <3> QED
      BY <1>2, <2>1, <3>1
  <2>2. CASE k >= p
    <3>1. k + 1 \in 1..n /\ r[k] = history[k + 1] /\ k + 1 # p
      BY <1>2, <1>a, <2>2
    <3> QED
      BY <1>2, <2>2, <3>1
  <2> QED
    BY <1>1, <1>2, <2>1, <2>2
<1>8. IsInjective(history')
  <2>1. ASSUME NEW j \in 1..(q + 1), NEW k \in 1..(q + 1), history'[j] = history'[k], j < k
        PROVE  FALSE
    <3>1. k - 1 \in 1..q /\ history'[k] = r[k - 1]
      <4>1. k - 1 \in 1..q /\ (k - 1) + 1 = k
        BY <1>5, <2>1
      <4> QED
        BY <1>6, <4>1
    <3>2. PICK m \in 1..n : m # p /\ r[k - 1] = history[m] /\ (k - 1 < p => m = k - 1) /\ (k - 1 >= p => m = (k - 1) + 1)
      BY <1>7, <3>1
    <3>3. CASE j = 1
      BY <1>2, <1>6, <2>1, <3>1, <3>2, <3>3
    <3>4. CASE j > 1
      <4>1. j - 1 \in 1..q /\ history'[j] = r[j - 1]
        <5>1. j - 1 \in 1..q /\ (j - 1) + 1 = j
          BY <1>5, <2>1, <3>4
        <5> QED
          BY <1>6, <5>1
      <4>2. PICK o \in 1..n : r[j - 1] = history[o] /\ (j - 1 < p => o = j - 1) /\ (j - 1 >= p => o = (j - 1) + 1)
        BY <1>7, <4>1
      <4>3. m = o
        BY <1>1, <2>1, <3>1, <3>2, <4>1, <4>2 DEF HistoryTyped, IsInjective
      <4>4. j \in Int /\ k \in Int /\ p \in Int /\ j < k
        BY <1>2, <1>5, <2>1
      <4> QED
        BY <3>2, <4>2, <4>3, <4>4
    <3> QED
      BY <1>5, <3>3, <3>4
  <2>2. ASSUME NEW j \in 1..(q + 1), NEW k \in 1..(q + 1), history'[j] = history'[k] PROVE j = k
    <3>1. ~(j < k) /\ ~(k < j)
      BY <2>1, <2>2
    <3> QED
      BY <1>5, <3>1
  <2> QED
    BY <1>6, <2>2 DEF IsInjective
<1>9. ASSUME NEW k \in 1..(q + 1) PROVE history'[k] = i \/ \E m \in 1..n : history'[k] = history[m]
  <2>1. CASE k = 1
    BY <1>6, <2>1
  <2>2. CASE k # 1
    <3>1. k - 1 \in 1..q /\ (k - 1) + 1 = k
      BY <1>5, <2>2
    <3>2. history'[k] = r[k - 1]
      BY <1>6, <3>1
    <3> QED
      BY <1>7, <3>1, <3>2
  <2> QED
    BY <2>1, <2>2
<1>10. ASSUME NEW k \in 1..n, history[k] # i PROVE \E m \in 1..(q + 1) : m >= k /\ history'[m] = history[k]
  <2>1. CASE k < p
    <3>1. k \in 1..q /\ r[k] = history[k]
      BY <1>b, <2>1
    <3>2. k + 1 \in 1..(q + 1) /\ history'[k + 1] = history[k] /\ k + 1 >= k
      BY <1>5, <1>6, <3>1
    <3> QED
      BY <3>2
  <2>2. CASE k > p
    <3>1. k - 1 \in 1..q /\ r[k - 1] = history[k]
      BY <1>b, <2>2
    <3>2. (k - 1) + 1 = k /\ k \in 1..(q + 1) /\ k >= k
      BY <1>5, <3>1
    <3>3. history'[k] = history[k]
      BY <1>6, <3>1, <3>2
    <3> QED
      BY <3>2, <3>3
  <2>3. CASE k = p
    <3>1. p \in 1..n
      BY <2>3
    <3>2. history[p] = i
      BY <1>1, <3>1, PlaceFacts DEF p, n
    <3> QED
      BY <1>10, <2>3, <3>2
  <2> QED
    BY <1>1, <1>2, <2>1, <2>2, <2>3
<1>11. history' # <<>> /\ IsInjective(history)'
  BY <1>5, <1>6, <1>8
<1>12. \A k \in DOMAIN history' : history'[k] = i \/ \E m \in DOMAIN history : history'[k] = history[m]
  BY <1>1, <1>6, <1>9
<1>13. \A k \in DOMAIN history : history[k] = i \/ \E m \in DOMAIN history' : m >= k /\ history'[m] = history[k]
  BY <1>1, <1>6, <1>10
<1> QED
  BY <1>6, <1>11, <1>12, <1>13 DEF HistoryTyped

-----------------------------------------------------------------------------
(* Wallet: what the steps are made of.                                     *)

LEMMA WalletPagesAre ==
  /\ {"wallet", "send", "success", "onchain-success"} \subseteq WalletPages
  /\ walletVisit \in WalletVisits => \A p : Leads(p) => p \in WalletPages
<1>1. \A v \in DOMAIN WalletVisitTable : WalletVisitTable[v].pages \subseteq WalletPages
  BY DEF WalletPages
<1>2. {"pay", "coin"} \subseteq DOMAIN WalletVisitTable
  BY DEF WalletVisitTable
<1>3. /\ {"wallet", "send", "success"} \subseteq WalletVisitTable["pay"].pages
      /\ "onchain-success" \in WalletVisitTable["coin"].pages
  BY DEF WalletVisitTable
<1>4. {"wallet", "send", "success", "onchain-success"} \subseteq WalletPages
  BY <1>1, <1>2, <1>3
<1>5. walletVisit \in WalletVisits => \A p : Leads(p) => p \in WalletPages
  BY <1>1, WalletAssumption DEF Leads
<1> QED
  BY <1>4, <1>5

(* The id of the next row is that of a row not used.                       *)
LEMMA NextIdIsFree ==
  ASSUME FreeIds # {}
  PROVE  NextId \in TxIds /\ tx[NextId].type = "none"
<1>1. FreeIds \in SUBSET Nat /\ FreeIds \in SUBSET TxIds
  BY DEF FreeIds, TxIds
<1>2. NextId \in FreeIds
  BY <1>1, SmallestOf DEF NextId
<1> QED
  BY <1>1, <1>2 DEF FreeIds

(* What the hub never takes back, and so a page may rely on.               *)
HubKeeps ==
    /\ \A i \in TxIds : /\ tx[i].state # "none" => tx'[i].state # "none" /\ tx'[i].fits = tx[i].fits
                        /\ tx[i].state = "settled" => tx'[i].state = "settled"
    /\ \A c \in CoinIds : coins.sent[c] = "confirmed" => coins'.sent[c] = "confirmed"
    /\ Confirmed \subseteq Confirmed'
    /\ terms' = terms

LEMMA KeptPage ==
  ASSUME HubKeeps, NEW t, PageTells(t), t = walletTab'
  PROVE  PageTells(walletTab)'
<1> DEFINE u == walletTab'
<1>1. u.page = "success" => u.of \in TxIds /\ tx'[u.of].state = "settled"
  BY DEF PageTells, HubKeeps
<1>2. u.page = "onchain-success" => u.of \in CoinIds /\ (u.seen => coins'.sent[u.of] = "confirmed")
  BY DEF PageTells, HubKeeps
<1>3. u.page \in {"invoice", "crypto"} => (u.of # 0 => InvoiceTells(walletTab)') /\ (u.of = 0 => ~u.done)
  BY DEF PageTells, HubKeeps, InvoiceTells
<1>4. DepositTells(walletTab)'
  BY DEF PageTells, HubKeeps, DepositTells
<1>5. ProbeTells(walletTab)'
  BY DEF PageTells, HubKeeps, ProbeTells, ProbeIsRight, IsJitInvoice, ProviderTakes
<1>6. /\ u.page = "invoice" => u.call = 0 /\ (u.error => u.hint)
      /\ u.editing # 0 => u.saves < MaxSaves
  BY DEF PageTells
<1> QED
  BY <1>1, <1>2, <1>3, <1>4, <1>5, <1>6 DEF PageTells

LEMMA ArrivedIsFinite ==
  /\ IsFiniteSet(Arrived) /\ Cardinality(Arrived) \in Nat
  /\ \A i \in TxIds : /\ IsFiniteSet(Arrived \cup {i})
                      /\ i \notin Arrived => Cardinality(Arrived \cup {i}) = Cardinality(Arrived) + 1
<1>1. IsFiniteSet(TxIds)
  BY WalletBasics, FS_Interval DEF TxIds
<1>2. Arrived \subseteq TxIds
  BY DEF Arrived
<1>3. IsFiniteSet(Arrived)
  BY <1>1, <1>2, FS_Subset
<1> QED
  BY <1>3, FS_CardinalityType, FS_AddElement

(* Steps that leave the rows and the list alone, and take back nothing of  *)
(* what was shown, keep the notifications right.                           *)
ShowsSame == /\ walletTab'.toasts = walletTab.toasts /\ walletTab'.saves = walletTab.saves
             /\ walletTab'.latest \in {walletTab.latest, <<>>}
LEMMA ToastsStay ==
  ASSUME WalletTyped, ToastsTell, ShowsSame, Due' => Due, Arrived' = Arrived
  PROVE  ToastsTell'
<1>1. /\ walletTab.toasts \in Nat /\ walletTab.saves \in Nat /\ Cardinality(Arrived) \in Nat
  <2>1. walletTab \in WalletTabRow
    BY DEF WalletTyped
  <2>2. walletTab.toasts \in Nat /\ walletTab.saves \in 0..MaxSaves
    BY <2>1 DEF WalletTabRow
  <2>3. Cardinality(Arrived) \in Nat
    BY ArrivedIsFinite
  <2> QED
    BY <2>2, <2>3 DEF MaxSaves
<1>2. Cardinality(Arrived)' = Cardinality(Arrived)
  OBVIOUS
<1> HIDE DEF Due
<1>3. CASE Due'
  BY <1>1, <1>2, <1>3 DEF ToastsTell, ShowsSame
<1>4. CASE ~Due'
  BY <1>1, <1>2, <1>4 DEF ToastsTell, ShowsSame
<1> QED
  BY <1>3, <1>4

(* A step of the tab, with at most the calls under way and an export that  *)
(* is dropped.                                                             *)
TabStep(t) ==
    /\ walletTab' = t
    /\ UNCHANGED <<tx, history, coins, deposits, terms, walletVisit>>
    /\ calls' \in SUBSET TxIds /\ coinCall' \in CoinCallRow
    /\ exporting' \in {exporting, NoExport}
LEMMA TabStepKeeps ==
  ASSUME WalletInv, NEW t, TabStep(t), t \in WalletTabRow, PageTells(t), ShowsSame
  PROVE  WalletInv'
<1>1. WalletTyped'
  <2>1. NoExport \in ExportRow
    BY DEF NoExport, ExportRow
  <2>2. walletTab' \in WalletTabRow /\ exporting' \in ExportRow
    BY <2>1 DEF TabStep, WalletInv, WalletTyped
  <2> QED
    BY <2>2 DEF TabStep, WalletInv, WalletTyped, HistoryTyped
<1>2. HubKeeps
  BY DEF TabStep, HubKeeps, Confirmed
<1>3. PageTells(walletTab)'
  BY <1>2, KeptPage DEF TabStep
<1>4. RowsTell' /\ FundsTell'
  BY DEF TabStep, WalletInv, RowsTell, FundsTell
<1>5. ToastsTell'
  <2>1. Arrived' = Arrived
    BY DEF TabStep, Arrived
  <2>2. Due' => Due
    BY DEF TabStep, Due, ShowsSame
  <2> QED
    BY <2>1, <2>2, ToastsStay DEF WalletInv
<1>6. ExportTells'
  BY DEF TabStep, WalletInv, ExportTells, NoExport
<1> QED
  BY <1>1, <1>3, <1>4, <1>5, <1>6 DEF WalletInv

(* A tab that is like another one but for some fields says of a page what  *)
(* the other one says, when it is none of the fields that tell.            *)
TabFields == {"page", "of", "call", "error", "swapAlert", "funds", "seen", "confirm", "before", "asking",
              "done", "probe", "probing", "hint", "filter", "listPage", "editing", "rows", "fiat", "over",
              "latest", "toasts", "saves"}
SilentFields == {"swapAlert", "funds", "confirm", "asking", "filter", "listPage", "rows", "fiat", "latest", "toasts"}
LikeBut(t, w, changed) == \A f \in TabFields \ changed : t[f] = w[f]

LEMMA TabFieldsAre ==
  ASSUME NEW w \in WalletTabRow
  PROVE  DOMAIN w = TabFields
  BY DEF WalletTabRow, TabFields

(* Each field may be given any value of its own.                           *)
LEMMA TabFieldTyped ==
  ASSUME NEW w \in WalletTabRow
  PROVE  /\ \A n \in 0..2 : [w EXCEPT !.funds = n] \in WalletTabRow
         /\ \A i \in Ids : /\ [w EXCEPT !.of = i] \in WalletTabRow /\ [w EXCEPT !.call = i] \in WalletTabRow
                         /\ [w EXCEPT !.editing = i] \in WalletTabRow
         /\ \A b \in BOOLEAN : /\ [w EXCEPT !.error = b] \in WalletTabRow /\ [w EXCEPT !.swapAlert = b] \in WalletTabRow
                             /\ [w EXCEPT !.seen = b] \in WalletTabRow /\ [w EXCEPT !.confirm = b] \in WalletTabRow
                             /\ [w EXCEPT !.asking = b] \in WalletTabRow /\ [w EXCEPT !.done = b] \in WalletTabRow
                             /\ [w EXCEPT !.hint = b] \in WalletTabRow /\ [w EXCEPT !.fiat = b] \in WalletTabRow
         /\ \A n \in Nat : /\ [w EXCEPT !.listPage = n] \in WalletTabRow /\ [w EXCEPT !.over = n] \in WalletTabRow
                         /\ [w EXCEPT !.toasts = n] \in WalletTabRow
         /\ \A n \in 0..MaxSaves : [w EXCEPT !.saves = n] \in WalletTabRow
         /\ \A d \in SUBSET Deposits : [w EXCEPT !.before = d] \in WalletTabRow
         /\ \A r \in SUBSET (Labels \cup {NoLabel}) : [w EXCEPT !.rows = r] \in WalletTabRow
         /\ \A r \in {<<>>} \cup (TxIds \X TxRow) : [w EXCEPT !.latest = r] \in WalletTabRow
         /\ \A p \in Probes : [w EXCEPT !.probe = p] \in WalletTabRow
         /\ \A p \in Probings : [w EXCEPT !.probing = p] \in WalletTabRow
         /\ \A f \in Filters : [w EXCEPT !.filter = f] \in WalletTabRow
<1>1. ASSUME NEW i \in Ids
      PROVE  /\ [w EXCEPT !.of = i] \in WalletTabRow /\ [w EXCEPT !.call = i] \in WalletTabRow
             /\ [w EXCEPT !.editing = i] \in WalletTabRow
  <2>1. [w EXCEPT !.of = i] \in WalletTabRow
    BY DEF WalletTabRow
  <2>2. [w EXCEPT !.call = i] \in WalletTabRow
    BY DEF WalletTabRow
  <2>3. [w EXCEPT !.editing = i] \in WalletTabRow
    BY DEF WalletTabRow
  <2> QED
    BY <2>1, <2>2, <2>3
<1>2. ASSUME NEW b \in BOOLEAN
      PROVE  /\ [w EXCEPT !.error = b] \in WalletTabRow /\ [w EXCEPT !.swapAlert = b] \in WalletTabRow
             /\ [w EXCEPT !.seen = b] \in WalletTabRow /\ [w EXCEPT !.confirm = b] \in WalletTabRow
             /\ [w EXCEPT !.asking = b] \in WalletTabRow /\ [w EXCEPT !.done = b] \in WalletTabRow
             /\ [w EXCEPT !.hint = b] \in WalletTabRow /\ [w EXCEPT !.fiat = b] \in WalletTabRow
  <2>1. [w EXCEPT !.error = b] \in WalletTabRow /\ [w EXCEPT !.swapAlert = b] \in WalletTabRow
    BY DEF WalletTabRow
  <2>2. [w EXCEPT !.seen = b] \in WalletTabRow /\ [w EXCEPT !.confirm = b] \in WalletTabRow
    BY DEF WalletTabRow
  <2>3. [w EXCEPT !.asking = b] \in WalletTabRow /\ [w EXCEPT !.done = b] \in WalletTabRow
    BY DEF WalletTabRow
  <2>4. [w EXCEPT !.hint = b] \in WalletTabRow /\ [w EXCEPT !.fiat = b] \in WalletTabRow
    BY DEF WalletTabRow
  <2> QED
    BY <2>1, <2>2, <2>3, <2>4
<1>3. ASSUME NEW n \in Nat
      PROVE  /\ [w EXCEPT !.listPage = n] \in WalletTabRow /\ [w EXCEPT !.over = n] \in WalletTabRow
             /\ [w EXCEPT !.toasts = n] \in WalletTabRow
  <2>1. [w EXCEPT !.listPage = n] \in WalletTabRow
    BY DEF WalletTabRow
  <2>2. [w EXCEPT !.over = n] \in WalletTabRow
    BY DEF WalletTabRow
  <2>3. [w EXCEPT !.toasts = n] \in WalletTabRow
    BY DEF WalletTabRow
  <2> QED
    BY <2>1, <2>2, <2>3
<1>4. ASSUME NEW n \in 0..MaxSaves PROVE [w EXCEPT !.saves = n] \in WalletTabRow
  BY DEF WalletTabRow
<1>5. ASSUME NEW d \in SUBSET Deposits PROVE [w EXCEPT !.before = d] \in WalletTabRow
  BY DEF WalletTabRow
<1>6. ASSUME NEW r \in SUBSET (Labels \cup {NoLabel}) PROVE [w EXCEPT !.rows = r] \in WalletTabRow
  BY DEF WalletTabRow
<1>7. ASSUME NEW r \in {<<>>} \cup (TxIds \X TxRow) PROVE [w EXCEPT !.latest = r] \in WalletTabRow
  BY DEF WalletTabRow
<1>8. ASSUME NEW p \in Probes PROVE [w EXCEPT !.probe = p] \in WalletTabRow
  BY DEF WalletTabRow
<1>9. ASSUME NEW p \in Probings PROVE [w EXCEPT !.probing = p] \in WalletTabRow
  BY DEF WalletTabRow
<1>10. ASSUME NEW f \in Filters PROVE [w EXCEPT !.filter = f] \in WalletTabRow
  BY DEF WalletTabRow
<1>11. ASSUME NEW n \in 0..2 PROVE [w EXCEPT !.funds = n] \in WalletTabRow
  BY DEF WalletTabRow
<1> QED
  BY <1>11, <1>1, <1>2, <1>3, <1>4, <1>5, <1>6, <1>7, <1>8, <1>9, <1>10

(* A page that is opened knows nothing of what was.                        *)
LEMMA MountFacts ==
  ASSUME WalletInv, NEW p \in WalletPages
  PROVE  /\ Mount(p) \in WalletTabRow
         /\ Mount(p).page = p /\ Mount(p).of = 0 /\ Mount(p).call = 0 /\ ~Mount(p).done /\ ~Mount(p).error
         /\ ~Mount(p).seen
         /\ Mount(p).editing = 0 /\ DepositTells(Mount(p)) /\ ProbeTells(Mount(p))
         /\ Mount(p).toasts = walletTab.toasts /\ Mount(p).saves = walletTab.saves /\ Mount(p).latest = walletTab.latest
         /\ p \notin {"success", "onchain-success"} => PageTells(Mount(p))
<1> DEFINE m == Mount(p)
<1>1. /\ walletTab.latest \in {<<>>} \cup (TxIds \X TxRow) /\ walletTab.toasts \in Nat
      /\ walletTab.saves \in 0..MaxSaves /\ walletTab.filter \in Filters /\ coins.funds \in 0..2
  BY DEF WalletInv, WalletTyped, WalletTabRow, CoinsRow
<1> DEFINE pr == IF p = "receive" /\ terms.jit THEN "loading" ELSE "none"
           f == FreshWalletTab(p)
<1>2. m = [f EXCEPT !.funds = coins.funds, !.latest = walletTab.latest, !.toasts = walletTab.toasts,
                    !.saves = walletTab.saves, !.filter = walletTab.filter, !.before = Confirmed, !.probe = pr]
  BY DEF Mount, Confirmed
<1>0. /\ f \in WalletTabRow
      /\ f.page = p /\ f.of = 0 /\ f.call = 0 /\ f.done = FALSE /\ f.error = FALSE /\ f.editing = 0 /\ f.seen = FALSE
      /\ f.probing = "no"
  BY WalletBasics DEF FreshWalletTab, WalletTabRow, Probes, Probings, Filters, MaxSaves
<1> HIDE DEF f, m
<1>3. m \in WalletTabRow
  <2>1. Confirmed \in SUBSET Deposits /\ pr \in Probes
    BY DEF Confirmed, Probes
  <2> HIDE DEF pr
  <2> DEFINE f1 == [f EXCEPT !.funds = coins.funds]
             f2 == [f1 EXCEPT !.latest = walletTab.latest]
             f3 == [f2 EXCEPT !.toasts = walletTab.toasts]
             f4 == [f3 EXCEPT !.saves = walletTab.saves]
             f5 == [f4 EXCEPT !.filter = walletTab.filter]
             f6 == [f5 EXCEPT !.before = Confirmed]
             f7 == [f6 EXCEPT !.probe = pr]
  <2>2. m = f7
    BY <1>2
  <2>3. f1 \in WalletTabRow
    BY <1>0, <1>1, <2>1, TabFieldTyped
  <2> HIDE DEF f1
  <2>4. f2 \in WalletTabRow
    BY <2>3, <1>1, <2>1, TabFieldTyped
  <2> HIDE DEF f2
  <2>5. f3 \in WalletTabRow
    BY <2>4, <1>1, <2>1, TabFieldTyped
  <2> HIDE DEF f3
  <2>6. f4 \in WalletTabRow
    BY <2>5, <1>1, <2>1, TabFieldTyped
  <2> HIDE DEF f4
  <2>7. f5 \in WalletTabRow
    BY <2>6, <1>1, <2>1, TabFieldTyped
  <2> HIDE DEF f5
  <2>8. f6 \in WalletTabRow
    BY <2>7, <1>1, <2>1, TabFieldTyped
  <2> HIDE DEF f6
  <2>9. f7 \in WalletTabRow
    BY <2>8, <1>1, <2>1, TabFieldTyped
  <2> HIDE DEF f7
  <2> QED
    BY <2>2, <2>9
<1>4. /\ m.page = p /\ m.of = 0 /\ m.call = 0 /\ ~m.done /\ ~m.error /\ m.editing = 0 /\ ~m.seen
      /\ m.toasts = walletTab.toasts /\ m.saves = walletTab.saves /\ m.latest = walletTab.latest
      /\ m.before = Confirmed /\ m.probing = "no" /\ m.probe # "ok" /\ (m.probe # "none" => terms.jit)
  BY <1>0, <1>2 DEF WalletTabRow
<1>5. DepositTells(m)
  BY <1>4 DEF DepositTells
<1>6. ProbeTells(m)
  BY <1>4 DEF ProbeTells
<1>7. p \notin {"success", "onchain-success"} => PageTells(m)
  BY <1>4, <1>5, <1>6 DEF PageTells
<1> QED
  BY <1>3, <1>4, <1>5, <1>6, <1>7 DEF m

(* What a page tells of is the same for tabs with the same fields.         *)
LEMMA DepositAlike ==
  ASSUME NEW w, NEW t, DepositTells(w), t.page = w.page, t.of = w.of, t.done = w.done, t.before = w.before
  PROVE  DepositTells(t)
  BY DEF DepositTells

LEMMA ProbeAlike ==
  ASSUME NEW w, NEW t, ProbeTells(w), t.probe = w.probe, t.probing = w.probing
  PROVE  ProbeTells(t)
  BY DEF ProbeTells

LEMMA InvoiceAlike ==
  ASSUME NEW w, NEW t, t.of = w.of, t.done = w.done, t.over = w.over
  PROVE  InvoiceTells(w) => InvoiceTells(t)
  BY DEF InvoiceTells

LEMMA PageAlike ==
  ASSUME NEW w, NEW t, PageTells(w), LikeBut(t, w, SilentFields \cup {"editing"}), t.editing \in {0, w.editing}
  PROVE  PageTells(t)
<1>1. /\ t.page = w.page /\ t.of = w.of /\ t.call = w.call /\ t.error = w.error /\ t.seen = w.seen
      /\ t.done = w.done /\ t.over = w.over /\ t.before = w.before /\ t.probe = w.probe /\ t.probing = w.probing
      /\ t.hint = w.hint /\ t.saves = w.saves
  BY DEF LikeBut, TabFields, SilentFields
<1>2. DepositTells(t) /\ ProbeTells(t)
  BY <1>1, DepositAlike, ProbeAlike DEF PageTells
<1>3. InvoiceTells(w) => InvoiceTells(t)
  BY <1>1, InvoiceAlike
<1> QED
  BY <1>1, <1>2, <1>3 DEF PageTells

-----------------------------------------------------------------------------
(* Wallet: steps of the tab.                                               *)

LEMMA OnlyWalletKeeps ==
  ASSUME WalletInv, NEW t, OnlyWallet(t), t \in WalletTabRow, PageTells(t),
         t.toasts = walletTab.toasts, t.saves = walletTab.saves, t.latest = walletTab.latest
  PROVE  WalletInv'
<1>1. TabStep(t) /\ ShowsSame
  BY DEF OnlyWallet, TabStep, ShowsSame, WalletInv, WalletTyped
<1> QED
  BY <1>1, TabStepKeeps

LEMMA TabTyped ==
  ASSUME WalletInv
  PROVE  walletTab \in WalletTabRow /\ PageTells(walletTab)
  BY DEF WalletInv, WalletTyped

(* Pages are opened, and loaded again with what they were handed.          *)
LEMMA OpenKeeps ==
  ASSUME WalletInv, NEW p, OpenWalletPage(p)
  PROVE  WalletInv'
<1>1. p \in WalletPages /\ p \notin {"success", "onchain-success"} /\ OnlyWallet(Mount(p))
  BY WalletPagesAre DEF OpenWalletPage, Handed, WalletInv, WalletTyped
<1> QED
  BY <1>1, MountFacts, OnlyWalletKeeps

LEMMA ReloadKeeps ==
  ASSUME WalletInv, ReloadWallet
  PROVE  WalletInv'
<1> DEFINE m == Mount(walletTab.page)
           o == IF walletTab.page \in {"confirm", "zero", "lnurl", "success", "onchain", "onchain-success"}
                THEN walletTab.of ELSE 0
           t == [m EXCEPT !.of = o, !.latest = <<>>, !.filter = "none"]
<1>1. walletTab \in WalletTabRow /\ PageTells(walletTab)
  BY TabTyped
<1>2. walletTab.page \in WalletPages /\ o \in Ids
  BY <1>1, WalletBasics DEF WalletTabRow
<1>3. /\ m \in WalletTabRow /\ m.page = walletTab.page /\ m.of = 0 /\ m.call = 0 /\ ~m.done /\ ~m.error /\ ~m.seen
      /\ m.editing = 0 /\ DepositTells(m) /\ ProbeTells(m)
      /\ m.toasts = walletTab.toasts /\ m.saves = walletTab.saves
  BY <1>2, MountFacts
<1>4. TabStep(t)
  BY DEF ReloadWallet, TabStep, CoinCallRow
<1> HIDE DEF m
<1>5. /\ t \in WalletTabRow /\ t.page = walletTab.page /\ t.of = o /\ t.call = 0 /\ ~t.done /\ ~t.error /\ ~t.seen
      /\ t.editing = 0 /\ t.before = m.before /\ t.probe = m.probe /\ t.probing = m.probing
      /\ t.toasts = walletTab.toasts /\ t.saves = walletTab.saves /\ t.latest = <<>>
  <2>1. t \in WalletTabRow
    <3> DEFINE t1 == [m EXCEPT !.of = o]
               t2 == [t1 EXCEPT !.latest = <<>>]
               t3 == [t2 EXCEPT !.filter = "none"]
    <3>1. o \in Ids /\ <<>> \in {<<>>} \cup (TxIds \X TxRow) /\ "none" \in Filters
      BY <1>2 DEF Filters
    <3>2. t = t3
      BY <1>3, TabFieldsAre DEF TabFields
    <3> HIDE DEF t
    <3>3. t1 \in WalletTabRow
      BY <1>3, <3>1, TabFieldTyped
    <3> HIDE DEF t1
    <3>4. t2 \in WalletTabRow
      BY <3>3, <3>1, TabFieldTyped
    <3> HIDE DEF t2
    <3>5. t3 \in WalletTabRow
      BY <3>4, <3>1, TabFieldTyped
    <3> HIDE DEF t3
    <3> QED
      BY <3>2, <3>5
  <2>2. /\ t.page = walletTab.page /\ t.of = o /\ t.call = 0 /\ ~t.done /\ ~t.error /\ ~t.seen
        /\ t.editing = 0 /\ t.before = m.before /\ t.probe = m.probe /\ t.probing = m.probing
        /\ t.toasts = walletTab.toasts /\ t.saves = walletTab.saves /\ t.latest = <<>>
    BY <1>3, TabFieldsAre DEF TabFields
  <2> QED
    BY <2>1, <2>2
<1> HIDE DEF t
<1>6. DepositTells(t)
  BY <1>3, <1>5 DEF DepositTells
<1>7. ProbeTells(t)
  BY <1>3, <1>5 DEF ProbeTells
<1>8. PageTells(t)
  BY <1>1, <1>5, <1>6, <1>7 DEF PageTells
<1>9. ShowsSame
  BY <1>4, <1>5 DEF TabStep, ShowsSame
<1> QED
  BY <1>4, <1>5, <1>8, <1>9, TabStepKeeps

(* What is typed leads to the page for it.                                 *)
LEMMA SubmitRecipientKeeps ==
  ASSUME WalletInv, NEW r, SubmitRecipient(r)
  PROVE  WalletInv'
<1>1. RecipientPage(r) \in {"zero", "confirm", "onchain", "lnurl", "error"}
  BY DEF RecipientPage, HandleBip21, InvoicePage
<1>2. CASE RecipientPage(r) = "error"
  <2> DEFINE t == [walletTab EXCEPT !.swapAlert = TRUE]
  <2>1. OnlyWallet(t) /\ walletTab.page = "send"
    BY <1>2 DEF SubmitRecipient
  <2>2. t \in WalletTabRow /\ t.toasts = walletTab.toasts /\ t.saves = walletTab.saves /\ t.latest = walletTab.latest
    <3>1. t \in WalletTabRow
      <4>1. TRUE \in BOOLEAN
        BY TabTyped
      <4> QED
        BY TabTyped, <4>1, TabFieldTyped
    <3>2. t.toasts = walletTab.toasts /\ t.saves = walletTab.saves /\ t.latest = walletTab.latest
      BY TabTyped, TabFieldsAre DEF TabFields
    <3> QED
      BY <3>1, <3>2
  <2>3. PageTells(t)
    <3>1. LikeBut(t, walletTab, {"swapAlert"}) /\ t.editing = walletTab.editing
      BY TabTyped, TabFieldsAre DEF LikeBut, TabFields
    <3> HIDE DEF t
    <3>2. LikeBut(t, walletTab, SilentFields \cup {"editing"})
      BY <3>1 DEF LikeBut, SilentFields
    <3> QED
      BY TabTyped, <3>1, <3>2, PageAlike
  <2> QED
    BY <2>1, <2>2, <2>3, OnlyWalletKeeps
<1>3. CASE RecipientPage(r) # "error"
  <2>1. Leads(RecipientPage(r)) /\ OnlyWallet(Mount(RecipientPage(r)))
    BY <1>3 DEF SubmitRecipient
  <2>2. RecipientPage(r) \in WalletPages
    BY <2>1, WalletPagesAre DEF WalletInv, WalletTyped
  <2> QED
    BY <1>1, <2>1, <2>2, MountFacts, OnlyWalletKeeps
<1> QED
  BY <1>2, <1>3

(* The buttons and the polls that only look at what the hub has.           *)
LEMMA ConfirmWithdrawalKeeps ==
  ASSUME WalletInv, ConfirmWithdrawal
  PROVE  WalletInv'
<1> DEFINE t == [walletTab EXCEPT !.confirm = TRUE]
<1>1. OnlyWallet(t) /\ walletTab.page = "withdraw"
  BY DEF ConfirmWithdrawal
<1>2. walletTab \in WalletTabRow /\ PageTells(walletTab)
  BY TabTyped
<1>3. t \in WalletTabRow /\ t.toasts = walletTab.toasts /\ t.saves = walletTab.saves /\ t.latest = walletTab.latest
  <2>1. t \in WalletTabRow
    <3>1. TRUE \in BOOLEAN
      BY <1>1, <1>2
    <3> QED
      BY <1>1, <1>2, <3>1, TabFieldTyped
  <2>2. t.toasts = walletTab.toasts /\ t.saves = walletTab.saves /\ t.latest = walletTab.latest
    BY <1>1, <1>2, TabFieldsAre DEF TabFields
  <2> QED
    BY <2>1, <2>2
<1>4. PageTells(t)
  <2>1. LikeBut(t, walletTab, {"confirm"}) /\ t.editing = walletTab.editing
    BY <1>1, <1>2, TabFieldsAre DEF LikeBut, TabFields
  <2> HIDE DEF t
  <2>2. LikeBut(t, walletTab, SilentFields \cup {"editing"})
    BY <2>1 DEF LikeBut, SilentFields
  <2> QED
    BY <1>1, <1>2, <2>1, <2>2, PageAlike
<1> QED
  BY <1>1, <1>3, <1>4, OnlyWalletKeeps

LEMMA PollMempoolKeeps ==
  ASSUME WalletInv, PollMempool
  PROVE  WalletInv'
<1> DEFINE t == [walletTab EXCEPT !.seen = coins.sent[walletTab.of] = "confirmed"]
<1>1. OnlyWallet(t) /\ walletTab.page = "onchain-success"
  BY DEF PollMempool
<1>2. walletTab \in WalletTabRow /\ PageTells(walletTab)
  BY TabTyped
<1>3. t \in WalletTabRow /\ t.toasts = walletTab.toasts /\ t.saves = walletTab.saves /\ t.latest = walletTab.latest
  <2>1. t \in WalletTabRow
    <3>1. (coins.sent[walletTab.of] = "confirmed") \in BOOLEAN
      BY <1>1, <1>2
    <3> QED
      BY <1>1, <1>2, <3>1, TabFieldTyped
  <2>2. t.toasts = walletTab.toasts /\ t.saves = walletTab.saves /\ t.latest = walletTab.latest
    BY <1>1, <1>2, TabFieldsAre DEF TabFields
  <2> QED
    BY <2>1, <2>2
<1>4. PageTells(t)
  <2>1. /\ t.page = walletTab.page /\ t.of = walletTab.of /\ t.call = walletTab.call
        /\ t.error = walletTab.error /\ t.seen = (coins.sent[walletTab.of] = "confirmed")
        /\ t.done = walletTab.done /\ t.over = walletTab.over /\ t.before = walletTab.before
        /\ t.probe = walletTab.probe /\ t.probing = walletTab.probing /\ t.hint = walletTab.hint
        /\ t.editing = walletTab.editing /\ t.saves = walletTab.saves
    BY <1>1, <1>2, TabFieldsAre DEF TabFields
  <2> HIDE DEF t
  <2>2. DepositTells(walletTab) /\ ProbeTells(walletTab)
    BY <1>1, <1>2 DEF PageTells
  <2>3. DepositTells(t)
    BY <2>2, <2>1, DepositAlike
  <2>4. ProbeTells(t)
    BY <2>2, <2>1, ProbeAlike
  <2>5. InvoiceTells(walletTab) => InvoiceTells(t)
    BY <2>1, InvoiceAlike
  <2> QED
    BY <1>1, <1>2, <2>1, <2>3, <2>4, <2>5 DEF PageTells
<1> QED
  BY <1>1, <1>3, <1>4, OnlyWalletKeeps

LEMMA ToggleModeKeeps ==
  ASSUME WalletInv, ToggleMode
  PROVE  WalletInv'
<1> DEFINE b == ~walletTab.fiat
           t == [walletTab EXCEPT !.fiat = b]
<1>1. OnlyWallet(t) /\ walletTab.page = "invoice" /\ walletTab.of = 0
  BY DEF ToggleMode
<1>2. walletTab \in WalletTabRow /\ PageTells(walletTab)
  BY TabTyped
<1>5. b \in BOOLEAN
  OBVIOUS
<1> HIDE DEF b
<1>3. t \in WalletTabRow /\ t.toasts = walletTab.toasts /\ t.saves = walletTab.saves /\ t.latest = walletTab.latest
  <2>1. t \in WalletTabRow
    <3>1. b \in BOOLEAN
      BY <1>1, <1>2, <1>5
    <3> QED
      BY <1>1, <1>2, <1>5, <3>1, TabFieldTyped
  <2>2. t.toasts = walletTab.toasts /\ t.saves = walletTab.saves /\ t.latest = walletTab.latest
    BY <1>1, <1>2, <1>5, TabFieldsAre DEF TabFields
  <2> QED
    BY <2>1, <2>2
<1>4. PageTells(t)
  <2>1. LikeBut(t, walletTab, {"fiat"}) /\ t.editing = walletTab.editing
    BY <1>1, <1>2, TabFieldsAre DEF LikeBut, TabFields
  <2> HIDE DEF t
  <2>2. LikeBut(t, walletTab, SilentFields \cup {"editing"})
    BY <2>1 DEF LikeBut, SilentFields
  <2> QED
    BY <1>1, <1>2, <2>1, <2>2, PageAlike
<1> QED
  BY <1>1, <1>3, <1>4, OnlyWalletKeeps

LEMMA PollInvoiceKeeps ==
  ASSUME WalletInv, PollInvoice
  PROVE  WalletInv'
<1> DEFINE t == [walletTab EXCEPT !.done = tx[walletTab.of].state = "settled" \/ (walletTab.page = "crypto" /\ walletTab.done)]
<1>1. OnlyWallet(t) /\ walletTab.page \in {"invoice", "crypto"} /\ walletTab.of # 0
  BY DEF PollInvoice
<1>2. walletTab \in WalletTabRow /\ PageTells(walletTab)
  BY TabTyped
<1>3. t \in WalletTabRow /\ t.toasts = walletTab.toasts /\ t.saves = walletTab.saves /\ t.latest = walletTab.latest
  <2>1. t \in WalletTabRow
    <3>1. (tx[walletTab.of].state = "settled" \/ (walletTab.page = "crypto" /\ walletTab.done)) \in BOOLEAN
      BY <1>1, <1>2
    <3> QED
      BY <1>1, <1>2, <3>1, TabFieldTyped
  <2>2. t.toasts = walletTab.toasts /\ t.saves = walletTab.saves /\ t.latest = walletTab.latest
    BY <1>1, <1>2, TabFieldsAre DEF TabFields
  <2> QED
    BY <2>1, <2>2
<1>4. PageTells(t)
  <2>1. /\ t.page = walletTab.page /\ t.of = walletTab.of /\ t.call = walletTab.call
        /\ t.error = walletTab.error /\ t.seen = walletTab.seen
        /\ t.done = (tx[walletTab.of].state = "settled" \/ (walletTab.page = "crypto" /\ walletTab.done))
        /\ t.over = walletTab.over /\ t.before = walletTab.before /\ t.probe = walletTab.probe
        /\ t.probing = walletTab.probing /\ t.hint = walletTab.hint
        /\ t.editing = walletTab.editing /\ t.saves = walletTab.saves
    BY <1>1, <1>2, TabFieldsAre DEF TabFields
  <2> HIDE DEF t
  <2>2. DepositTells(walletTab) /\ ProbeTells(walletTab)
    BY <1>1, <1>2 DEF PageTells
  <2>3. DepositTells(t)
    BY <1>1, <1>2, <2>1, <2>2 DEF DepositTells
  <2>4. ProbeTells(t)
    BY <2>2, <2>1, ProbeAlike
  <2> QED
    BY <1>1, <1>2, <2>1, <2>3, <2>4 DEF PageTells, InvoiceTells
<1> QED
  BY <1>1, <1>3, <1>4, OnlyWalletKeeps

LEMMA AnotherPaymentKeeps ==
  ASSUME WalletInv, AnotherPayment
  PROVE  WalletInv'
<1> DEFINE t == [walletTab EXCEPT !.of = 0, !.over = 0, !.done = FALSE]
<1>1. OnlyWallet(t) /\ walletTab.page \in {"invoice", "crypto"}
  BY DEF AnotherPayment
<1>2. walletTab \in WalletTabRow /\ PageTells(walletTab)
  BY TabTyped
<1>3. t \in WalletTabRow /\ t.toasts = walletTab.toasts /\ t.saves = walletTab.saves /\ t.latest = walletTab.latest
  <2>1. t \in WalletTabRow
    <3> DEFINE t1 == [walletTab EXCEPT !.of = 0]
               t2 == [t1 EXCEPT !.over = 0]
               t3 == [t2 EXCEPT !.done = FALSE]
    <3>1. 0 \in Ids /\ 0 \in Nat /\ FALSE \in BOOLEAN
      BY <1>1, <1>2, WalletBasics
    <3>2. t = t3
      BY <1>1, <1>2, WalletBasics, TabFieldsAre DEF TabFields
    <3> HIDE DEF t
    <3>3. t1 \in WalletTabRow
      BY <1>1, <1>2, WalletBasics, <3>1, TabFieldTyped
    <3> HIDE DEF t1
    <3>4. t2 \in WalletTabRow
      BY <3>3, <3>1, TabFieldTyped
    <3> HIDE DEF t2
    <3>5. t3 \in WalletTabRow
      BY <3>4, <3>1, TabFieldTyped
    <3> HIDE DEF t3
    <3> QED
      BY <3>2, <3>5
  <2>2. t.toasts = walletTab.toasts /\ t.saves = walletTab.saves /\ t.latest = walletTab.latest
    BY <1>1, <1>2, WalletBasics, TabFieldsAre DEF TabFields
  <2> QED
    BY <2>1, <2>2
<1>4. PageTells(t)
  <2>1. /\ t.page = walletTab.page /\ t.of = 0 /\ t.call = walletTab.call
        /\ t.error = walletTab.error /\ t.seen = walletTab.seen /\ t.done = FALSE /\ t.over = 0
        /\ t.before = walletTab.before /\ t.probe = walletTab.probe
        /\ t.probing = walletTab.probing /\ t.hint = walletTab.hint
        /\ t.editing = walletTab.editing /\ t.saves = walletTab.saves
    BY <1>1, <1>2, TabFieldsAre DEF TabFields
  <2> HIDE DEF t
  <2>2. DepositTells(walletTab) /\ ProbeTells(walletTab)
    BY <1>1, <1>2 DEF PageTells
  <2>3. DepositTells(t)
    BY <1>1, <1>2, <2>1, <2>2 DEF DepositTells
  <2>4. ProbeTells(t)
    BY <2>2, <2>1, ProbeAlike
  <2> QED
    BY <1>1, <1>2, <2>1, <2>3, <2>4 DEF PageTells, InvoiceTells
<1> QED
  BY <1>1, <1>3, <1>4, OnlyWalletKeeps

LEMMA SubmitOfferKeeps ==
  ASSUME WalletInv, SubmitOffer
  PROVE  WalletInv'
<1> DEFINE t == [walletTab EXCEPT !.done = TRUE]
<1>1. OnlyWallet(t) /\ walletTab.page = "offer"
  BY DEF SubmitOffer
<1>2. walletTab \in WalletTabRow /\ PageTells(walletTab)
  BY TabTyped
<1>3. t \in WalletTabRow /\ t.toasts = walletTab.toasts /\ t.saves = walletTab.saves /\ t.latest = walletTab.latest
  <2>1. t \in WalletTabRow
    <3>1. TRUE \in BOOLEAN
      BY <1>1, <1>2
    <3> QED
      BY <1>1, <1>2, <3>1, TabFieldTyped
  <2>2. t.toasts = walletTab.toasts /\ t.saves = walletTab.saves /\ t.latest = walletTab.latest
    BY <1>1, <1>2, TabFieldsAre DEF TabFields
  <2> QED
    BY <2>1, <2>2
<1>4. PageTells(t)
  <2>1. /\ t.page = walletTab.page /\ t.of = walletTab.of /\ t.call = walletTab.call
        /\ t.error = walletTab.error /\ t.seen = walletTab.seen /\ t.done = TRUE
        /\ t.over = walletTab.over /\ t.before = walletTab.before /\ t.probe = walletTab.probe
        /\ t.probing = walletTab.probing /\ t.hint = walletTab.hint
        /\ t.editing = walletTab.editing /\ t.saves = walletTab.saves
    BY <1>1, <1>2, TabFieldsAre DEF TabFields
  <2> HIDE DEF t
  <2>2. DepositTells(walletTab) /\ ProbeTells(walletTab)
    BY <1>1, <1>2 DEF PageTells
  <2>3. DepositTells(t)
    BY <1>1, <1>2, <2>1, <2>2 DEF DepositTells
  <2>4. ProbeTells(t)
    BY <2>2, <2>1, ProbeAlike
  <2> QED
    BY <1>1, <1>2, <2>1, <2>3, <2>4 DEF PageTells, InvoiceTells
<1> QED
  BY <1>1, <1>3, <1>4, OnlyWalletKeeps

LEMMA ProbeAnsweredKeeps ==
  ASSUME WalletInv, ProbeAnswered
  PROVE  WalletInv'
<1> DEFINE t == [walletTab EXCEPT !.probe = IF walletTab.probing = "made" THEN "ok" ELSE "failed", !.probing = "answered"]
<1>1. OnlyWallet(t) /\ walletTab.probing \in {"made", "refused"}
  BY DEF ProbeAnswered
<1>2. walletTab \in WalletTabRow /\ PageTells(walletTab)
  BY TabTyped
<1>3. t \in WalletTabRow /\ t.toasts = walletTab.toasts /\ t.saves = walletTab.saves /\ t.latest = walletTab.latest
  <2>1. t \in WalletTabRow
    <3> DEFINE t1 == [walletTab EXCEPT !.probe = IF walletTab.probing = "made" THEN "ok" ELSE "failed"]
               t2 == [t1 EXCEPT !.probing = "answered"]
    <3>1. (IF walletTab.probing = "made" THEN "ok" ELSE "failed") \in Probes /\ "answered" \in Probings
      BY <1>1, <1>2 DEF Probes, Probings
    <3>2. t = t2
      BY <1>1, <1>2, TabFieldsAre DEF TabFields
    <3> HIDE DEF t
    <3>3. t1 \in WalletTabRow
      BY <1>1, <1>2, <3>1, TabFieldTyped
    <3> HIDE DEF t1
    <3>4. t2 \in WalletTabRow
      BY <3>3, <3>1, TabFieldTyped
    <3> HIDE DEF t2
    <3> QED
      BY <3>2, <3>4
  <2>2. t.toasts = walletTab.toasts /\ t.saves = walletTab.saves /\ t.latest = walletTab.latest
    BY <1>1, <1>2, TabFieldsAre DEF TabFields
  <2> QED
    BY <2>1, <2>2
<1>4. PageTells(t)
  <2>1. /\ t.page = walletTab.page /\ t.of = walletTab.of /\ t.call = walletTab.call
        /\ t.error = walletTab.error /\ t.seen = walletTab.seen /\ t.done = walletTab.done
        /\ t.over = walletTab.over /\ t.before = walletTab.before
        /\ t.probe = (IF walletTab.probing = "made" THEN "ok" ELSE "failed")
        /\ t.probing = "answered" /\ t.hint = walletTab.hint /\ t.editing = walletTab.editing
        /\ t.saves = walletTab.saves
    BY <1>1, <1>2, TabFieldsAre DEF TabFields
  <2> HIDE DEF t
  <2>2. DepositTells(walletTab) /\ ProbeTells(walletTab)
    BY <1>1, <1>2 DEF PageTells
  <2>3. DepositTells(t)
    BY <2>2, <2>1, DepositAlike
  <2>4. ProbeTells(t)
    BY <1>1, <1>2, <2>1, <2>2 DEF ProbeTells
  <2>5. InvoiceTells(walletTab) => InvoiceTells(t)
    BY <2>1, InvoiceAlike
  <2> QED
    BY <1>1, <1>2, <2>1, <2>3, <2>4, <2>5 DEF PageTells
<1> QED
  BY <1>1, <1>3, <1>4, OnlyWalletKeeps

LEMMA ProbeTimeoutKeeps ==
  ASSUME WalletInv, ProbeTimeout
  PROVE  WalletInv'
<1> DEFINE t == [walletTab EXCEPT !.probe = "failed"]
<1>1. OnlyWallet(t) /\ walletTab.probe = "loading"
  BY DEF ProbeTimeout
<1>2. walletTab \in WalletTabRow /\ PageTells(walletTab)
  BY TabTyped
<1>3. t \in WalletTabRow /\ t.toasts = walletTab.toasts /\ t.saves = walletTab.saves /\ t.latest = walletTab.latest
  <2>1. t \in WalletTabRow
    <3>1. "failed" \in Probes
      BY <1>1, <1>2 DEF Probes
    <3> QED
      BY <1>1, <1>2, <3>1, TabFieldTyped
  <2>2. t.toasts = walletTab.toasts /\ t.saves = walletTab.saves /\ t.latest = walletTab.latest
    BY <1>1, <1>2, TabFieldsAre DEF TabFields
  <2> QED
    BY <2>1, <2>2
<1>4. PageTells(t)
  <2>1. /\ t.page = walletTab.page /\ t.of = walletTab.of /\ t.call = walletTab.call
        /\ t.error = walletTab.error /\ t.seen = walletTab.seen /\ t.done = walletTab.done
        /\ t.over = walletTab.over /\ t.before = walletTab.before /\ t.probe = "failed"
        /\ t.probing = walletTab.probing /\ t.hint = walletTab.hint
        /\ t.editing = walletTab.editing /\ t.saves = walletTab.saves
    BY <1>1, <1>2, TabFieldsAre DEF TabFields
  <2> HIDE DEF t
  <2>2. DepositTells(walletTab) /\ ProbeTells(walletTab)
    BY <1>1, <1>2 DEF PageTells
  <2>3. DepositTells(t)
    BY <2>2, <2>1, DepositAlike
  <2>4. ProbeTells(t)
    BY <1>1, <1>2, <2>1, <2>2 DEF ProbeTells
  <2>5. InvoiceTells(walletTab) => InvoiceTells(t)
    BY <2>1, InvoiceAlike
  <2> QED
    BY <1>1, <1>2, <2>1, <2>3, <2>4, <2>5 DEF PageTells
<1> QED
  BY <1>1, <1>3, <1>4, OnlyWalletKeeps

LEMMA ReceiveAnotherKeeps ==
  ASSUME WalletInv, ReceiveAnother
  PROVE  WalletInv'
<1> DEFINE t == [walletTab EXCEPT !.of = 0, !.done = FALSE, !.asking = TRUE, !.before = Confirmed]
<1>1. OnlyWallet(t) /\ walletTab.page = "deposit"
  BY DEF ReceiveAnother, Confirmed
<1>2. walletTab \in WalletTabRow /\ PageTells(walletTab)
  BY TabTyped
<1>3. t \in WalletTabRow /\ t.toasts = walletTab.toasts /\ t.saves = walletTab.saves /\ t.latest = walletTab.latest
  <2>1. t \in WalletTabRow
    <3> DEFINE t1 == [walletTab EXCEPT !.of = 0]
               t2 == [t1 EXCEPT !.done = FALSE]
               t3 == [t2 EXCEPT !.asking = TRUE]
               t4 == [t3 EXCEPT !.before = Confirmed]
    <3>1. 0 \in Ids /\ FALSE \in BOOLEAN /\ TRUE \in BOOLEAN /\ Confirmed \in SUBSET Deposits
      BY <1>1, <1>2, WalletBasics DEF Confirmed
    <3>2. t = t4
      BY <1>1, <1>2, WalletBasics, TabFieldsAre DEF TabFields
    <3> HIDE DEF t
    <3>3. t1 \in WalletTabRow
      BY <1>1, <1>2, WalletBasics, <3>1, TabFieldTyped
    <3> HIDE DEF t1
    <3>4. t2 \in WalletTabRow
      BY <3>3, <3>1, TabFieldTyped
    <3> HIDE DEF t2
    <3>5. t3 \in WalletTabRow
      BY <3>4, <3>1, TabFieldTyped
    <3> HIDE DEF t3
    <3>6. t4 \in WalletTabRow
      BY <3>5, <3>1, TabFieldTyped
    <3> HIDE DEF t4
    <3> QED
      BY <3>2, <3>6
  <2>2. t.toasts = walletTab.toasts /\ t.saves = walletTab.saves /\ t.latest = walletTab.latest
    BY <1>1, <1>2, WalletBasics, TabFieldsAre DEF TabFields
  <2> QED
    BY <2>1, <2>2
<1>4. PageTells(t)
  <2>1. /\ t.page = walletTab.page /\ t.of = 0 /\ t.call = walletTab.call
        /\ t.error = walletTab.error /\ t.seen = walletTab.seen /\ t.done = FALSE
        /\ t.over = walletTab.over /\ t.before = Confirmed /\ t.probe = walletTab.probe
        /\ t.probing = walletTab.probing /\ t.hint = walletTab.hint
        /\ t.editing = walletTab.editing /\ t.saves = walletTab.saves
    BY <1>1, <1>2, TabFieldsAre DEF TabFields
  <2> HIDE DEF t
  <2>2. DepositTells(walletTab) /\ ProbeTells(walletTab)
    BY <1>1, <1>2 DEF PageTells
  <2>3. DepositTells(t)
    BY <1>1, <1>2, <2>1, <2>2 DEF DepositTells
  <2>4. ProbeTells(t)
    BY <2>2, <2>1, ProbeAlike
  <2> QED
    BY <1>1, <1>2, <2>1, <2>3, <2>4 DEF PageTells, InvoiceTells
<1> QED
  BY <1>1, <1>3, <1>4, OnlyWalletKeeps

LEMMA SetFiltersKeeps ==
  ASSUME WalletInv, NEW f \in Filters, SetFilters(f)
  PROVE  WalletInv'
<1> DEFINE t == [walletTab EXCEPT !.filter = f, !.listPage = 1, !.editing = 0]
<1>1. OnlyWallet(t) /\ walletTab.page = "wallet"
  BY DEF SetFilters
<1>2. walletTab \in WalletTabRow /\ PageTells(walletTab)
  BY TabTyped
<1>3. t \in WalletTabRow /\ t.toasts = walletTab.toasts /\ t.saves = walletTab.saves /\ t.latest = walletTab.latest
  <2>1. t \in WalletTabRow
    <3> DEFINE t1 == [walletTab EXCEPT !.filter = f]
               t2 == [t1 EXCEPT !.listPage = 1]
               t3 == [t2 EXCEPT !.editing = 0]
    <3>1. f \in Filters /\ 1 \in Nat /\ 0 \in Ids
      BY <1>1, <1>2, WalletBasics
    <3>2. t = t3
      BY <1>1, <1>2, WalletBasics, TabFieldsAre DEF TabFields
    <3> HIDE DEF t
    <3>3. t1 \in WalletTabRow
      BY <1>1, <1>2, WalletBasics, <3>1, TabFieldTyped
    <3> HIDE DEF t1
    <3>4. t2 \in WalletTabRow
      BY <3>3, <3>1, TabFieldTyped
    <3> HIDE DEF t2
    <3>5. t3 \in WalletTabRow
      BY <3>4, <3>1, TabFieldTyped
    <3> HIDE DEF t3
    <3> QED
      BY <3>2, <3>5
  <2>2. t.toasts = walletTab.toasts /\ t.saves = walletTab.saves /\ t.latest = walletTab.latest
    BY <1>1, <1>2, WalletBasics, TabFieldsAre DEF TabFields
  <2> QED
    BY <2>1, <2>2
<1>4. PageTells(t)
  <2>1. LikeBut(t, walletTab, {"filter", "listPage", "editing"}) /\ t.editing = 0
    BY <1>1, <1>2, TabFieldsAre DEF LikeBut, TabFields
  <2> HIDE DEF t
  <2>2. LikeBut(t, walletTab, SilentFields \cup {"editing"})
    BY <2>1 DEF LikeBut, SilentFields
  <2> QED
    BY <1>1, <1>2, <2>1, <2>2, PageAlike
<1> QED
  BY <1>1, <1>3, <1>4, OnlyWalletKeeps

LEMMA PageChangeKeeps ==
  ASSUME WalletInv, NEW p \in TxIds, PageChange(p)
  PROVE  WalletInv'
<1> DEFINE t == [walletTab EXCEPT !.listPage = p, !.editing = 0]
<1>1. OnlyWallet(t) /\ walletTab.page = "wallet"
  BY DEF PageChange
<1>2. walletTab \in WalletTabRow /\ PageTells(walletTab)
  BY TabTyped
<1>5. p \in Nat
  BY WalletBasics DEF TxIds
<1>3. t \in WalletTabRow /\ t.toasts = walletTab.toasts /\ t.saves = walletTab.saves /\ t.latest = walletTab.latest
  <2>1. t \in WalletTabRow
    <3> DEFINE t1 == [walletTab EXCEPT !.listPage = p]
               t2 == [t1 EXCEPT !.editing = 0]
    <3>1. p \in Nat /\ 0 \in Ids
      BY <1>1, <1>2, <1>5, WalletBasics
    <3>2. t = t2
      BY <1>1, <1>2, <1>5, WalletBasics, TabFieldsAre DEF TabFields
    <3> HIDE DEF t
    <3>3. t1 \in WalletTabRow
      BY <1>1, <1>2, <1>5, WalletBasics, <3>1, TabFieldTyped
    <3> HIDE DEF t1
    <3>4. t2 \in WalletTabRow
      BY <3>3, <3>1, TabFieldTyped
    <3> HIDE DEF t2
    <3> QED
      BY <3>2, <3>4
  <2>2. t.toasts = walletTab.toasts /\ t.saves = walletTab.saves /\ t.latest = walletTab.latest
    BY <1>1, <1>2, <1>5, WalletBasics, TabFieldsAre DEF TabFields
  <2> QED
    BY <2>1, <2>2
<1>4. PageTells(t)
  <2>1. LikeBut(t, walletTab, {"listPage", "editing"}) /\ t.editing = 0
    BY <1>1, <1>2, TabFieldsAre DEF LikeBut, TabFields
  <2> HIDE DEF t
  <2>2. LikeBut(t, walletTab, SilentFields \cup {"editing"})
    BY <2>1 DEF LikeBut, SilentFields
  <2> QED
    BY <1>1, <1>2, <2>1, <2>2, PageAlike
<1> QED
  BY <1>1, <1>3, <1>4, OnlyWalletKeeps

LEMMA StartLabelsKeeps ==
  ASSUME WalletInv, NEW i \in TxIds, StartLabels(i)
  PROVE  WalletInv'
<1> DEFINE t == [walletTab EXCEPT !.editing = i, !.rows = ToRows(tx[i].labels)]
<1>1. OnlyWallet(t) /\ walletTab.page = "wallet" /\ walletTab.saves < MaxSaves
  BY DEF StartLabels
<1>2. walletTab \in WalletTabRow /\ PageTells(walletTab)
  BY TabTyped
<1>5. ToRows(tx[i].labels) \in SUBSET (Labels \cup {NoLabel})
  <2>1. tx[i].labels \in SUBSET Labels
    BY DEF WalletInv, WalletTyped, TxRow
  <2> QED
    BY <2>1 DEF ToRows
<1>3. t \in WalletTabRow /\ t.toasts = walletTab.toasts /\ t.saves = walletTab.saves /\ t.latest = walletTab.latest
  <2>1. t \in WalletTabRow
    <3> DEFINE t1 == [walletTab EXCEPT !.editing = i]
               t2 == [t1 EXCEPT !.rows = ToRows(tx[i].labels)]
    <3>1. i \in Ids /\ ToRows(tx[i].labels) \in SUBSET (Labels \cup {NoLabel})
      BY <1>1, <1>2, <1>5, WalletBasics
    <3>2. t = t2
      BY <1>1, <1>2, <1>5, WalletBasics, TabFieldsAre DEF TabFields
    <3> HIDE DEF t
    <3>3. t1 \in WalletTabRow
      BY <1>1, <1>2, <1>5, WalletBasics, <3>1, TabFieldTyped
    <3> HIDE DEF t1
    <3>4. t2 \in WalletTabRow
      BY <3>3, <3>1, TabFieldTyped
    <3> HIDE DEF t2
    <3> QED
      BY <3>2, <3>4
  <2>2. t.toasts = walletTab.toasts /\ t.saves = walletTab.saves /\ t.latest = walletTab.latest
    BY <1>1, <1>2, <1>5, WalletBasics, TabFieldsAre DEF TabFields
  <2> QED
    BY <2>1, <2>2
<1>4. PageTells(t)
  <2>1. /\ t.page = walletTab.page /\ t.of = walletTab.of /\ t.call = walletTab.call
        /\ t.error = walletTab.error /\ t.seen = walletTab.seen /\ t.done = walletTab.done
        /\ t.over = walletTab.over /\ t.before = walletTab.before /\ t.probe = walletTab.probe
        /\ t.probing = walletTab.probing /\ t.hint = walletTab.hint /\ t.editing = i
        /\ t.saves = walletTab.saves
    BY <1>1, <1>2, TabFieldsAre DEF TabFields
  <2> HIDE DEF t
  <2>2. DepositTells(walletTab) /\ ProbeTells(walletTab)
    BY <1>1, <1>2 DEF PageTells
  <2>3. DepositTells(t)
    BY <2>2, <2>1, DepositAlike
  <2>4. ProbeTells(t)
    BY <2>2, <2>1, ProbeAlike
  <2>5. InvoiceTells(walletTab) => InvoiceTells(t)
    BY <2>1, InvoiceAlike
  <2> QED
    BY <1>1, <1>2, <2>1, <2>3, <2>4, <2>5 DEF PageTells
<1> QED
  BY <1>1, <1>3, <1>4, OnlyWalletKeeps

LEMMA EditRowsKeeps ==
  ASSUME WalletInv, NEW l \in Labels, EditRows(l)
  PROVE  WalletInv'
<1> DEFINE t == [walletTab EXCEPT !.rows = IF l \in @ THEN @ \ {l} ELSE (@ \ {NoLabel}) \cup {l}]
<1>1. OnlyWallet(t) /\ walletTab.editing # 0
  BY DEF EditRows
<1>2. walletTab \in WalletTabRow /\ PageTells(walletTab)
  BY TabTyped
<1>3. t \in WalletTabRow /\ t.toasts = walletTab.toasts /\ t.saves = walletTab.saves /\ t.latest = walletTab.latest
  <2>1. t \in WalletTabRow
    <3>1. (IF l \in walletTab.rows THEN walletTab.rows \ {l} ELSE (walletTab.rows \ {NoLabel}) \cup {l}) \in SUBSET (Labels \cup {NoLabel})
      <4>1. walletTab.rows \in SUBSET (Labels \cup {NoLabel})
        BY <1>2 DEF WalletTabRow
      <4> QED
        BY <4>1
    <3> QED
      BY <1>1, <1>2, <3>1, TabFieldTyped
  <2>2. t.toasts = walletTab.toasts /\ t.saves = walletTab.saves /\ t.latest = walletTab.latest
    BY <1>1, <1>2, TabFieldsAre DEF TabFields
  <2> QED
    BY <2>1, <2>2
<1>4. PageTells(t)
  <2>1. LikeBut(t, walletTab, {"rows"}) /\ t.editing = walletTab.editing
    BY <1>1, <1>2, TabFieldsAre DEF LikeBut, TabFields
  <2> HIDE DEF t
  <2>2. LikeBut(t, walletTab, SilentFields \cup {"editing"})
    BY <2>1 DEF LikeBut, SilentFields
  <2> QED
    BY <1>1, <1>2, <2>1, <2>2, PageAlike
<1> QED
  BY <1>1, <1>3, <1>4, OnlyWalletKeeps

LEMMA CancelLabelsKeeps ==
  ASSUME WalletInv, CancelLabels
  PROVE  WalletInv'
<1> DEFINE t == [walletTab EXCEPT !.editing = 0, !.rows = {}]
<1>1. OnlyWallet(t) /\ walletTab.editing # 0
  BY DEF CancelLabels
<1>2. walletTab \in WalletTabRow /\ PageTells(walletTab)
  BY TabTyped
<1>3. t \in WalletTabRow /\ t.toasts = walletTab.toasts /\ t.saves = walletTab.saves /\ t.latest = walletTab.latest
  <2>1. t \in WalletTabRow
    <3> DEFINE t1 == [walletTab EXCEPT !.editing = 0]
               t2 == [t1 EXCEPT !.rows = {}]
    <3>1. 0 \in Ids /\ {} \in SUBSET (Labels \cup {NoLabel})
      BY <1>1, <1>2, WalletBasics
    <3>2. t = t2
      BY <1>1, <1>2, WalletBasics, TabFieldsAre DEF TabFields
    <3> HIDE DEF t
    <3>3. t1 \in WalletTabRow
      BY <1>1, <1>2, WalletBasics, <3>1, TabFieldTyped
    <3> HIDE DEF t1
    <3>4. t2 \in WalletTabRow
      BY <3>3, <3>1, TabFieldTyped
    <3> HIDE DEF t2
    <3> QED
      BY <3>2, <3>4
  <2>2. t.toasts = walletTab.toasts /\ t.saves = walletTab.saves /\ t.latest = walletTab.latest
    BY <1>1, <1>2, WalletBasics, TabFieldsAre DEF TabFields
  <2> QED
    BY <2>1, <2>2
<1>4. PageTells(t)
  <2>1. LikeBut(t, walletTab, {"editing", "rows"}) /\ t.editing = 0
    BY <1>1, <1>2, TabFieldsAre DEF LikeBut, TabFields
  <2> HIDE DEF t
  <2>2. LikeBut(t, walletTab, SilentFields \cup {"editing"})
    BY <2>1 DEF LikeBut, SilentFields
  <2> QED
    BY <1>1, <1>2, <2>1, <2>2, PageAlike
<1> QED
  BY <1>1, <1>3, <1>4, OnlyWalletKeeps


(* The deposit that is watched was not confirmed when the page began.      *)
LEMMA WatchUtxosKeeps ==
  ASSUME WalletInv, WatchUtxos
  PROVE  WalletInv'
<1>1. walletTab \in WalletTabRow /\ PageTells(walletTab) /\ walletTab.page = "deposit"
  BY TabTyped DEF WatchUtxos
<1>2. /\ Utxos("confirmed") \subseteq Confirmed /\ Utxos("mempool") \subseteq Deposits
      /\ Utxos("mempool") \cap Confirmed = {} /\ Confirmed \subseteq Deposits
  BY DEF Utxos, Confirmed
<1>3. walletTab.before \subseteq Confirmed
  BY <1>1 DEF PageTells, DepositTells
<1>4. PICK o \in Ids, d \in BOOLEAN :
        /\ OnlyWallet([walletTab EXCEPT !.of = o, !.done = d])
        /\ o \in Deposits \ walletTab.before /\ (d => o \in Confirmed)
  <2>1. CASE walletTab.of # 0
    <3>1. walletTab.of \in Utxos("confirmed") /\ OnlyWallet([walletTab EXCEPT !.done = TRUE])
      BY <2>1 DEF WatchUtxos
    <3>2. [walletTab EXCEPT !.done = TRUE] = [walletTab EXCEPT !.of = walletTab.of, !.done = TRUE]
      BY <1>1 DEF WalletTabRow
    <3>3. walletTab.of \in Ids /\ walletTab.of \in Deposits \ walletTab.before /\ walletTab.of \in Confirmed
      BY <1>1, <1>2, <2>1, <3>1 DEF WalletTabRow, PageTells, DepositTells
    <3> QED
      BY <3>1, <3>2, <3>3
  <2>2. CASE walletTab.of = 0 /\ Utxos("mempool") # {}
    <3>1. PICK d \in Utxos("mempool") : OnlyWallet([walletTab EXCEPT !.of = d])
      BY <2>2 DEF WatchUtxos
    <3>2. [walletTab EXCEPT !.of = d] = [walletTab EXCEPT !.of = d, !.done = FALSE]
      <4>1. walletTab.done = FALSE
        BY <1>1, <2>2 DEF WalletTabRow, PageTells, DepositTells
      <4> QED
        BY <1>1, <4>1 DEF WalletTabRow
    <3>3. d \in Ids /\ d \in Deposits \ walletTab.before
      BY <1>2, <1>3, WalletBasics
    <3> QED
      BY <3>1, <3>2, <3>3
  <2>3. CASE walletTab.of = 0 /\ Utxos("mempool") = {}
    <3>1. PICK d \in Utxos("confirmed") \ walletTab.before : OnlyWallet([walletTab EXCEPT !.of = d, !.done = TRUE])
      BY <2>3 DEF WatchUtxos
    <3>2. d \in Ids /\ d \in Deposits \ walletTab.before /\ d \in Confirmed
      BY <1>2, WalletBasics
    <3> QED
      BY <3>1, <3>2
  <2> QED
    BY <2>1, <2>2, <2>3
<1> DEFINE t == [walletTab EXCEPT !.of = o, !.done = d]
<1>5. t \in WalletTabRow /\ t.toasts = walletTab.toasts /\ t.saves = walletTab.saves /\ t.latest = walletTab.latest
  <2>1. t \in WalletTabRow
    <3> DEFINE t1 == [walletTab EXCEPT !.of = o]
               t2 == [t1 EXCEPT !.done = d]
    <3>1. o \in Ids /\ d \in BOOLEAN
      BY <1>1
    <3>2. t = t2
      BY <1>1, TabFieldsAre DEF TabFields
    <3> HIDE DEF t
    <3>3. t1 \in WalletTabRow
      BY <1>1, <3>1, TabFieldTyped
    <3> HIDE DEF t1
    <3>4. t2 \in WalletTabRow
      BY <3>3, <3>1, TabFieldTyped
    <3> HIDE DEF t2
    <3> QED
      BY <3>2, <3>4
  <2>2. t.toasts = walletTab.toasts /\ t.saves = walletTab.saves /\ t.latest = walletTab.latest
    BY <1>1, TabFieldsAre DEF TabFields
  <2> QED
    BY <2>1, <2>2
<1>6. PageTells(t)
  <2>1. /\ t.page = walletTab.page /\ t.of = o /\ t.call = walletTab.call
        /\ t.error = walletTab.error /\ t.seen = walletTab.seen /\ t.done = d
        /\ t.over = walletTab.over /\ t.before = walletTab.before /\ t.probe = walletTab.probe
        /\ t.probing = walletTab.probing /\ t.hint = walletTab.hint
        /\ t.editing = walletTab.editing /\ t.saves = walletTab.saves
    BY <1>1, <1>3, <1>4, WalletBasics, TabFieldsAre DEF TabFields
  <2> HIDE DEF t
  <2>2. DepositTells(walletTab) /\ ProbeTells(walletTab)
    BY <1>1, <1>3, <1>4, WalletBasics DEF PageTells
  <2>3. DepositTells(t)
    BY <1>1, <1>3, <1>4, WalletBasics, <2>1, <2>2 DEF DepositTells
  <2>4. ProbeTells(t)
    BY <2>2, <2>1, ProbeAlike
  <2> QED
    BY <1>1, <1>3, <1>4, WalletBasics, <2>1, <2>3, <2>4 DEF PageTells
<1> QED
  BY <1>4, <1>5, <1>6, OnlyWalletKeeps

(* Answers to payments, also to pages that are no longer there.            *)
LEMMA PaymentAnsweredKeeps ==
  ASSUME WalletInv, NEW i \in TxIds, PaymentAnswered(i)
  PROVE  WalletInv'
<1> DEFINE m == Mount("success")
           t == [m EXCEPT !.of = i]
<1>1. TabStep(t) /\ tx[i].state = "settled"
  BY DEF PaymentAnswered, TabStep, WalletInv, WalletTyped
<1>2. /\ m \in WalletTabRow /\ m.page = "success" /\ ~m.done /\ ~m.error /\ m.editing = 0
      /\ DepositTells(m) /\ ProbeTells(m)
      /\ m.toasts = walletTab.toasts /\ m.saves = walletTab.saves /\ m.latest = walletTab.latest
  BY WalletPagesAre, MountFacts
<1> HIDE DEF m
<1>3. t \in WalletTabRow /\ t.toasts = walletTab.toasts /\ t.saves = walletTab.saves /\ t.latest = walletTab.latest
  <2>1. t \in WalletTabRow
    <3>1. i \in Ids
      BY <1>2, WalletBasics
    <3> QED
      BY <1>2, WalletBasics, <3>1, TabFieldTyped
  <2>2. t.toasts = m.toasts /\ t.saves = m.saves /\ t.latest = m.latest
    BY <1>2, WalletBasics, TabFieldsAre DEF TabFields
  <2> QED
    BY <2>1, <2>2, <1>2
<1>4. PageTells(t)
  <2>1. /\ t.page = m.page /\ t.of = i /\ t.call = m.call /\ t.error = m.error /\ t.seen = m.seen
        /\ t.done = m.done /\ t.over = m.over /\ t.before = m.before /\ t.probe = m.probe
        /\ t.probing = m.probing /\ t.hint = m.hint /\ t.editing = m.editing /\ t.saves = m.saves
    BY <1>1, <1>2, TabFieldsAre DEF TabFields
  <2> HIDE DEF t
  <2>2. DepositTells(t)
    BY <1>1, <1>2, <2>1 DEF DepositTells
  <2>3. ProbeTells(t)
    BY <1>1, <1>2, <2>1, ProbeAlike
  <2> QED
    BY <1>1, <1>2, <2>1, <2>2, <2>3 DEF PageTells
<1>5. ShowsSame
  BY <1>1, <1>3 DEF TabStep, ShowsSame
<1> QED
  BY <1>1, <1>3, <1>4, <1>5, TabStepKeeps

LEMMA PaymentRefusedKeeps ==
  ASSUME WalletInv, NEW i \in TxIds, PaymentRefused(i)
  PROVE  WalletInv'
<1> DEFINE t == IF walletTab.call = i THEN [walletTab EXCEPT !.call = 0, !.error = TRUE] ELSE walletTab
<1>1. TabStep(t)
  BY DEF PaymentRefused, TabStep, WalletInv, WalletTyped
<1>2. walletTab \in WalletTabRow /\ PageTells(walletTab)
  BY TabTyped
<1> DEFINE u == [walletTab EXCEPT !.call = 0, !.error = TRUE]
<1>3. t \in WalletTabRow /\ t.toasts = walletTab.toasts /\ t.saves = walletTab.saves /\ t.latest = walletTab.latest
  <2>1. CASE walletTab.call = i
    <3>1. u \in WalletTabRow /\ u.toasts = walletTab.toasts /\ u.saves = walletTab.saves /\ u.latest = walletTab.latest
      <4>1. u \in WalletTabRow
        <5> DEFINE t1 == [walletTab EXCEPT !.call = 0]
                   t2 == [t1 EXCEPT !.error = TRUE]
        <5>1. 0 \in Ids /\ TRUE \in BOOLEAN
          BY <1>2, WalletBasics
        <5>2. u = t2
          BY <1>2, WalletBasics, TabFieldsAre DEF TabFields
        <5> HIDE DEF u
        <5>3. t1 \in WalletTabRow
          BY <1>2, WalletBasics, <5>1, TabFieldTyped
        <5> HIDE DEF t1
        <5>4. t2 \in WalletTabRow
          BY <5>3, <5>1, TabFieldTyped
        <5> HIDE DEF t2
        <5> QED
          BY <5>2, <5>4
      <4>2. u.toasts = walletTab.toasts /\ u.saves = walletTab.saves /\ u.latest = walletTab.latest
        BY <1>2, WalletBasics, TabFieldsAre DEF TabFields
      <4> QED
        BY <4>1, <4>2
    <3>2. t = u
      BY <2>1
    <3> QED
      BY <3>1, <3>2
  <2>2. CASE ~(walletTab.call = i)
    BY <1>2, <2>2
  <2> QED
    BY <2>1, <2>2
<1>4. PageTells(t)
  <2>1. CASE walletTab.call = i
    <3>1. i # 0
      BY <1>1, WalletBasics
    <3>2. walletTab.page # "invoice"
      BY <1>2, <2>1, <3>1 DEF PageTells
    <3>3. PageTells(u)
      <4>1. /\ u.page = walletTab.page /\ u.of = walletTab.of /\ u.call = 0 /\ u.error = TRUE
            /\ u.seen = walletTab.seen /\ u.done = walletTab.done /\ u.over = walletTab.over
            /\ u.before = walletTab.before /\ u.probe = walletTab.probe
            /\ u.probing = walletTab.probing /\ u.hint = walletTab.hint
            /\ u.editing = walletTab.editing /\ u.saves = walletTab.saves
        BY <1>2, <3>2, TabFieldsAre DEF TabFields
      <4> HIDE DEF u
      <4>2. DepositTells(walletTab) /\ ProbeTells(walletTab)
        BY <1>2, <3>2 DEF PageTells
      <4>3. DepositTells(u)
        BY <4>2, <4>1, DepositAlike
      <4>4. ProbeTells(u)
        BY <4>2, <4>1, ProbeAlike
      <4>5. InvoiceTells(walletTab) => InvoiceTells(u)
        BY <4>1, InvoiceAlike
      <4> QED
        BY <1>2, <3>2, <4>1, <4>3, <4>4, <4>5 DEF PageTells
    <3>4. t = u
      BY <2>1
    <3> QED
      BY <3>3, <3>4
  <2>2. CASE ~(walletTab.call = i)
    BY <1>2, <2>2
  <2> QED
    BY <2>1, <2>2
<1>5. ShowsSame
  BY <1>1, <1>3 DEF TabStep, ShowsSame
<1> QED
  BY <1>1, <1>3, <1>4, <1>5, TabStepKeeps

LEMMA CoinAnsweredKeeps ==
  ASSUME WalletInv, CoinAnswered
  PROVE  WalletInv'
<1> DEFINE m == Mount("onchain-success")
           c == coinCall.of
           t == IF coinCall.page = "onchain" THEN [m EXCEPT !.of = c]
                ELSE IF walletTab.call = c /\ walletTab.page = "withdraw"
                THEN [walletTab EXCEPT !.call = 0, !.of = c] ELSE walletTab
<1>1. TabStep(t) /\ c # 0
  BY DEF CoinAnswered, TabStep, WalletInv, WalletTyped, CoinCallRow
<1>2. /\ m \in WalletTabRow /\ m.page = "onchain-success" /\ ~m.done /\ ~m.error /\ ~m.seen /\ m.editing = 0
      /\ DepositTells(m) /\ ProbeTells(m)
      /\ m.toasts = walletTab.toasts /\ m.saves = walletTab.saves /\ m.latest = walletTab.latest
  BY WalletPagesAre, MountFacts
<1>3. walletTab \in WalletTabRow /\ PageTells(walletTab)
  BY TabTyped
<1>4. c \in CoinIds /\ c \in Ids
  BY <1>1, WalletBasics DEF WalletInv, WalletTyped, CoinCallRow, CoinIds
<1> HIDE DEF m, c
<1> DEFINE u == [m EXCEPT !.of = c]
           v == [walletTab EXCEPT !.call = 0, !.of = c]
<1>5. t \in WalletTabRow /\ t.toasts = walletTab.toasts /\ t.saves = walletTab.saves /\ t.latest = walletTab.latest
  <2>1. u \in WalletTabRow /\ u.toasts = walletTab.toasts /\ u.saves = walletTab.saves /\ u.latest = walletTab.latest
    <3>1. u \in WalletTabRow
      <4>1. c \in Ids
        BY <1>2, <1>4
      <4> QED
        BY <1>2, <1>4, <4>1, TabFieldTyped
    <3>2. u.toasts = m.toasts /\ u.saves = m.saves /\ u.latest = m.latest
      BY <1>2, <1>4, TabFieldsAre DEF TabFields
    <3> QED
      BY <3>1, <3>2, <1>2
  <2>2. v \in WalletTabRow /\ v.toasts = walletTab.toasts /\ v.saves = walletTab.saves /\ v.latest = walletTab.latest
    <3>1. v \in WalletTabRow
      <4> DEFINE t1 == [walletTab EXCEPT !.call = 0]
                 t2 == [t1 EXCEPT !.of = c]
      <4>1. 0 \in Ids /\ c \in Ids
        BY <1>3, <1>4, WalletBasics
      <4>2. v = t2
        BY <1>3, <1>4, WalletBasics, TabFieldsAre DEF TabFields
      <4> HIDE DEF v
      <4>3. t1 \in WalletTabRow
        BY <1>3, <1>4, WalletBasics, <4>1, TabFieldTyped
      <4> HIDE DEF t1
      <4>4. t2 \in WalletTabRow
        BY <4>3, <4>1, TabFieldTyped
      <4> HIDE DEF t2
      <4> QED
        BY <4>2, <4>4
    <3>2. v.toasts = walletTab.toasts /\ v.saves = walletTab.saves /\ v.latest = walletTab.latest
      BY <1>3, <1>4, WalletBasics, TabFieldsAre DEF TabFields
    <3> QED
      BY <3>1, <3>2
  <2> HIDE DEF u, v
  <2>3. t \in {u, v, walletTab}
    BY DEF u, v
  <2> QED
    BY <1>3, <2>1, <2>2, <2>3
<1>6. PageTells(t)
  <2>1. PageTells(u)
    <3>1. /\ u.page = m.page /\ u.of = c /\ u.call = m.call /\ u.error = m.error /\ u.seen = m.seen
          /\ u.done = m.done /\ u.over = m.over /\ u.before = m.before /\ u.probe = m.probe
          /\ u.probing = m.probing /\ u.hint = m.hint /\ u.editing = m.editing /\ u.saves = m.saves
      BY <1>2, <1>4, TabFieldsAre DEF TabFields
    <3> HIDE DEF u
    <3>2. DepositTells(u)
      BY <1>2, <1>4, <3>1 DEF DepositTells
    <3>3. ProbeTells(u)
      BY <1>2, <1>4, <3>1, ProbeAlike
    <3> QED
      BY <1>2, <1>4, <3>1, <3>2, <3>3 DEF PageTells
  <2>2. ASSUME walletTab.page = "withdraw" PROVE PageTells(v)
    <3>1. /\ v.page = walletTab.page /\ v.of = c /\ v.call = 0 /\ v.error = walletTab.error
          /\ v.seen = walletTab.seen /\ v.done = walletTab.done /\ v.over = walletTab.over
          /\ v.before = walletTab.before /\ v.probe = walletTab.probe
          /\ v.probing = walletTab.probing /\ v.hint = walletTab.hint
          /\ v.editing = walletTab.editing /\ v.saves = walletTab.saves
      BY <1>3, <1>4, TabFieldsAre DEF TabFields
    <3> HIDE DEF v
    <3>2. DepositTells(walletTab) /\ ProbeTells(walletTab)
      BY <1>3, <1>4 DEF PageTells
    <3>3. DepositTells(v)
      BY <2>2, <3>1, <3>2 DEF DepositTells
    <3>4. ProbeTells(v)
      BY <3>2, <3>1, ProbeAlike
    <3> QED
      BY <1>3, <2>2, <3>1, <3>3, <3>4 DEF PageTells
  <2> HIDE DEF u, v
  <2>3. \/ t \in {u, walletTab}
        \/ t = v /\ walletTab.page = "withdraw"
    BY DEF u, v
  <2> QED
    BY <1>3, <2>1, <2>2, <2>3
<1>7. ShowsSame
  BY <1>1, <1>5 DEF TabStep, ShowsSame
<1> QED
  BY <1>1, <1>5, <1>6, <1>7, TabStepKeeps

LEMMA CoinAnswerLostKeeps ==
  ASSUME WalletInv, CoinAnswerLost
  PROVE  WalletInv'
<1> DEFINE t == IF walletTab.call = coinCall.of THEN [walletTab EXCEPT !.call = 0, !.error = TRUE] ELSE walletTab
<1>1. TabStep(t) /\ coinCall.of # 0
  BY DEF CoinAnswerLost, TabStep, WalletInv, WalletTyped, CoinCallRow
<1>2. walletTab \in WalletTabRow /\ PageTells(walletTab)
  BY TabTyped
<1> DEFINE u == [walletTab EXCEPT !.call = 0, !.error = TRUE]
<1>3. t \in WalletTabRow /\ t.toasts = walletTab.toasts /\ t.saves = walletTab.saves /\ t.latest = walletTab.latest
  <2>1. CASE walletTab.call = coinCall.of
    <3>1. u \in WalletTabRow /\ u.toasts = walletTab.toasts /\ u.saves = walletTab.saves /\ u.latest = walletTab.latest
      <4>1. u \in WalletTabRow
        <5> DEFINE t1 == [walletTab EXCEPT !.call = 0]
                   t2 == [t1 EXCEPT !.error = TRUE]
        <5>1. 0 \in Ids /\ TRUE \in BOOLEAN
          BY <1>2, WalletBasics
        <5>2. u = t2
          BY <1>2, WalletBasics, TabFieldsAre DEF TabFields
        <5> HIDE DEF u
        <5>3. t1 \in WalletTabRow
          BY <1>2, WalletBasics, <5>1, TabFieldTyped
        <5> HIDE DEF t1
        <5>4. t2 \in WalletTabRow
          BY <5>3, <5>1, TabFieldTyped
        <5> HIDE DEF t2
        <5> QED
          BY <5>2, <5>4
      <4>2. u.toasts = walletTab.toasts /\ u.saves = walletTab.saves /\ u.latest = walletTab.latest
        BY <1>2, WalletBasics, TabFieldsAre DEF TabFields
      <4> QED
        BY <4>1, <4>2
    <3>2. t = u
      BY <2>1
    <3> QED
      BY <3>1, <3>2
  <2>2. CASE ~(walletTab.call = coinCall.of)
    BY <1>2, <2>2
  <2> QED
    BY <2>1, <2>2
<1>4. PageTells(t)
  <2>1. CASE walletTab.call = coinCall.of
    <3>1. coinCall.of # 0
      BY <1>1, WalletBasics
    <3>2. walletTab.page # "invoice"
      BY <1>2, <2>1, <3>1 DEF PageTells
    <3>3. PageTells(u)
      <4>1. /\ u.page = walletTab.page /\ u.of = walletTab.of /\ u.call = 0 /\ u.error = TRUE
            /\ u.seen = walletTab.seen /\ u.done = walletTab.done /\ u.over = walletTab.over
            /\ u.before = walletTab.before /\ u.probe = walletTab.probe
            /\ u.probing = walletTab.probing /\ u.hint = walletTab.hint
            /\ u.editing = walletTab.editing /\ u.saves = walletTab.saves
        BY <1>2, <3>2, TabFieldsAre DEF TabFields
      <4> HIDE DEF u
      <4>2. DepositTells(walletTab) /\ ProbeTells(walletTab)
        BY <1>2, <3>2 DEF PageTells
      <4>3. DepositTells(u)
        BY <4>2, <4>1, DepositAlike
      <4>4. ProbeTells(u)
        BY <4>2, <4>1, ProbeAlike
      <4>5. InvoiceTells(walletTab) => InvoiceTells(u)
        BY <4>1, InvoiceAlike
      <4> QED
        BY <1>2, <3>2, <4>1, <4>3, <4>4, <4>5 DEF PageTells
    <3>4. t = u
      BY <2>1
    <3> QED
      BY <3>3, <3>4
  <2>2. CASE ~(walletTab.call = coinCall.of)
    BY <1>2, <2>2
  <2> QED
    BY <2>1, <2>2
<1>5. ShowsSame
  BY <1>1, <1>3 DEF TabStep, ShowsSame
<1> QED
  BY <1>1, <1>3, <1>4, <1>5, TabStepKeeps

(* A notification is shown for the row that was due, which then is the     *)
(* latest one.                                                             *)
LEMMA NotifyKeeps ==
  ASSUME WalletInv, NotifyReceivedPayments
  PROVE  WalletInv'
<1> DEFINE top == <<history[1], tx[history[1]]>>
           n == IF walletTab.latest # <<>> /\ tx[history[1]].type = "incoming" THEN walletTab.toasts + 1 ELSE walletTab.toasts
           t == [walletTab EXCEPT !.latest = top, !.toasts = n]
<1>1. history # <<>> /\ walletTab.latest # top /\ OnlyWallet(t)
  BY DEF NotifyReceivedPayments
<1>2. walletTab \in WalletTabRow /\ PageTells(walletTab)
  BY TabTyped
<1>3. top \in TxIds \X TxRow /\ n \in Nat /\ walletTab.toasts \in Nat
  <2>1. history[1] \in TxIds
    BY <1>1 DEF WalletInv, WalletTyped, HistoryTyped
  <2>2. tx[history[1]] \in TxRow
    BY <2>1 DEF WalletInv, WalletTyped
  <2>3. walletTab.toasts \in Nat
    BY <1>2 DEF WalletTabRow
  <2> QED
    BY <2>1, <2>2, <2>3
<1>4. n + 0 <= walletTab.saves + Cardinality(Arrived)
  <2>1. Cardinality(Arrived) \in Nat /\ walletTab.saves \in Nat
    <3>1. walletTab.saves \in 0..MaxSaves
      BY <1>2 DEF WalletTabRow
    <3> QED
      BY <3>1, ArrivedIsFinite DEF MaxSaves
  <2>2. n = walletTab.toasts + (IF Due THEN 1 ELSE 0)
    BY <1>1, <1>3 DEF Due
  <2> HIDE DEF n
  <2> QED
    BY <1>3, <2>1, <2>2 DEF WalletInv, ToastsTell
<1> HIDE DEF top, n
<1>5. t \in WalletTabRow /\ t.latest = top /\ t.toasts = n /\ t.saves = walletTab.saves
  <2>1. t \in WalletTabRow
    <3> DEFINE t1 == [walletTab EXCEPT !.latest = top]
               t2 == [t1 EXCEPT !.toasts = n]
    <3>1. top \in {<<>>} \cup (TxIds \X TxRow) /\ n \in Nat
      BY <1>3
    <3>2. t = t2
      BY <1>2, TabFieldsAre DEF TabFields
    <3> HIDE DEF t
    <3>3. t1 \in WalletTabRow
      BY <1>2, <3>1, TabFieldTyped
    <3> HIDE DEF t1
    <3>4. t2 \in WalletTabRow
      BY <3>3, <3>1, TabFieldTyped
    <3> HIDE DEF t2
    <3> QED
      BY <3>2, <3>4
  <2>2. t.latest = top /\ t.toasts = n /\ t.saves = walletTab.saves
    BY <1>2, TabFieldsAre DEF TabFields
  <2> QED
    BY <2>1, <2>2
<1>6. PageTells(t)
  <2>1. LikeBut(t, walletTab, {"latest", "toasts"}) /\ t.editing = walletTab.editing
    BY <1>2, TabFieldsAre DEF LikeBut, TabFields
  <2> HIDE DEF t
  <2>2. LikeBut(t, walletTab, SilentFields \cup {"editing"})
    BY <2>1 DEF LikeBut, SilentFields
  <2> QED
    BY <1>2, <2>1, <2>2, PageAlike
<1> HIDE DEF t
<1>7. /\ walletTab' = t
      /\ UNCHANGED <<tx, history, calls, coins, coinCall, deposits, terms, exporting, walletVisit>>
  BY <1>1 DEF OnlyWallet
<1>8. WalletTyped'
  BY <1>5, <1>7 DEF WalletInv, WalletTyped, HistoryTyped
<1>9. RowsTell' /\ FundsTell' /\ ExportTells'
  BY <1>7 DEF WalletInv, RowsTell, FundsTell, ExportTells
<1>10. HubKeeps
  BY <1>7 DEF HubKeeps, Confirmed
<1>11. PageTells(walletTab)'
  BY <1>6, <1>7, <1>10, KeptPage
<1>12. ToastsTell'
  <2>1. ~Due'
    BY <1>5, <1>7 DEF Due, top
  <2>2. Arrived' = Arrived
    BY <1>7 DEF Arrived
  <2>3. Cardinality(Arrived)' = Cardinality(Arrived)
    BY <2>2
  <2> HIDE DEF Due
  <2> QED
    BY <1>4, <1>5, <1>7, <2>1, <2>3 DEF ToastsTell
<1> QED
  BY <1>8, <1>9, <1>11, <1>12 DEF WalletInv

-----------------------------------------------------------------------------
(* Wallet: steps of the hub.                                               *)

(* A row that comes to the top of the list does not escape an export that  *)
(* is under way: what is still to come stays ahead of it.                  *)
LEMMA TouchFacts ==
  ASSUME WalletInv, NEW i \in TxIds, Touch(i)
  PROVE  /\ HistoryTyped' /\ exporting' \in ExportRow /\ ExportTells'
         /\ history' # <<>> /\ history'[1] = i
         /\ \A k \in DOMAIN history' : history'[k] = i \/ \E m \in DOMAIN history : history'[k] = history[m]
<1>1. HistoryTyped /\ exporting \in ExportRow /\ ExportTells
  BY DEF WalletInv, WalletTyped
<1>2. /\ history' = ToTop(i)
      /\ exporting' = IF exporting.at = "running" THEN [exporting EXCEPT !.moved = @ \cup {i}] ELSE exporting
  BY DEF Touch
<1>3. /\ HistoryTyped' /\ history' # <<>> /\ history'[1] = i
      /\ \A k \in DOMAIN history' : history'[k] = i \/ \E m \in DOMAIN history : history'[k] = history[m]
  BY <1>1, <1>2, TopFacts
<1>4. \A k \in DOMAIN history : history[k] = i \/ \E m \in DOMAIN history' : m >= k /\ history'[m] = history[k]
  BY <1>1, <1>2, TopFacts
<1>5. exporting' \in ExportRow
  BY <1>1, <1>2 DEF ExportRow
<1>6. DOMAIN history \subseteq Nat /\ DOMAIN history' \subseteq Nat /\ exporting.offset \in Nat
  <2>1. history \in Seq(TxIds) /\ history' \in Seq(TxIds)
    BY <1>1, <1>3 DEF HistoryTyped
  <2>2. exporting.offset \in Nat
    BY <1>1 DEF ExportRow
  <2> QED
    BY <2>1, <2>2
<1>7. ExportTells'
  <2>1. CASE exporting.at = "running"
    <3>1. /\ exporting'.at = "running" /\ exporting'.listed = exporting.listed /\ exporting'.rows = exporting.rows
          /\ exporting'.offset = exporting.offset /\ exporting'.moved = exporting.moved \cup {i}
      BY <1>1, <1>2, <2>1 DEF ExportRow
    <3>2. ASSUME NEW r \in exporting.listed \ exporting'.moved
          PROVE  r \in exporting.rows \/ \E k \in DOMAIN history' : k > exporting.offset /\ history'[k] = r
      <4>1. r # i /\ r \in exporting.listed \ exporting.moved
        BY <3>1, <3>2
      <4>2. r \in exporting.rows \/ \E k \in DOMAIN history : k > exporting.offset /\ history[k] = r
        BY <1>1, <2>1, <4>1 DEF ExportTells
      <4>3. ASSUME NEW k \in DOMAIN history, k > exporting.offset, history[k] = r
            PROVE  \E m \in DOMAIN history' : m > exporting.offset /\ history'[m] = r
        <5>1. PICK m \in DOMAIN history' : m >= k /\ history'[m] = r
          BY <1>4, <4>1, <4>3
        <5>2. m > exporting.offset
          BY <1>6, <4>3, <5>1
        <5> QED
          BY <5>1, <5>2
      <4> QED
        BY <4>2, <4>3
    <3> QED
      BY <3>1, <3>2 DEF ExportTells
  <2>2. CASE exporting.at # "running"
    BY <1>1, <1>2, <2>2 DEF ExportTells
  <2> QED
    BY <2>1, <2>2
<1> QED
  BY <1>3, <1>5, <1>7

(* A row that becomes pending, settled or failed, or is made so.           *)
RowStep(i, row) ==
    /\ tx' = [tx EXCEPT ![i] = row] /\ Touch(i)
    /\ UNCHANGED <<coins, deposits, terms, walletVisit>>
    /\ row.type # "none" /\ row.state # "none" /\ (row.type = "incoming" => row.state = "settled")
    /\ tx[i].state # "settled" /\ (tx[i].state # "none" => row.fits = tx[i].fits)
LEMMA RowStepKeeps ==
  ASSUME WalletInv, NEW i \in TxIds, NEW row \in TxRow, RowStep(i, row), ShowsSame
  PROVE  /\ tx' \in [TxIds -> TxRow] /\ HistoryTyped' /\ exporting' \in ExportRow /\ HubKeeps
         /\ RowsTell' /\ FundsTell' /\ ExportTells' /\ ToastsTell'
<1>1. /\ tx \in [TxIds -> TxRow] /\ RowsTell /\ FundsTell /\ ToastsTell /\ HistoryTyped /\ walletTab \in WalletTabRow
  BY DEF WalletInv, WalletTyped
<1>2. /\ HistoryTyped' /\ exporting' \in ExportRow /\ ExportTells'
      /\ history' # <<>> /\ history'[1] = i
      /\ \A k \in DOMAIN history' : history'[k] = i \/ \E m \in DOMAIN history : history'[k] = history[m]
  BY TouchFacts DEF RowStep
<1>3. tx' \in [TxIds -> TxRow] /\ tx'[i] = row /\ \A j \in TxIds : j # i => tx'[j] = tx[j]
  BY <1>1 DEF RowStep
<1>4. HubKeeps
  BY <1>3 DEF RowStep, HubKeeps, Confirmed
<1>5. RowsTell'
  <2>1. \A j \in TxIds : tx'[j].type = "none" => tx'[j].state = "none"
    BY <1>1, <1>3 DEF RowStep, RowsTell
  <2>2. ASSUME NEW k \in DOMAIN history'
        PROVE  /\ tx'[history'[k]].type # "none"
               /\ tx'[history'[k]].type = "incoming" => tx'[history'[k]].state = "settled"
    <3>1. CASE history'[k] = i
      BY <1>3, <3>1 DEF RowStep
    <3>2. CASE history'[k] # i
      <4>1. PICK m \in DOMAIN history : history'[k] = history[m]
        BY <1>2, <3>2
      <4>2. history[m] \in TxIds
        BY <1>1 DEF HistoryTyped
      <4>3. tx'[history'[k]] = tx[history[m]]
        BY <1>3, <3>2, <4>1, <4>2
      <4> QED
        BY <1>1, <4>3 DEF RowsTell
    <3> QED
      BY <3>1, <3>2
  <2> QED
    BY <2>1, <2>2 DEF RowsTell
<1>6. FundsTell'
  BY <1>1 DEF RowStep, FundsTell
<1>7. ToastsTell'
  <2> DEFINE n == Cardinality(Arrived)
  <2>1. n \in Nat /\ i \notin Arrived
    BY ArrivedIsFinite DEF RowStep, Arrived
  <2>2. walletTab.toasts \in Nat /\ walletTab.saves \in Nat
    <3>1. walletTab.toasts \in Nat /\ walletTab.saves \in 0..MaxSaves
      BY <1>1 DEF WalletTabRow
    <3> QED
      BY <3>1 DEF MaxSaves
  <2>3. walletTab.toasts <= walletTab.saves + n
    <3>1. walletTab.toasts + (IF Due THEN 1 ELSE 0) <= walletTab.saves + n
      BY <1>1 DEF ToastsTell
    <3> HIDE DEF Due
    <3> QED
      BY <2>1, <2>2, <3>1
  <2>4. CASE row.type = "incoming"
    <3>1. Arrived' = Arrived \cup {i}
      BY <1>3, <2>4 DEF Arrived, RowStep
    <3>2. Cardinality(Arrived') = n + 1
      BY <2>1, <3>1, ArrivedIsFinite
    <3> HIDE DEF Due, n
    <3> QED
      BY <2>1, <2>2, <2>3, <3>2 DEF ToastsTell, ShowsSame
  <2>5. CASE row.type # "incoming"
    <3>1. Arrived' = Arrived
      BY <1>1, <1>3, <2>1, <2>5 DEF Arrived
    <3>2. Cardinality(Arrived') = n /\ ~Due'
      BY <1>2, <1>3, <2>5, <3>1 DEF Due
    <3> HIDE DEF Due, n
    <3> QED
      BY <2>1, <2>2, <2>3, <3>2 DEF ToastsTell, ShowsSame
  <2> QED
    BY <2>4, <2>5
<1> QED
  BY <1>2, <1>3, <1>4, <1>5, <1>6, <1>7

LEMMA RowBecomesKeeps ==
  ASSUME WalletInv, NEW i \in TxIds, PaymentSettles(i) \/ PaymentFails(i) \/ InvoiceSettles(i)
  PROVE  WalletInv'
<1>1. PICK state \in {"settled", "failed"} :
        /\ RowBecomes(i, state) /\ tx[i].state \in {"pending", "open"}
        /\ tx[i].type = "outgoing" \/ state = "settled"
  BY DEF PaymentSettles, PaymentFails, InvoiceSettles
<1> DEFINE row == [tx[i] EXCEPT !.state = state]
<1>2. tx \in [TxIds -> TxRow] /\ RowsTell
  BY DEF WalletInv, WalletTyped
<1>3. row \in TxRow /\ row.type = tx[i].type /\ row.state = state /\ row.fits = tx[i].fits
  BY <1>1, <1>2 DEF TxRow, TxStates
<1>4. tx' = [tx EXCEPT ![i] = row] /\ Touch(i) /\ walletTab' = walletTab
      /\ UNCHANGED <<calls, coins, coinCall, deposits, terms, walletVisit>>
  BY <1>1, <1>2 DEF RowBecomes
<1>5. tx[i].type # "none"
  BY <1>1, <1>2 DEF RowsTell
<1> HIDE DEF row
<1>6. RowStep(i, row) /\ ShowsSame
  BY <1>1, <1>3, <1>4, <1>5 DEF RowStep, ShowsSame
<1>7. /\ tx' \in [TxIds -> TxRow] /\ HistoryTyped' /\ exporting' \in ExportRow /\ HubKeeps
      /\ RowsTell' /\ FundsTell' /\ ExportTells' /\ ToastsTell'
  BY <1>3, <1>6, RowStepKeeps
<1>8. PageTells(walletTab)'
  BY <1>4, <1>7, KeptPage, TabTyped
<1>9. WalletTyped'
  BY <1>4, <1>7 DEF WalletInv, WalletTyped
<1> QED
  BY <1>7, <1>8, <1>9 DEF WalletInv

LEMMA PaymentArrivesKeeps ==
  ASSUME WalletInv, PaymentArrives
  PROVE  WalletInv'
<1> DEFINE i == NextId
           row == OldTx("incoming", "settled")
<1>1. i \in TxIds /\ tx[i].type = "none"
  BY NextIdIsFree DEF PaymentArrives
<1>2. tx[i].state = "none"
  BY <1>1 DEF WalletInv, RowsTell
<1>3. row \in TxRow /\ row.type = "incoming" /\ row.state = "settled"
  BY WalletBasics DEF OldTx, NoTx, TxRow, TxStates
<1>4. tx' = [tx EXCEPT ![i] = row] /\ Touch(i) /\ walletTab' = walletTab
      /\ UNCHANGED <<calls, coins, coinCall, deposits, terms, walletVisit>>
  BY DEF PaymentArrives
<1> HIDE DEF i, row
<1>5. RowStep(i, row) /\ ShowsSame
  BY <1>1, <1>2, <1>3, <1>4 DEF RowStep, ShowsSame
<1>6. /\ tx' \in [TxIds -> TxRow] /\ HistoryTyped' /\ exporting' \in ExportRow /\ HubKeeps
      /\ RowsTell' /\ FundsTell' /\ ExportTells' /\ ToastsTell'
  BY <1>1, <1>3, <1>5, RowStepKeeps
<1>7. PageTells(walletTab)'
  BY <1>4, <1>6, KeptPage, TabTyped
<1>8. WalletTyped'
  BY <1>4, <1>6 DEF WalletInv, WalletTyped
<1> QED
  BY <1>6, <1>7, <1>8 DEF WalletInv

(* A payment is refused, or its row is made and the page waits for it.     *)
LEMMA PayInvoiceKeeps ==
  ASSUME WalletInv, NEW inv \in Ids, PayInvoice(inv), walletTab.page \in {"confirm", "zero", "lnurl"}
  PROVE  WalletInv'
<1>0. walletTab \in WalletTabRow /\ PageTells(walletTab)
  BY TabTyped
<1>1. CASE PayRefuses(inv)
  <2> DEFINE t == [walletTab EXCEPT !.error = TRUE]
  <2>1. OnlyWallet(t)
    BY <1>1 DEF PayInvoice
  <2>2. t \in WalletTabRow /\ t.toasts = walletTab.toasts /\ t.saves = walletTab.saves /\ t.latest = walletTab.latest
    <3>1. t \in WalletTabRow
      <4>1. TRUE \in BOOLEAN
        BY <1>0
      <4> QED
        BY <1>0, <4>1, TabFieldTyped
    <3>2. t.toasts = walletTab.toasts /\ t.saves = walletTab.saves /\ t.latest = walletTab.latest
      BY <1>0, TabFieldsAre DEF TabFields
    <3> QED
      BY <3>1, <3>2
  <2>3. PageTells(t)
    <3>1. /\ t.page = walletTab.page /\ t.of = walletTab.of /\ t.call = walletTab.call
          /\ t.error = TRUE /\ t.seen = walletTab.seen /\ t.done = walletTab.done
          /\ t.over = walletTab.over /\ t.before = walletTab.before /\ t.probe = walletTab.probe
          /\ t.probing = walletTab.probing /\ t.hint = walletTab.hint
          /\ t.editing = walletTab.editing /\ t.saves = walletTab.saves
      BY <1>0, TabFieldsAre DEF TabFields
    <3> HIDE DEF t
    <3>2. DepositTells(walletTab) /\ ProbeTells(walletTab)
      BY <1>0 DEF PageTells
    <3>3. DepositTells(t)
      BY <3>2, <3>1, DepositAlike
    <3>4. ProbeTells(t)
      BY <3>2, <3>1, ProbeAlike
    <3>5. InvoiceTells(walletTab) => InvoiceTells(t)
      BY <3>1, InvoiceAlike
    <3> QED
      BY <1>0, <3>1, <3>3, <3>4, <3>5 DEF PageTells
  <2> QED
    BY <2>1, <2>2, <2>3, OnlyWalletKeeps
<1>2. CASE ~PayRefuses(inv)
  <2> DEFINE i == NextId
             row == [OldTx("outgoing", "pending") EXCEPT !.inv = inv]
             t == [walletTab EXCEPT !.call = i, !.error = FALSE]
  <2>1. i \in TxIds /\ tx[i].type = "none"
    BY <1>2, NextIdIsFree DEF PayInvoice
  <2>2. tx[i].state = "none"
    BY <2>1 DEF WalletInv, RowsTell
  <2>3. row \in TxRow /\ row.type = "outgoing" /\ row.state = "pending"
    BY WalletBasics DEF OldTx, NoTx, TxRow, TxStates
  <2>4. /\ tx' = [tx EXCEPT ![i] = row] /\ Touch(i) /\ walletTab' = t /\ calls' = calls \cup {i}
        /\ UNCHANGED <<coins, coinCall, deposits, terms, walletVisit>>
    BY <1>2 DEF PayInvoice
  <2> HIDE DEF i, row
  <2>5. t \in WalletTabRow /\ t.toasts = walletTab.toasts /\ t.saves = walletTab.saves /\ t.latest = walletTab.latest
    <3>1. t \in WalletTabRow
      <4> DEFINE t1 == [walletTab EXCEPT !.call = i]
                 t2 == [t1 EXCEPT !.error = FALSE]
      <4>1. i \in Ids /\ FALSE \in BOOLEAN
        BY <1>0, <2>1, WalletBasics
      <4>2. t = t2
        BY <1>0, <2>1, WalletBasics, TabFieldsAre DEF TabFields
      <4> HIDE DEF t
      <4>3. t1 \in WalletTabRow
        BY <1>0, <2>1, WalletBasics, <4>1, TabFieldTyped
      <4> HIDE DEF t1
      <4>4. t2 \in WalletTabRow
        BY <4>3, <4>1, TabFieldTyped
      <4> HIDE DEF t2
      <4> QED
        BY <4>2, <4>4
    <3>2. t.toasts = walletTab.toasts /\ t.saves = walletTab.saves /\ t.latest = walletTab.latest
      BY <1>0, <2>1, WalletBasics, TabFieldsAre DEF TabFields
    <3> QED
      BY <3>1, <3>2
  <2>6. PageTells(t)
    <3>1. /\ t.page = walletTab.page /\ t.of = walletTab.of /\ t.call = i /\ t.error = FALSE
          /\ t.seen = walletTab.seen /\ t.done = walletTab.done /\ t.over = walletTab.over
          /\ t.before = walletTab.before /\ t.probe = walletTab.probe
          /\ t.probing = walletTab.probing /\ t.hint = walletTab.hint
          /\ t.editing = walletTab.editing /\ t.saves = walletTab.saves
      BY <1>0, TabFieldsAre DEF TabFields
    <3> HIDE DEF t
    <3>2. DepositTells(walletTab) /\ ProbeTells(walletTab)
      BY <1>0 DEF PageTells
    <3>3. DepositTells(t)
      BY <3>2, <3>1, DepositAlike
    <3>4. ProbeTells(t)
      BY <3>2, <3>1, ProbeAlike
    <3>5. InvoiceTells(walletTab) => InvoiceTells(t)
      BY <3>1, InvoiceAlike
    <3> QED
      BY <1>0, <3>1, <3>3, <3>4, <3>5 DEF PageTells
  <2> HIDE DEF t
  <2>7. RowStep(i, row) /\ ShowsSame
    BY <2>1, <2>2, <2>3, <2>4, <2>5 DEF RowStep, ShowsSame
  <2>8. /\ tx' \in [TxIds -> TxRow] /\ HistoryTyped' /\ exporting' \in ExportRow /\ HubKeeps
        /\ RowsTell' /\ FundsTell' /\ ExportTells' /\ ToastsTell'
    BY <2>1, <2>3, <2>7, RowStepKeeps
  <2>9. PageTells(walletTab)'
    BY <2>4, <2>6, <2>8, KeptPage
  <2>10. WalletTyped'
    BY <2>1, <2>4, <2>5, <2>8 DEF WalletInv, WalletTyped
  <2> QED
    BY <2>8, <2>9, <2>10 DEF WalletInv
<1> QED
  BY <1>1, <1>2

LEMMA PayKeeps ==
  ASSUME WalletInv, ConfirmPayment \/ ZeroAmount \/ LnurlPay
  PROVE  WalletInv'
<1>1. FreeIds # {} => NextId \in Ids
  BY NextIdIsFree, WalletBasics
<1>2. \E inv \in Ids : PayInvoice(inv) /\ walletTab.page \in {"confirm", "zero", "lnurl"}
  BY <1>1, WalletBasics DEF ConfirmPayment, ZeroAmount, LnurlPay
<1> QED
  BY <1>2, PayInvoiceKeeps
(* An invoice that is made is not listed and has not arrived.              *)
LEMMA NewInvoiceKeeps ==
  ASSUME WalletInv, NEW a, NEW t, NewInvoice(a, t), t \in WalletTabRow,
         t.toasts = walletTab.toasts, t.saves = walletTab.saves, t.latest = walletTab.latest, PageTells(walletTab)'
  PROVE  WalletInv'
<1> DEFINE i == NextId
           row == [NoTx EXCEPT !.type = "incoming", !.state = "open", !.fits = CanReceive(a)]
<1>1. i \in TxIds /\ tx[i].type = "none"
  BY NextIdIsFree DEF NewInvoice
<1>2. /\ tx \in [TxIds -> TxRow] /\ RowsTell /\ FundsTell /\ ToastsTell /\ ExportTells /\ HistoryTyped
      /\ calls \in SUBSET TxIds /\ coins \in CoinsRow /\ coinCall \in CoinCallRow
      /\ deposits \in DepositsRow /\ terms \in TermsRow /\ exporting \in ExportRow /\ walletVisit \in WalletVisits
  BY DEF WalletInv, WalletTyped
<1>3. row \in TxRow /\ row.type = "incoming" /\ row.state = "open"
  <2>1. CanReceive(a) \in BOOLEAN
    BY <1>2 DEF CanReceive, IsJitInvoice, ProviderTakes, TermsRow
  <2> QED
    BY <2>1, WalletBasics DEF NoTx, TxRow, TxStates
<1>4. /\ tx' = [tx EXCEPT ![i] = row] /\ walletTab' = t
      /\ UNCHANGED <<history, calls, coins, coinCall, deposits, terms, exporting, walletVisit>>
  BY DEF NewInvoice
<1> HIDE DEF i, row
<1>6. tx' \in [TxIds -> TxRow] /\ tx'[i] = row /\ \A j \in TxIds : j # i => tx'[j] = tx[j]
  BY <1>1, <1>2, <1>3, <1>4
<1>7. \A k \in DOMAIN history : history[k] \in TxIds /\ history[k] # i
  BY <1>1, <1>2 DEF HistoryTyped, RowsTell
<1>8. WalletTyped'
  BY <1>2, <1>4, <1>6 DEF WalletTyped, HistoryTyped
<1>9. RowsTell'
  BY <1>2, <1>3, <1>4, <1>6, <1>7 DEF RowsTell
<1>10. FundsTell' /\ ExportTells'
  BY <1>2, <1>4 DEF FundsTell, ExportTells
<1>11. ToastsTell'
  <2>1. Arrived' = Arrived
    <3>1. tx[i].state = "none"
      BY <1>1, <1>2 DEF RowsTell
    <3> QED
      BY <1>3, <1>6, <3>1 DEF Arrived
  <2>2. Due' => Due
    <3>1. CASE history = <<>>
      BY <1>4, <3>1 DEF Due
    <3>2. CASE history # <<>>
      <4>1. 1 \in DOMAIN history
        BY <1>2, <3>2 DEF HistoryTyped
      <4>2. tx'[history[1]] = tx[history[1]]
        BY <1>6, <1>7, <4>1
      <4> QED
        BY <1>4, <4>2 DEF Due
    <3> QED
      BY <3>1, <3>2
  <2>3. ShowsSame
    BY <1>4 DEF ShowsSame
  <2>4. WalletTyped /\ ToastsTell
    BY DEF WalletInv
  <2> QED
    BY <2>1, <2>2, <2>3, <2>4, ToastsStay
<1> QED
  BY <1>8, <1>9, <1>10, <1>11 DEF WalletInv

(* What a new invoice leaves alone.                                        *)
LEMMA InvoiceHubKeeps ==
  ASSUME WalletInv, NEW a, NEW t, NewInvoice(a, t)
  PROVE  /\ HubKeeps /\ NextId \in TxIds /\ tx'[NextId].state = "open" /\ tx'[NextId].fits = CanReceive(a)
<1>1. NextId \in TxIds /\ tx[NextId].type = "none"
  BY NextIdIsFree DEF NewInvoice
<1>2. tx[NextId].state = "none"
  BY <1>1 DEF WalletInv, RowsTell
<1>3. tx \in [TxIds -> TxRow]
  BY DEF WalletInv, WalletTyped
<1>4. /\ tx'[NextId].state = "open" /\ tx'[NextId].fits = CanReceive(a)
      /\ \A j \in TxIds : j # NextId => tx'[j] = tx[j]
  BY <1>1, <1>3 DEF NewInvoice, NoTx
<1> QED
  BY <1>1, <1>2, <1>4 DEF NewInvoice, HubKeeps, Confirmed

(* A bound that was rounded to a cent lets through half a cent too much.   *)
LEMMA CentBound ==
  ASSUME NEW v \in Nat, NEW m \in Nat, NEW c \in Nat, c > 0, v <= (2 * m + c) \div (2 * c)
  PROVE  2 * (v * c - m) <= c
<1> DEFINE n == 2 * m + c
           d == 2 * c
           q == n \div d
<1>1. n \in Nat /\ d \in Nat /\ d > 0
  OBVIOUS
<1>2. q \in Int /\ d * q <= n
  <2> HIDE DEF n, d
  <2> QED
    BY <1>1
<1>3. d * v <= d * q
  <2> HIDE DEF n, d
  <2>1. v <= q
    BY DEF n, d
  <2> HIDE DEF q
  <2> QED
    BY <1>1, <1>2, <2>1
<1>4. d * v = 2 * (v * c)
  OBVIOUS
<1>5. v * c \in Nat
  OBVIOUS
<1> HIDE DEF q
<1>6. d * v \in Int /\ d * q \in Int
  BY <1>1, <1>2
<1> QED
  BY <1>1, <1>2, <1>3, <1>4, <1>5, <1>6

(* The form lets through what the hub can receive, but for a public        *)
(* channel and the rounding to cents; what it lets through and the         *)
(* provider refuses is too small, or an amount in cents.                   *)
LEMMA FormFacts ==
  ASSUME WalletInv, NEW v \in Nat, FormTakes(v)
  PROVE  LET a == TypedSats(v) IN
         /\ a \in Nat /\ JitMaximumReceive \in Nat
         /\ IsJitInvoice(a) /\ ~ProviderTakes(a) => LikelyTooSmallForNewChannel(a) \/ walletTab.fiat
         /\ ~(IsJitInvoice(a) /\ ~ProviderTakes(a)) =>
                CanReceive(a) \/ terms.public \/ (a > JitMaximumReceive /\ 2 * (a - JitMaximumReceive) <= CentSats)
<1> DEFINE a == TypedSats(v)
           top == JitMaximumReceive
           low == JitMinimumReceive
<1>1. /\ terms \in TermsRow /\ walletTab \in WalletTabRow
  BY DEF WalletInv, WalletTyped
<1>2. /\ terms.jit \in BOOLEAN /\ terms.public \in BOOLEAN /\ terms.receivable \in Nat /\ walletTab.fiat \in BOOLEAN
  BY <1>1 DEF TermsRow, WalletTabRow
<1>3. /\ JitTerms.min \in Nat /\ JitTerms.max \in Nat /\ JitTerms.min > 0 /\ CentSats \in Nat /\ CentSats > 0
  BY WalletBasics
<1>4. top \in Nat /\ low \in Nat
  BY <1>2, <1>3 DEF JitMaximumReceive, JitMinimumReceive
<1>5. CASE walletTab.fiat
  <2>1. a = v * CentSats
    BY <1>5 DEF TypedSats
  <2>2. v <= (2 * top + CentSats) \div (2 * CentSats)
    BY <1>5 DEF FormTakes, ModeBound
  <2>3. a \in Nat
    BY <1>3, <2>1
  <2>4. 2 * (a - top) <= CentSats
    <3> HIDE DEF a, top
    <3> QED
      BY <1>3, <1>4, <2>1, <2>2, CentBound
  <2> HIDE DEF a
  <2>5. ~(IsJitInvoice(a) /\ ~ProviderTakes(a)) => CanReceive(a) \/ terms.public \/ (a > top /\ 2 * (a - top) <= CentSats)
    BY <1>2, <1>3, <1>4, <2>3, <2>4 DEF CanReceive, IsJitInvoice, ProviderTakes, JitMaximumReceive
  <2> QED
    BY <1>4, <1>5, <2>3, <2>5 DEF a
<1>6. CASE ~walletTab.fiat
  <2>1. a = v /\ low <= v /\ v <= top
    BY <1>6 DEF TypedSats, FormTakes, ModeBound
  <2> QED
    BY <1>2, <1>3, <1>4, <2>1 DEF CanReceive, IsJitInvoice, ProviderTakes, JitMaximumReceive, JitMinimumReceive,
       LikelyTooSmallForNewChannel
<1> QED
  BY <1>5, <1>6

LEMMA LargestOfTwo ==
  ASSUME NEW x \in Int
  PROVE  /\ Max({0, x}) \in Nat
         /\ x > 0 => Max({0, x}) = x
<1>1. \E m \in {0, x} : \A y \in {0, x} : m >= y
  <2>1. CASE x >= 0
    BY <2>1
  <2>2. CASE x < 0
    BY <2>2
  <2> QED
    BY <2>1, <2>2
<1>2. Max({0, x}) \in {0, x} /\ \A y \in {0, x} : Max({0, x}) >= y
  BY <1>1 DEF Max
<1> HIDE DEF Max
<1> QED
  BY <1>2

LEMMA SubmitInvoiceKeeps ==
  ASSUME WalletInv, NEW v \in Receipts, SubmitInvoice(v)
  PROVE  WalletInv'
<1> DEFINE a == TypedSats(v)
           over == Max({0, a - JitMaximumReceive})
<1>1. /\ walletTab \in WalletTabRow /\ PageTells(walletTab) /\ walletTab.page = "invoice" /\ walletTab.of = 0
      /\ FormTakes(v) /\ v \in Nat
  BY TabTyped, WalletAssumption DEF SubmitInvoice
<1>2. /\ a \in Nat /\ JitMaximumReceive \in Nat
      /\ IsJitInvoice(a) /\ ~ProviderTakes(a) => LikelyTooSmallForNewChannel(a) \/ walletTab.fiat
      /\ ~(IsJitInvoice(a) /\ ~ProviderTakes(a)) =>
             CanReceive(a) \/ terms.public \/ (a > JitMaximumReceive /\ 2 * (a - JitMaximumReceive) <= CentSats)
  BY <1>1, FormFacts
<1>3. /\ over \in Nat /\ (a > JitMaximumReceive => over = a - JitMaximumReceive)
  BY <1>2, LargestOfTwo
<1>4. /\ IsJitInvoice(a) /\ ~ProviderTakes(a) =>
          OnlyWallet([walletTab EXCEPT !.error = TRUE, !.hint = LikelyTooSmallForNewChannel(a) \/ walletTab.fiat])
      /\ ~(IsJitInvoice(a) /\ ~ProviderTakes(a)) =>
          NewInvoice(a, [walletTab EXCEPT !.of = NextId, !.error = FALSE, !.over = over])
  BY DEF SubmitInvoice
<1> HIDE DEF a, over
<1>5. CASE IsJitInvoice(a) /\ ~ProviderTakes(a)
  <2> DEFINE t == [walletTab EXCEPT !.error = TRUE, !.hint = TRUE]
  <2>1. OnlyWallet(t)
    BY <1>2, <1>4, <1>5
  <2>2. t \in WalletTabRow /\ t.toasts = walletTab.toasts /\ t.saves = walletTab.saves /\ t.latest = walletTab.latest
    <3>1. t \in WalletTabRow
      <4> DEFINE t1 == [walletTab EXCEPT !.error = TRUE]
                 t2 == [t1 EXCEPT !.hint = TRUE]
      <4>1. TRUE \in BOOLEAN /\ TRUE \in BOOLEAN
        BY <1>1
      <4>2. t = t2
        BY <1>1, TabFieldsAre DEF TabFields
      <4> HIDE DEF t
      <4>3. t1 \in WalletTabRow
        BY <1>1, <4>1, TabFieldTyped
      <4> HIDE DEF t1
      <4>4. t2 \in WalletTabRow
        BY <4>3, <4>1, TabFieldTyped
      <4> HIDE DEF t2
      <4> QED
        BY <4>2, <4>4
    <3>2. t.toasts = walletTab.toasts /\ t.saves = walletTab.saves /\ t.latest = walletTab.latest
      BY <1>1, TabFieldsAre DEF TabFields
    <3> QED
      BY <3>1, <3>2
  <2>3. PageTells(t)
    <3>1. /\ t.page = walletTab.page /\ t.of = walletTab.of /\ t.call = walletTab.call
          /\ t.error = TRUE /\ t.seen = walletTab.seen /\ t.done = walletTab.done
          /\ t.over = walletTab.over /\ t.before = walletTab.before /\ t.probe = walletTab.probe
          /\ t.probing = walletTab.probing /\ t.hint = TRUE /\ t.editing = walletTab.editing
          /\ t.saves = walletTab.saves
      BY <1>1, TabFieldsAre DEF TabFields
    <3> HIDE DEF t
    <3>2. DepositTells(walletTab) /\ ProbeTells(walletTab)
      BY <1>1 DEF PageTells
    <3>3. DepositTells(t)
      BY <3>2, <3>1, DepositAlike
    <3>4. ProbeTells(t)
      BY <3>2, <3>1, ProbeAlike
    <3>5. InvoiceTells(walletTab) => InvoiceTells(t)
      BY <3>1, InvoiceAlike
    <3> QED
      BY <1>1, <3>1, <3>3, <3>4, <3>5 DEF PageTells
  <2> QED
    BY <2>1, <2>2, <2>3, OnlyWalletKeeps
<1>6. CASE ~(IsJitInvoice(a) /\ ~ProviderTakes(a))
  <2> DEFINE i == NextId
             t == [walletTab EXCEPT !.of = i, !.error = FALSE, !.over = over]
  <2>1. NewInvoice(a, t)
    BY <1>4, <1>6
  <2>2. HubKeeps /\ i \in TxIds /\ tx'[i].state = "open" /\ tx'[i].fits = CanReceive(a)
    BY <2>1, InvoiceHubKeeps
  <2> HIDE DEF i
  <2>3. /\ t \in WalletTabRow /\ t.toasts = walletTab.toasts /\ t.saves = walletTab.saves /\ t.latest = walletTab.latest
        /\ t.page = "invoice" /\ t.of = i /\ t.done = walletTab.done /\ ~t.error /\ t.over = over /\ t.call = walletTab.call
        /\ t.before = walletTab.before /\ t.probe = walletTab.probe /\ t.probing = walletTab.probing
        /\ t.editing = walletTab.editing
    <3>1. t \in WalletTabRow
      <4> DEFINE t1 == [walletTab EXCEPT !.of = i]
                 t2 == [t1 EXCEPT !.error = FALSE]
                 t3 == [t2 EXCEPT !.over = over]
      <4>1. i \in Ids /\ FALSE \in BOOLEAN /\ over \in Nat
        BY <1>3, <2>2, WalletBasics
      <4>2. t = t3
        BY <1>1, TabFieldsAre DEF TabFields
      <4> HIDE DEF t
      <4>3. t1 \in WalletTabRow
        BY <1>1, <4>1, TabFieldTyped
      <4> HIDE DEF t1
      <4>4. t2 \in WalletTabRow
        BY <4>3, <4>1, TabFieldTyped
      <4> HIDE DEF t2
      <4>5. t3 \in WalletTabRow
        BY <4>4, <4>1, TabFieldTyped
      <4> HIDE DEF t3
      <4> QED
        BY <4>2, <4>5
    <3>2. /\ t.toasts = walletTab.toasts /\ t.saves = walletTab.saves /\ t.latest = walletTab.latest
          /\ t.page = "invoice" /\ t.of = i /\ t.done = walletTab.done /\ ~t.error /\ t.over = over /\ t.call = walletTab.call
          /\ t.before = walletTab.before /\ t.probe = walletTab.probe /\ t.probing = walletTab.probing
          /\ t.editing = walletTab.editing
      BY <1>1, TabFieldsAre DEF TabFields
    <3> QED
      BY <3>1, <3>2
  <2> HIDE DEF t
  <2>4. walletTab' = t /\ terms' = terms
    BY <2>1 DEF NewInvoice
  <2>5. InvoiceTells(walletTab)'
    <3>1. ~t.done
      BY <1>1, <2>3 DEF PageTells
    <3>2. CanReceive(a) \/ terms.public \/ (over > 0 /\ 2 * over <= CentSats)
      BY <1>2, <1>3, <1>6
    <3> QED
      BY <2>2, <2>3, <2>4, <3>1, <3>2 DEF InvoiceTells
  <2>6. DepositTells(walletTab)' /\ ProbeTells(walletTab)'
    BY <1>1, <2>2, <2>3, <2>4
       DEF PageTells, HubKeeps, DepositTells, ProbeTells, ProbeIsRight, IsJitInvoice, ProviderTakes
  <2>7. PageTells(walletTab)'
    BY <1>1, <2>2, <2>3, <2>4, <2>5, <2>6, WalletBasics DEF PageTells
  <2> QED
    BY <2>1, <2>3, <2>7, NewInvoiceKeeps
<1> QED
  BY <1>5, <1>6

LEMMA SubmitCryptoKeeps ==
  ASSUME WalletInv, NEW a \in Receipts, SubmitCrypto(a)
  PROVE  WalletInv'
<1> DEFINE i == NextId
           t == [walletTab EXCEPT !.of = i]
<1>1. /\ walletTab \in WalletTabRow /\ PageTells(walletTab) /\ walletTab.page = "crypto" /\ walletTab.of = 0
      /\ NewInvoice(a, t) /\ CanReceive(a)
  BY TabTyped DEF SubmitCrypto, CanReceive
<1>2. HubKeeps /\ i \in TxIds /\ tx'[i].state = "open" /\ tx'[i].fits
  BY <1>1, InvoiceHubKeeps
<1> HIDE DEF i
<1>3. /\ t \in WalletTabRow /\ t.toasts = walletTab.toasts /\ t.saves = walletTab.saves /\ t.latest = walletTab.latest
      /\ t.page = "crypto" /\ t.of = i /\ t.done = walletTab.done
      /\ t.before = walletTab.before /\ t.probe = walletTab.probe /\ t.probing = walletTab.probing
      /\ t.editing = walletTab.editing
  <2>1. t \in WalletTabRow
    BY <1>1, <1>2, WalletBasics, TabFieldTyped
  <2>2. /\ t.toasts = walletTab.toasts /\ t.saves = walletTab.saves /\ t.latest = walletTab.latest
        /\ t.page = "crypto" /\ t.of = i /\ t.done = walletTab.done
        /\ t.before = walletTab.before /\ t.probe = walletTab.probe /\ t.probing = walletTab.probing
        /\ t.editing = walletTab.editing
    BY <1>1, TabFieldsAre DEF TabFields
  <2> QED
    BY <2>1, <2>2
<1> HIDE DEF t
<1>4. walletTab' = t /\ terms' = terms
  BY <1>1 DEF NewInvoice
<1>5. InvoiceTells(walletTab)'
  BY <1>1, <1>2, <1>3, <1>4 DEF InvoiceTells, PageTells
<1>6. DepositTells(walletTab)' /\ ProbeTells(walletTab)'
  BY <1>1, <1>2, <1>3, <1>4 DEF PageTells, HubKeeps, DepositTells, ProbeTells, ProbeIsRight, IsJitInvoice, ProviderTakes
<1>7. PageTells(walletTab)'
  BY <1>1, <1>2, <1>3, <1>4, <1>5, <1>6, WalletBasics DEF PageTells
<1> QED
  BY <1>1, <1>3, <1>7, NewInvoiceKeeps

(* The alert asks for an invoice of the least amount.                      *)
LEMMA ProbeKeeps ==
  ASSUME WalletInv, Probe
  PROVE  WalletInv'
<1>1. /\ walletTab \in WalletTabRow /\ PageTells(walletTab) /\ walletTab.page = "receive" /\ walletTab.probe = "loading"
  BY TabTyped DEF Probe
<1>2. terms.jit
  BY <1>1 DEF PageTells, ProbeTells
<1>3. CASE (IsJitInvoice(JitTerms.min) => ProviderTakes(JitTerms.min)) /\ NewInvoice(JitTerms.min, [walletTab EXCEPT !.probing = "made"])
  <2> DEFINE t == [walletTab EXCEPT !.probing = "made"]
  <2>1. t \in WalletTabRow /\ t.toasts = walletTab.toasts /\ t.saves = walletTab.saves /\ t.latest = walletTab.latest
    <3>1. t \in WalletTabRow
      <4>1. "made" \in Probings
        BY <1>1 DEF Probings
      <4> QED
        BY <1>1, <4>1, TabFieldTyped
    <3>2. t.toasts = walletTab.toasts /\ t.saves = walletTab.saves /\ t.latest = walletTab.latest
      BY <1>1, TabFieldsAre DEF TabFields
    <3> QED
      BY <3>1, <3>2
  <2>2. PageTells(t)
    <3>1. /\ t.page = walletTab.page /\ t.of = walletTab.of /\ t.call = walletTab.call
          /\ t.error = walletTab.error /\ t.seen = walletTab.seen /\ t.done = walletTab.done
          /\ t.over = walletTab.over /\ t.before = walletTab.before /\ t.probe = walletTab.probe
          /\ t.probing = "made" /\ t.hint = walletTab.hint /\ t.editing = walletTab.editing
          /\ t.saves = walletTab.saves
      BY <1>1, <1>2, <1>3, TabFieldsAre DEF TabFields
    <3> HIDE DEF t
    <3>2. DepositTells(walletTab) /\ ProbeTells(walletTab)
      BY <1>1, <1>2, <1>3 DEF PageTells
    <3>3. DepositTells(t)
      BY <3>2, <3>1, DepositAlike
    <3>4. ProbeTells(t)
      BY <1>1, <1>2, <1>3, <3>1, <3>2 DEF ProbeTells, ProbeIsRight
    <3>5. InvoiceTells(walletTab) => InvoiceTells(t)
      BY <3>1, InvoiceAlike
    <3> QED
      BY <1>1, <1>2, <1>3, <3>1, <3>3, <3>4, <3>5 DEF PageTells
  <2>3. HubKeeps /\ walletTab' = t
    BY <1>3, InvoiceHubKeeps DEF NewInvoice
  <2> HIDE DEF t
  <2>4. PageTells(walletTab)'
    BY <2>2, <2>3, KeptPage
  <2> QED
    BY <1>3, <2>1, <2>4, NewInvoiceKeeps DEF t
<1>4. CASE OnlyWallet([walletTab EXCEPT !.probing = "refused"])
  <2> DEFINE t == [walletTab EXCEPT !.probing = "refused"]
  <2>1. t \in WalletTabRow /\ t.toasts = walletTab.toasts /\ t.saves = walletTab.saves /\ t.latest = walletTab.latest
    <3>1. t \in WalletTabRow
      <4>1. "refused" \in Probings
        BY <1>1 DEF Probings
      <4> QED
        BY <1>1, <4>1, TabFieldTyped
    <3>2. t.toasts = walletTab.toasts /\ t.saves = walletTab.saves /\ t.latest = walletTab.latest
      BY <1>1, TabFieldsAre DEF TabFields
    <3> QED
      BY <3>1, <3>2
  <2>2. PageTells(t)
    <3>1. /\ t.page = walletTab.page /\ t.of = walletTab.of /\ t.call = walletTab.call
          /\ t.error = walletTab.error /\ t.seen = walletTab.seen /\ t.done = walletTab.done
          /\ t.over = walletTab.over /\ t.before = walletTab.before /\ t.probe = walletTab.probe
          /\ t.probing = "refused" /\ t.hint = walletTab.hint /\ t.editing = walletTab.editing
          /\ t.saves = walletTab.saves
      BY <1>1, <1>2, TabFieldsAre DEF TabFields
    <3> HIDE DEF t
    <3>2. DepositTells(walletTab) /\ ProbeTells(walletTab)
      BY <1>1, <1>2 DEF PageTells
    <3>3. DepositTells(t)
      BY <3>2, <3>1, DepositAlike
    <3>4. ProbeTells(t)
      BY <1>1, <1>2, <3>1, <3>2 DEF ProbeTells
    <3>5. InvoiceTells(walletTab) => InvoiceTells(t)
      BY <3>1, InvoiceAlike
    <3> QED
      BY <1>1, <1>2, <3>1, <3>3, <3>4, <3>5 DEF PageTells
  <2> QED
    BY <1>4, <2>1, <2>2, OnlyWalletKeeps
<1> QED
  BY <1>3, <1>4 DEF Probe

(* A step of the hub about coins or deposits alone.                        *)
LEMMA HubStepKeeps ==
  ASSUME WalletInv, NEW t, t \in WalletTabRow, PageTells(t), walletTab' = t,
         t.toasts = walletTab.toasts, t.saves = walletTab.saves, t.latest = walletTab.latest, HubKeeps,
         UNCHANGED <<tx, history, calls, exporting, walletVisit>>,
         coins' \in CoinsRow, coinCall' \in CoinCallRow, deposits' \in DepositsRow, FundsTell'
  PROVE  WalletInv'
<1>1. WalletTyped'
  BY DEF WalletInv, WalletTyped, HistoryTyped, HubKeeps
<1>2. PageTells(walletTab)'
  BY KeptPage
<1>3. RowsTell' /\ ExportTells'
  BY DEF WalletInv, RowsTell, ExportTells
<1>4. ToastsTell'
  <2>1. Arrived' = Arrived
    BY DEF Arrived
  <2>2. Due' => Due
    BY DEF Due
  <2>3. ShowsSame
    BY DEF ShowsSame
  <2> QED
    BY <2>1, <2>2, <2>3, ToastsStay DEF WalletInv
<1> QED
  BY <1>1, <1>2, <1>3, <1>4 DEF WalletInv

LEMMA RedeemFundsKeeps ==
  ASSUME WalletInv, NEW page \in {"onchain", "withdraw"}, NEW all \in BOOLEAN, RedeemFunds(page, all)
  PROVE  WalletInv'
<1>1. walletTab \in WalletTabRow /\ PageTells(walletTab) /\ walletTab.page \in {"onchain", "withdraw"}
  BY TabTyped DEF RedeemFunds
<1>2. CASE coins.funds = 0
  <2> DEFINE t == [walletTab EXCEPT !.error = TRUE, !.confirm = FALSE]
  <2>1. OnlyWallet(t)
    BY <1>2 DEF RedeemFunds
  <2>2. t \in WalletTabRow /\ t.toasts = walletTab.toasts /\ t.saves = walletTab.saves /\ t.latest = walletTab.latest
    <3>1. t \in WalletTabRow
      <4> DEFINE t1 == [walletTab EXCEPT !.error = TRUE]
                 t2 == [t1 EXCEPT !.confirm = FALSE]
      <4>1. TRUE \in BOOLEAN /\ FALSE \in BOOLEAN
        BY <1>1
      <4>2. t = t2
        BY <1>1, TabFieldsAre DEF TabFields
      <4> HIDE DEF t
      <4>3. t1 \in WalletTabRow
        BY <1>1, <4>1, TabFieldTyped
      <4> HIDE DEF t1
      <4>4. t2 \in WalletTabRow
        BY <4>3, <4>1, TabFieldTyped
      <4> HIDE DEF t2
      <4> QED
        BY <4>2, <4>4
    <3>2. t.toasts = walletTab.toasts /\ t.saves = walletTab.saves /\ t.latest = walletTab.latest
      BY <1>1, TabFieldsAre DEF TabFields
    <3> QED
      BY <3>1, <3>2
  <2>3. PageTells(t)
    <3>1. /\ t.page = walletTab.page /\ t.of = walletTab.of /\ t.call = walletTab.call
          /\ t.error = TRUE /\ t.seen = walletTab.seen /\ t.done = walletTab.done
          /\ t.over = walletTab.over /\ t.before = walletTab.before /\ t.probe = walletTab.probe
          /\ t.probing = walletTab.probing /\ t.hint = walletTab.hint
          /\ t.editing = walletTab.editing /\ t.saves = walletTab.saves
      BY <1>1, TabFieldsAre DEF TabFields
    <3> HIDE DEF t
    <3>2. DepositTells(walletTab) /\ ProbeTells(walletTab)
      BY <1>1 DEF PageTells
    <3>3. DepositTells(t)
      BY <3>2, <3>1, DepositAlike
    <3>4. ProbeTells(t)
      BY <3>2, <3>1, ProbeAlike
    <3>5. InvoiceTells(walletTab) => InvoiceTells(t)
      BY <3>1, InvoiceAlike
    <3> QED
      BY <1>1, <3>1, <3>3, <3>4, <3>5 DEF PageTells
  <2> QED
    BY <2>1, <2>2, <2>3, OnlyWalletKeeps
<1>3. CASE coins.funds # 0
  <2> DEFINE S == {s \in CoinIds : coins.sent[s] = "none"}
             c == Min(S)
             t == [walletTab EXCEPT !.call = c, !.confirm = FALSE]
             n == IF all THEN 0 ELSE coins.funds - 1
  <2>1. /\ coins' = [sent |-> [coins.sent EXCEPT ![c] = "mempool"], funds |-> n]
        /\ coinCall' = [of |-> c, page |-> page] /\ walletTab' = t
        /\ UNCHANGED <<tx, history, calls, deposits, terms, exporting, walletVisit>>
    BY <1>3 DEF RedeemFunds
  <2>2. coins \in CoinsRow /\ FundsTell /\ coins.funds \in {1, 2}
    BY <1>3 DEF WalletInv, WalletTyped, CoinsRow
  <2>3. S \in SUBSET Nat /\ S # {}
    BY <2>2 DEF FundsTell, CoinIds
  <2>4. c \in S
    BY <2>3, SmallestOf
  <2>5. c \in CoinIds /\ coins.sent[c] = "none" /\ c \in Ids /\ c \in 0..2
    BY <2>4, WalletBasics DEF CoinIds
  <2>6. n \in 0..2 /\ (n > 0 => n = 1 /\ coins.funds = 2)
    BY <2>2
  <2> HIDE DEF c, n
  <2>7. coins' \in CoinsRow /\ coinCall' \in CoinCallRow
    BY <2>1, <2>2, <2>5, <2>6 DEF CoinsRow, CoinCallRow
  <2>8. FundsTell'
    <3>1. \A d \in CoinIds : d # c => coins'.sent[d] = coins.sent[d]
      BY <2>1, <2>2 DEF CoinsRow
    <3>2. \E d \in CoinIds : d # c
      BY DEF CoinIds
    <3> QED
      BY <2>1, <2>2, <2>6, <3>1, <3>2 DEF FundsTell
  <2>9. HubKeeps
    BY <2>1, <2>2, <2>5 DEF HubKeeps, Confirmed, CoinsRow
  <2>10. t \in WalletTabRow /\ t.toasts = walletTab.toasts /\ t.saves = walletTab.saves /\ t.latest = walletTab.latest
    <3>1. t \in WalletTabRow
      <4> DEFINE t1 == [walletTab EXCEPT !.call = c]
                 t2 == [t1 EXCEPT !.confirm = FALSE]
      <4>1. c \in Ids /\ FALSE \in BOOLEAN
        BY <1>1, <2>5
      <4>2. t = t2
        BY <1>1, <2>5, TabFieldsAre DEF TabFields
      <4> HIDE DEF t
      <4>3. t1 \in WalletTabRow
        BY <1>1, <2>5, <4>1, TabFieldTyped
      <4> HIDE DEF t1
      <4>4. t2 \in WalletTabRow
        BY <4>3, <4>1, TabFieldTyped
      <4> HIDE DEF t2
      <4> QED
        BY <4>2, <4>4
    <3>2. t.toasts = walletTab.toasts /\ t.saves = walletTab.saves /\ t.latest = walletTab.latest
      BY <1>1, <2>5, TabFieldsAre DEF TabFields
    <3> QED
      BY <3>1, <3>2
  <2>11. PageTells(t)
    <3>1. /\ t.page = walletTab.page /\ t.of = walletTab.of /\ t.call = c
          /\ t.error = walletTab.error /\ t.seen = walletTab.seen /\ t.done = walletTab.done
          /\ t.over = walletTab.over /\ t.before = walletTab.before /\ t.probe = walletTab.probe
          /\ t.probing = walletTab.probing /\ t.hint = walletTab.hint
          /\ t.editing = walletTab.editing /\ t.saves = walletTab.saves
      BY <1>1, TabFieldsAre DEF TabFields
    <3> HIDE DEF t
    <3>2. DepositTells(walletTab) /\ ProbeTells(walletTab)
      BY <1>1 DEF PageTells
    <3>3. DepositTells(t)
      BY <3>2, <3>1, DepositAlike
    <3>4. ProbeTells(t)
      BY <3>2, <3>1, ProbeAlike
    <3>5. InvoiceTells(walletTab) => InvoiceTells(t)
      BY <3>1, InvoiceAlike
    <3> QED
      BY <1>1, <3>1, <3>3, <3>4, <3>5 DEF PageTells
  <2>12. deposits' \in DepositsRow
    BY <2>1 DEF WalletInv, WalletTyped
  <2> HIDE DEF t
  <2> QED
    BY <2>1, <2>7, <2>8, <2>9, <2>10, <2>11, <2>12, HubStepKeeps
<1> QED
  BY <1>2, <1>3

LEMMA CoinConfirmedKeeps ==
  ASSUME WalletInv, NEW c \in CoinIds, CoinConfirmed(c)
  PROVE  WalletInv'
<1>1. coins \in CoinsRow /\ FundsTell /\ coinCall \in CoinCallRow /\ deposits \in DepositsRow
  BY DEF WalletInv, WalletTyped
<1>2. /\ coins.sent[c] = "mempool" /\ coins' = [coins EXCEPT !.sent[c] = "confirmed"] /\ walletTab' = walletTab
      /\ UNCHANGED <<tx, history, calls, coinCall, deposits, terms, exporting, walletVisit>>
  BY DEF CoinConfirmed
<1>3. coins' \in CoinsRow /\ coins'.funds = coins.funds
  BY <1>1, <1>2 DEF CoinsRow
<1>4. \A d \in CoinIds : d # c => coins'.sent[d] = coins.sent[d]
  BY <1>1, <1>2 DEF CoinsRow
<1>5. coins'.sent[c] = "confirmed"
  BY <1>1, <1>2 DEF CoinsRow
<1>6. FundsTell'
  BY <1>1, <1>2, <1>3, <1>4 DEF FundsTell
<1>7. HubKeeps
  BY <1>2, <1>4, <1>5 DEF HubKeeps, Confirmed
<1> QED
  BY <1>1, <1>2, <1>3, <1>6, <1>7, TabTyped, HubStepKeeps

LEMMA UtxoKeeps ==
  ASSUME WalletInv, NEW d \in Deposits, UtxoMade(d) \/ UtxoReplaced(d) \/ UtxoConfirmed(d)
  PROVE  WalletInv'
<1>1. coins \in CoinsRow /\ FundsTell /\ coinCall \in CoinCallRow /\ deposits \in DepositsRow
  BY DEF WalletInv, WalletTyped
<1>2. deposits.addr \in 1..2 /\ deposits.utxo[d] \in Utxo
  BY <1>1 DEF DepositsRow
<1>3. PICK u \in Utxo : UtxoBecomes(d, u) /\ deposits.utxo[d].state # "confirmed"
  <2>1. CASE UtxoMade(d)
    <3>1. PICK a \in 1..deposits.addr : UtxoBecomes(d, [state |-> "mempool", to |-> a])
      BY <2>1 DEF UtxoMade
    <3>2. a \in 0..2
      BY <1>2
    <3>3. [state |-> "mempool", to |-> a] \in Utxo
      BY <3>2 DEF Utxo
    <3> QED
      BY <2>1, <3>1, <3>3 DEF UtxoMade
  <2>2. CASE UtxoReplaced(d)
    BY <1>2, <2>2 DEF UtxoReplaced, Utxo
  <2>3. CASE UtxoConfirmed(d)
    BY <1>2, <2>3 DEF UtxoConfirmed, Utxo
  <2> QED
    BY <2>1, <2>2, <2>3
<1>4. /\ deposits' = [deposits EXCEPT !.utxo[d] = u] /\ walletTab' = walletTab
      /\ UNCHANGED <<tx, history, calls, coins, coinCall, terms, exporting, walletVisit>>
  BY <1>3 DEF UtxoBecomes
<1>5. deposits' \in DepositsRow
  BY <1>1, <1>4 DEF DepositsRow
<1>6. \A e \in Deposits : e # d => deposits'.utxo[e] = deposits.utxo[e]
  BY <1>1, <1>4 DEF DepositsRow
<1>7. HubKeeps
  BY <1>3, <1>4, <1>6 DEF HubKeeps, Confirmed
<1>8. FundsTell' /\ coins' \in CoinsRow /\ coinCall' \in CoinCallRow
  BY <1>1, <1>4 DEF FundsTell
<1> QED
  BY <1>4, <1>5, <1>7, <1>8, TabTyped, HubStepKeeps

LEMMA GetNewAddressKeeps ==
  ASSUME WalletInv, GetNewAddress
  PROVE  WalletInv'
<1> DEFINE t == [walletTab EXCEPT !.asking = FALSE]
<1>1. coins \in CoinsRow /\ FundsTell /\ coinCall \in CoinCallRow /\ deposits \in DepositsRow
  BY DEF WalletInv, WalletTyped
<1>2. PICK ok \in BOOLEAN : deposits' = [deposits EXCEPT !.addr = IF ok THEN 2 ELSE 1]
  BY DEF GetNewAddress
<1>3. walletTab' = t /\ UNCHANGED <<tx, history, calls, coins, coinCall, terms, exporting, walletVisit>>
  BY DEF GetNewAddress
<1>4. deposits' \in DepositsRow /\ deposits'.utxo = deposits.utxo
  BY <1>1, <1>2 DEF DepositsRow
<1>5. HubKeeps
  BY <1>3, <1>4 DEF HubKeeps, Confirmed
<1>6. FundsTell' /\ coins' \in CoinsRow /\ coinCall' \in CoinCallRow
  BY <1>1, <1>3 DEF FundsTell
<1>7. t \in WalletTabRow /\ t.toasts = walletTab.toasts /\ t.saves = walletTab.saves /\ t.latest = walletTab.latest
  <2>1. t \in WalletTabRow
    <3>1. FALSE \in BOOLEAN
      BY TabTyped
    <3> QED
      BY TabTyped, <3>1, TabFieldTyped
  <2>2. t.toasts = walletTab.toasts /\ t.saves = walletTab.saves /\ t.latest = walletTab.latest
    BY TabTyped, TabFieldsAre DEF TabFields
  <2> QED
    BY <2>1, <2>2
<1>8. PageTells(t)
  <2>1. LikeBut(t, walletTab, {"asking"}) /\ t.editing = walletTab.editing
    BY TabTyped, TabFieldsAre DEF LikeBut, TabFields
  <2> HIDE DEF t
  <2>2. LikeBut(t, walletTab, SilentFields \cup {"editing"})
    BY <2>1 DEF LikeBut, SilentFields
  <2> QED
    BY TabTyped, <2>1, <2>2, PageAlike
<1> HIDE DEF t
<1> QED
  BY <1>3, <1>4, <1>5, <1>6, <1>7, <1>8, HubStepKeeps

(* An edit of a label may make one more notification due, and counts for   *)
(* it.                                                                     *)
LEMMA SaveLabelsKeeps ==
  ASSUME WalletInv, SaveLabels
  PROVE  WalletInv'
<1> DEFINE i == walletTab.editing
           new == RowsToLabels(walletTab.rows)
           t == [walletTab EXCEPT !.editing = 0, !.rows = {}, !.saves = @ + 1]
<1>1. /\ tx \in [TxIds -> TxRow] /\ RowsTell /\ FundsTell /\ ToastsTell /\ ExportTells /\ HistoryTyped
      /\ walletTab \in WalletTabRow /\ PageTells(walletTab)
  BY DEF WalletInv, WalletTyped
<1>2. i \in TxIds /\ new \in SUBSET Labels
  BY <1>1 DEF SaveLabels, WalletTabRow, Ids, RowsToLabels
<1>3. /\ tx' = [tx EXCEPT ![i].labels = new] /\ walletTab' = t
      /\ UNCHANGED <<history, calls, coins, coinCall, deposits, terms, exporting, walletVisit>>
  BY DEF SaveLabels
<1>4. walletTab.saves \in Nat /\ walletTab.saves + 1 \in 0..MaxSaves /\ walletTab.toasts \in Nat
  <2>1. walletTab.saves \in 0..MaxSaves /\ walletTab.toasts \in Nat
    BY <1>1 DEF WalletTabRow
  <2>2. walletTab.saves < MaxSaves
    BY <1>1 DEF PageTells, SaveLabels
  <2> QED
    BY <2>1, <2>2 DEF MaxSaves
<1> HIDE DEF i, new
<1>5. /\ tx' \in [TxIds -> TxRow]
      /\ \A j \in TxIds : tx'[j].type = tx[j].type /\ tx'[j].state = tx[j].state /\ tx'[j].fits = tx[j].fits
  BY <1>1, <1>2, <1>3 DEF TxRow
<1>6. t \in WalletTabRow /\ t.toasts = walletTab.toasts /\ t.saves = walletTab.saves + 1
  <2>1. t \in WalletTabRow
    <3> DEFINE t1 == [walletTab EXCEPT !.editing = 0]
               t2 == [t1 EXCEPT !.rows = {}]
               t3 == [t2 EXCEPT !.saves = walletTab.saves + 1]
    <3>1. 0 \in Ids /\ {} \in SUBSET (Labels \cup {NoLabel}) /\ walletTab.saves + 1 \in 0..MaxSaves
      BY <1>4, WalletBasics
    <3>2. t = t3
      BY <1>1, TabFieldsAre DEF TabFields
    <3> HIDE DEF t
    <3>3. t1 \in WalletTabRow
      BY <1>1, <3>1, TabFieldTyped
    <3> HIDE DEF t1
    <3>4. t2 \in WalletTabRow
      BY <3>3, <3>1, TabFieldTyped
    <3> HIDE DEF t2
    <3>5. t3 \in WalletTabRow
      BY <3>4, <3>1, TabFieldTyped
    <3> HIDE DEF t3
    <3> QED
      BY <3>2, <3>5
  <2>2. t.toasts = walletTab.toasts /\ t.saves = walletTab.saves + 1
    BY <1>1, TabFieldsAre DEF TabFields
  <2> QED
    BY <2>1, <2>2
<1>7. PageTells(t)
  <2>1. /\ t.page = walletTab.page /\ t.of = walletTab.of /\ t.call = walletTab.call
        /\ t.error = walletTab.error /\ t.seen = walletTab.seen /\ t.done = walletTab.done
        /\ t.over = walletTab.over /\ t.before = walletTab.before /\ t.probe = walletTab.probe
        /\ t.probing = walletTab.probing /\ t.hint = walletTab.hint /\ t.editing = 0
    BY <1>1, TabFieldsAre DEF TabFields
  <2> HIDE DEF t
  <2>2. DepositTells(walletTab) /\ ProbeTells(walletTab)
    BY <1>1 DEF PageTells
  <2>3. DepositTells(t)
    BY <2>2, <2>1, DepositAlike
  <2>4. ProbeTells(t)
    BY <2>2, <2>1, ProbeAlike
  <2>5. InvoiceTells(walletTab) => InvoiceTells(t)
    BY <2>1, InvoiceAlike
  <2> QED
    BY <1>1, <2>1, <2>3, <2>4, <2>5 DEF PageTells
<1> HIDE DEF t
<1>8. HubKeeps
  BY <1>3, <1>5 DEF HubKeeps, Confirmed
<1>9. PageTells(walletTab)'
  BY <1>3, <1>7, <1>8, KeptPage
<1>10. WalletTyped'
  BY <1>3, <1>5, <1>6 DEF WalletInv, WalletTyped, HistoryTyped
<1>11. RowsTell'
  <2>1. \A k \in DOMAIN history : history[k] \in TxIds
    BY <1>1 DEF HistoryTyped
  <2> QED
    BY <1>1, <1>3, <1>5, <2>1 DEF RowsTell
<1>12. FundsTell' /\ ExportTells'
  BY <1>1, <1>3 DEF FundsTell, ExportTells
<1>13. ToastsTell'
  <2>1. Arrived' = Arrived
    BY <1>5 DEF Arrived
  <2>2. Cardinality(Arrived') = Cardinality(Arrived) /\ Cardinality(Arrived) \in Nat
    BY <2>1, ArrivedIsFinite
  <2>3. walletTab.toasts <= walletTab.saves + Cardinality(Arrived)
    <3>1. walletTab.toasts + (IF Due THEN 1 ELSE 0) <= walletTab.saves + Cardinality(Arrived)
      BY <1>1 DEF ToastsTell
    <3> HIDE DEF Due
    <3> QED
      BY <1>4, <2>2, <3>1
  <2> HIDE DEF Due
  <2> QED
    BY <1>3, <1>4, <1>6, <2>2, <2>3 DEF ToastsTell
<1> QED
  BY <1>9, <1>10, <1>11, <1>12, <1>13 DEF WalletInv

(* A page of the export takes the rows at its positions; when it is not    *)
(* full, no position is left.                                              *)
LEMMA ExportStepKeeps ==
  ASSUME WalletInv, UNCHANGED <<tx, history, calls, coins, coinCall, deposits, terms, walletTab, walletVisit>>,
         exporting' \in ExportRow, ExportTells'
  PROVE  WalletInv'
<1>1. HubKeeps
  BY DEF HubKeeps, Confirmed
<1>2. PageTells(walletTab)'
  BY <1>1, KeptPage, TabTyped
<1>3. WalletTyped'
  BY DEF WalletInv, WalletTyped, HistoryTyped
<1>4. RowsTell' /\ FundsTell'
  BY DEF WalletInv, RowsTell, FundsTell
<1>5. ToastsTell'
  <2>1. Arrived' = Arrived
    BY DEF Arrived
  <2>2. Due' => Due
    BY DEF Due
  <2>3. ShowsSame
    BY DEF ShowsSame
  <2> QED
    BY <2>1, <2>2, <2>3, ToastsStay DEF WalletInv
<1> QED
  BY <1>2, <1>3, <1>4, <1>5 DEF WalletInv

LEMMA StartExportKeeps ==
  ASSUME WalletInv, StartExport \/ ExportFails
  PROVE  WalletInv'
<1>1. history \in Seq(TxIds)
  BY DEF WalletInv, WalletTyped, HistoryTyped
<1>2. ToSet(history) = {history[k] : k \in DOMAIN history} /\ DOMAIN history = 1..Len(history)
  BY <1>1 DEF ToSet
<1>3. CASE StartExport
  <2>1. exporting' = [at |-> "running", offset |-> 0, rows |-> {}, listed |-> ToSet(history), moved |-> {}]
    BY <1>3 DEF StartExport, NoExport
  <2>2. ToSet(history) \subseteq TxIds
    BY <1>1, <1>2
  <2>3. exporting' \in ExportRow
    BY <2>1, <2>2 DEF ExportRow
  <2>4. history' = history
    BY <1>3 DEF StartExport
  <2>5. \A r \in ToSet(history) : \E k \in DOMAIN history : k > 0 /\ history[k] = r
    BY <1>1, <1>2
  <2>6. ExportTells'
    BY <2>1, <2>4, <2>5 DEF ExportTells
  <2> QED
    BY <1>3, <2>3, <2>6, ExportStepKeeps DEF StartExport
<1>4. CASE ExportFails
  <2>1. exporting' \in ExportRow /\ ExportTells'
    BY <1>4 DEF ExportFails, NoExport, ExportRow, ExportTells
  <2> QED
    BY <1>4, <2>1, ExportStepKeeps DEF ExportFails
<1> QED
  BY <1>3, <1>4

LEMMA ExportPageFacts ==
  ASSUME NEW s \in Seq(TxIds), NEW o \in Nat
  PROVE  /\ ToSet(PageOf(s, o)) \subseteq TxIds
         /\ \A k \in 1..Len(s) : k > o /\ k <= o + ListSize => s[k] \in ToSet(PageOf(s, o))
         /\ Len(PageOf(s, o)) < ListSize => \A k \in 1..Len(s) : k <= o + ListSize
<1> DEFINE e == Min({Len(s), o + ListSize})
           p == PageOf(s, o)
           n == Len(s)
<1>1. n \in Nat /\ ListSize \in Nat /\ ListSize > 0
  BY WalletBasics
<1>2. e \in {n, o + ListSize} /\ e <= n /\ e <= o + ListSize
  <2>1. {n, o + ListSize} \in SUBSET Nat /\ {n, o + ListSize} # {}
    BY <1>1
  <2> QED
    BY <2>1, SmallestOf
<1>3. p = SubSeq(s, o + 1, e)
  BY DEF PageOf
<1>4. e \in Nat
  BY <1>1, <1>2
<1> HIDE DEF e, p
<1>5. /\ p \in Seq(TxIds) /\ (o + 1 <= e => Len(p) = e - o) /\ (o + 1 > e => Len(p) = 0)
      /\ \A j \in 1..Len(p) : p[j] = s[o + j]
  BY <1>1, <1>2, <1>3, <1>4
<1>6. ToSet(p) = {p[j] : j \in 1..Len(p)}
  BY <1>5 DEF ToSet
<1>7. ToSet(p) \subseteq TxIds
  BY <1>5, <1>6
<1>8. ASSUME NEW k \in 1..n, k > o, k <= o + ListSize PROVE s[k] \in ToSet(p)
  <2>1. k <= e
    BY <1>1, <1>2, <1>8
  <2>2. k - o \in 1..Len(p) /\ o + (k - o) = k
    BY <1>1, <1>4, <1>5, <1>8, <2>1
  <2>3. p[k - o] = s[k]
    BY <1>5, <2>2
  <2> QED
    BY <1>6, <2>2, <2>3
<1>9. ASSUME Len(p) < ListSize, NEW k \in 1..n PROVE k <= o + ListSize
  <2>1. n <= o + ListSize
    BY <1>1, <1>2, <1>4, <1>5, <1>9
  <2> QED
    BY <1>1, <2>1
<1> QED
  BY <1>7, <1>8, <1>9 DEF p

LEMMA ExportPageKeeps ==
  ASSUME WalletInv, ExportPage
  PROVE  WalletInv'
<1> DEFINE o == exporting.offset
           rows == ToSet(PageOf(history, o))
           last == Len(PageOf(history, o)) < ListSize
<1>1. history \in Seq(TxIds) /\ exporting \in ExportRow /\ o \in Nat /\ ListSize \in Nat /\ ExportTells
  BY WalletBasics DEF WalletInv, WalletTyped, HistoryTyped, ExportRow
<1>2. DOMAIN history = 1..Len(history) /\ Len(history) \in Nat
  BY <1>1
<1>3. /\ exporting.at = "running" /\ history' = history
      /\ exporting' = [exporting EXCEPT !.rows = @ \cup rows, !.at = IF last THEN "saved" ELSE "running", !.offset = @ + ListSize]
  BY DEF ExportPage, LastPage
<1>4. /\ rows \subseteq TxIds
      /\ \A k \in 1..Len(history) : k > o /\ k <= o + ListSize => history[k] \in rows
      /\ last => \A k \in 1..Len(history) : k <= o + ListSize
  BY <1>1, ExportPageFacts
<1> HIDE DEF rows, last
<1>5. /\ exporting'.at = (IF last THEN "saved" ELSE "running") /\ exporting'.offset = o + ListSize
      /\ exporting'.rows = exporting.rows \cup rows /\ exporting'.listed = exporting.listed /\ exporting'.moved = exporting.moved
  BY <1>1, <1>3 DEF ExportRow
<1>6. exporting' \in ExportRow
  <2> DEFINE at == IF last THEN "saved" ELSE "running"
             got == exporting.rows \cup rows
             next == o + ListSize
  <2>1. at \in {"running", "saved"} /\ got \in SUBSET TxIds /\ next \in Nat
    BY <1>1, <1>4 DEF ExportRow
  <2>2. exporting' = [exporting EXCEPT !.rows = got, !.at = at, !.offset = next]
    BY <1>3
  <2> HIDE DEF at, got, next
  <2> QED
    BY <1>1, <2>1, <2>2 DEF ExportRow
<1>7. ASSUME NEW r \in exporting.listed \ exporting.moved
      PROVE  \/ r \in exporting'.rows
             \/ ~last /\ \E k \in DOMAIN history : k > o + ListSize /\ history[k] = r
  <2>1. CASE r \in exporting.rows
    BY <1>5, <2>1
  <2>2. CASE r \notin exporting.rows
    <3>1. PICK k \in 1..Len(history) : k > o /\ history[k] = r
      BY <1>1, <1>2, <1>3, <2>2 DEF ExportTells
    <3>2. CASE k <= o + ListSize
      BY <1>4, <1>5, <3>1, <3>2
    <3>3. CASE ~(k <= o + ListSize)
      <4>1. k > o + ListSize /\ ~last
        BY <1>1, <1>2, <1>4, <3>3
      <4> QED
        BY <1>2, <3>1, <4>1
    <3> QED
      BY <3>2, <3>3
  <2> QED
    BY <2>1, <2>2
<1>8. ExportTells'
  BY <1>3, <1>5, <1>7 DEF ExportTells
<1> QED
  BY <1>6, <1>8, ExportStepKeeps DEF ExportPage

-----------------------------------------------------------------------------
(* Wallet: the invariant.                                                  *)

LEMMA WalletInvInit ==
  ASSUME WalletInit
  PROVE  WalletInv
<1> DEFINE old == WalletVisitTable[walletVisit].old
<1>1. walletVisit \in WalletVisits /\ old \in {0, 2, 3}
  BY WalletAssumption DEF WalletInit, WalletVisitTable
<1>2. /\ tx = [i \in TxIds |-> IF i > old THEN NoTx
                               ELSE IF i = 1 THEN OldTx("incoming", "settled") ELSE OldTx("outgoing", "pending")]
      /\ history = [k \in 1..old |-> old + 1 - k]
  BY DEF WalletInit
<1>3. /\ calls = {} /\ coinCall = [of |-> 0, page |-> "none"]
      /\ coins = [sent |-> [c \in CoinIds |-> "none"], funds |-> 2]
      /\ exporting = NoExport
  BY DEF WalletInit
<1>4. PICK d \in {"none", "confirmed"} :
        deposits = [addr |-> 1, utxo |-> [i \in Deposits |-> IF i = 1 /\ walletVisit = "deposit" THEN [state |-> d, to |-> 1]
                                                             ELSE [state |-> "none", to |-> 0]]]
  BY DEF WalletInit
<1>5. terms \in TermsRow
  <2>1. CASE walletVisit = "get"
    <3>1. terms \in [jit : BOOLEAN, public : BOOLEAN, receivable : {0, 5}]
      BY <2>1 DEF WalletInit
    <3> QED
      BY <3>1 DEF TermsRow
  <2>2. CASE walletVisit # "get"
    <3>1. terms = [jit |-> FALSE, public |-> FALSE, receivable |-> 5]
      BY <2>2 DEF WalletInit
    <3> QED
      BY <3>1 DEF TermsRow
  <2> QED
    BY <2>1, <2>2
<1>6. PICK p \in {"wallet", "send", "receive"} : Leads(p) /\ walletTab = FreshWalletTab(p)
  BY DEF WalletInit
<1>7. p \in WalletPages
  BY <1>1, <1>6, WalletPagesAre
<1> HIDE DEF old
<1>8. /\ NoTx \in TxRow /\ OldTx("incoming", "settled") \in TxRow /\ OldTx("outgoing", "pending") \in TxRow
      /\ NoTx.type = "none" /\ NoTx.state = "none"
      /\ OldTx("incoming", "settled").type = "incoming" /\ OldTx("incoming", "settled").state = "settled"
      /\ OldTx("outgoing", "pending").type = "outgoing"
  BY WalletBasics DEF NoTx, OldTx, TxRow, TxStates
<1>9. tx \in [TxIds -> TxRow]
  BY <1>2, <1>8
<1>10. HistoryTyped
  <2>1. old \in Nat /\ old <= MaxTx
    BY <1>1, WalletBasics
  <2>2. \A k \in 1..old : old + 1 - k \in TxIds
    BY <2>1, WalletBasics DEF TxIds
  <2>3. history \in Seq(TxIds)
    BY <1>2, <2>1, <2>2
  <2>4. DOMAIN history = 1..old /\ \A k \in 1..old : history[k] = old + 1 - k
    BY <1>2
  <2>5. IsInjective(history)
    BY <2>1, <2>4 DEF IsInjective
  <2> QED
    BY <2>3, <2>5 DEF HistoryTyped
<1>11. RowsTell
  <2>1. \A i \in TxIds : tx[i].type = "none" => tx[i].state = "none"
    BY <1>2, <1>8
  <2>2. ASSUME NEW k \in DOMAIN history
        PROVE  /\ tx[history[k]].type # "none"
               /\ tx[history[k]].type = "incoming" => tx[history[k]].state = "settled"
    <3>1. history[k] \in TxIds /\ ~(history[k] > old)
      <4>1. old \in Nat /\ k \in 1..old /\ history[k] = old + 1 - k
        BY <1>1, <1>2, <2>2
      <4>2. history[k] \in TxIds
        BY <1>10, <2>2 DEF HistoryTyped
      <4> QED
        BY <4>1, <4>2
    <3> QED
      BY <1>2, <1>8, <3>1
  <2> QED
    BY <2>1, <2>2 DEF RowsTell
<1>12. coins \in CoinsRow /\ FundsTell /\ coinCall \in CoinCallRow
  BY <1>3 DEF CoinsRow, FundsTell, CoinIds, CoinCallRow
<1>13. deposits \in DepositsRow
  BY <1>4 DEF DepositsRow, Utxo
<1>14. exporting \in ExportRow /\ ExportTells
  BY <1>3 DEF NoExport, ExportRow, ExportTells
<1>15. walletTab \in WalletTabRow
  BY <1>6, <1>7, WalletBasics DEF FreshWalletTab, WalletTabRow, Probes, Probings, Filters, MaxSaves
<1>16. PageTells(walletTab)
  BY <1>6 DEF FreshWalletTab, PageTells, DepositTells, ProbeTells
<1>17. ToastsTell
  <2>1. ~Due /\ walletTab.toasts = 0 /\ walletTab.saves = 0
    BY <1>6 DEF Due, FreshWalletTab
  <2>2. Cardinality(Arrived) \in Nat
    BY ArrivedIsFinite
  <2> HIDE DEF Due
  <2> QED
    BY <2>1, <2>2 DEF ToastsTell
<1>18. calls \in SUBSET TxIds
  BY <1>3
<1> QED
  BY <1>1, <1>5, <1>9, <1>10, <1>11, <1>12, <1>13, <1>14, <1>15, <1>16, <1>17, <1>18 DEF WalletInv, WalletTyped

LEMMA WalletInvNext ==
  ASSUME WalletInv, WalletNext
  PROVE  WalletInv'
<1>1. CASE \E i \in TxIds : \/ PaymentSettles(i) \/ PaymentFails(i) \/ InvoiceSettles(i) \/ PaymentAnswered(i)
                            \/ PaymentRefused(i) \/ StartLabels(i) \/ PageChange(i)
  BY <1>1, RowBecomesKeeps, PaymentAnsweredKeeps, PaymentRefusedKeeps, StartLabelsKeeps, PageChangeKeeps
<1>2. CASE PaymentArrives \/ ReloadWallet \/ \E p \in WalletPages : OpenWalletPage(p)
  BY <1>2, PaymentArrivesKeeps, OpenKeeps, ReloadKeeps
<1>3. CASE \E r \in Recipients : SubmitRecipient(r)
  BY <1>3, SubmitRecipientKeeps
<1>4. CASE ConfirmPayment \/ ZeroAmount \/ LnurlPay
  BY <1>4, PayKeeps
<1>5. CASE \E page \in {"onchain", "withdraw"}, all \in BOOLEAN : RedeemFunds(page, all)
  BY <1>5, RedeemFundsKeeps
<1>6. CASE ConfirmWithdrawal \/ CoinAnswered \/ CoinAnswerLost \/ PollMempool
  BY <1>6, ConfirmWithdrawalKeeps, CoinAnsweredKeeps, CoinAnswerLostKeeps, PollMempoolKeeps
<1>7. CASE \E c \in CoinIds : CoinConfirmed(c)
  BY <1>7, CoinConfirmedKeeps
<1>8. CASE \E a \in Receipts : SubmitInvoice(a) \/ SubmitCrypto(a)
  BY <1>8, SubmitInvoiceKeeps, SubmitCryptoKeeps
<1>9. CASE ToggleMode \/ PollInvoice \/ AnotherPayment \/ SubmitOffer \/ Probe \/ ProbeAnswered \/ ProbeTimeout
  BY <1>9, ToggleModeKeeps, PollInvoiceKeeps, AnotherPaymentKeeps, SubmitOfferKeeps, ProbeKeeps, ProbeAnsweredKeeps,
     ProbeTimeoutKeeps
<1>10. CASE \E d \in Deposits : UtxoMade(d) \/ UtxoReplaced(d) \/ UtxoConfirmed(d)
  BY <1>10, UtxoKeeps
<1>11. CASE WatchUtxos \/ ReceiveAnother \/ GetNewAddress
  BY <1>11, WatchUtxosKeeps, ReceiveAnotherKeeps, GetNewAddressKeeps
<1>12. CASE \E f \in Filters : SetFilters(f)
  BY <1>12, SetFiltersKeeps
<1>13. CASE \E l \in Labels : EditRows(l)
  BY <1>13, EditRowsKeeps
<1>14. CASE CancelLabels \/ SaveLabels \/ NotifyReceivedPayments
  BY <1>14, CancelLabelsKeeps, SaveLabelsKeeps, NotifyKeeps
<1>15. CASE StartExport \/ ExportPage \/ ExportFails
  BY <1>15, StartExportKeeps, ExportPageKeeps
<1> QED
  BY <1>1, <1>2, <1>3, <1>4, <1>5, <1>6, <1>7, <1>8, <1>9, <1>10, <1>11, <1>12, <1>13, <1>14, <1>15 DEF WalletNext

LEMMA WalletInvStays ==
  ASSUME WalletInv, UNCHANGED walletVars
  PROVE  WalletInv'
<1>1. UNCHANGED <<tx, history, calls, coins, coinCall, deposits, terms, walletTab, exporting, walletVisit>>
  BY DEF walletVars
<1>2. exporting' \in ExportRow /\ ExportTells'
  BY <1>1 DEF WalletInv, WalletTyped, ExportTells
<1> QED
  BY <1>1, <1>2, ExportStepKeeps

(* What the invariant is for.                                              *)
LEMMA WalletInvMeans ==
  ASSUME WalletInv
  PROVE  WalletTypeOK /\ ShownIsReal /\ ExportIsComplete
<1>1. walletTab \in WalletTabRow /\ PageTells(walletTab) /\ HistoryTyped /\ RowsTell /\ ToastsTell /\ terms \in TermsRow
  BY DEF WalletInv, WalletTyped
<1>2. WalletTypeOK
  <2>1. /\ walletTab.page \in WalletPages /\ walletTab.of \in Ids /\ walletTab.call \in Ids
        /\ walletTab.before \subseteq Deposits /\ walletTab.rows \subseteq Labels \cup {NoLabel}
        /\ walletTab.probe \in {"none", "loading", "ok", "failed"} /\ walletTab.filter \in Filters
    BY <1>1 DEF WalletTabRow, Probes
  <2>2. /\ walletTab.fiat \in BOOLEAN /\ walletTab.over \in Nat /\ walletTab.toasts \in Nat
        /\ walletTab.saves \in 0..MaxSaves /\ walletTab.listPage \in Nat
    BY <1>1 DEF WalletTabRow
  <2>3. exporting.at \in {"idle", "running", "saved"} /\ exporting.rows \subseteq TxIds
    BY DEF WalletInv, WalletTyped, ExportRow
  <2>4. tx \in [TxIds -> TxRow] /\ coins \in CoinsRow /\ coinCall \in CoinCallRow /\ deposits \in DepositsRow
        /\ calls \subseteq TxIds /\ walletVisit \in WalletVisits
    BY DEF WalletInv, WalletTyped
  <2> QED
    BY <1>1, <2>1, <2>2, <2>3, <2>4
       DEF WalletTypeOK, TxRow, TxStates, CoinsRow, CoinCallRow, DepositsRow, Utxo, TermsRow, HistoryTyped
<1>3. ExportIsComplete
  BY DEF WalletInv, ExportTells, ExportIsComplete
<1>4. FirstChannelAlert = "first payment opens a channel" => CanReceive(JitTerms.min) \/ terms.public
  <2>1. SUFFICES ASSUME FirstChannelAlert = "first payment opens a channel" PROVE CanReceive(JitTerms.min) \/ terms.public
    OBVIOUS
  <2>2. walletTab.probe = "ok" /\ terms.receivable = 0
    BY <1>1, <2>1 DEF FirstChannelAlert, WalletTabRow, Probes
  <2> QED
    BY <1>1, <2>2, WalletBasics DEF PageTells, ProbeTells, ProbeIsRight, CanReceive, IsJitInvoice
<1>5. \A i \in ToSet(history) : TypeStateText(i) \in {"Received", "Sent"} => tx[i].state = "settled"
  <2>1. ASSUME NEW i \in ToSet(history), TypeStateText(i) \in {"Received", "Sent"} PROVE tx[i].state = "settled"
    <3>1. PICK k \in DOMAIN history : history[k] = i
      BY <1>1 DEF ToSet
    <3>2. tx[i].type = "incoming" => tx[i].state = "settled"
      BY <1>1, <3>1 DEF RowsTell
    <3> QED
      BY <2>1, <3>2 DEF TypeStateText
  <2> QED
    BY <2>1
<1>6. walletTab.toasts <= walletTab.saves + Cardinality({i \in TxIds : tx[i].type = "incoming" /\ tx[i].state = "settled"})
  <2>1. walletTab.toasts + (IF Due THEN 1 ELSE 0) <= walletTab.saves + Cardinality(Arrived)
    BY <1>1 DEF ToastsTell
  <2>2. walletTab.toasts \in Nat /\ walletTab.saves \in 0..MaxSaves /\ Cardinality(Arrived) \in Nat
    BY <1>1, ArrivedIsFinite DEF WalletTabRow
  <2> HIDE DEF Due
  <2>3. walletTab.toasts <= walletTab.saves + Cardinality(Arrived)
    BY <2>1, <2>2 DEF MaxSaves
  <2> QED
    BY <2>3 DEF Arrived
<1>7. ShownIsReal
  BY <1>1, <1>4, <1>5, <1>6 DEF PageTells, InvoiceTells, DepositTells, Confirmed, ShownIsReal
<1> QED
  BY <1>2, <1>3, <1>7

-----------------------------------------------------------------------------
(* The areas together.                                                     *)

LEMMA AppsInvMeans ==
  ASSUME AppsInv, PlanInv
  PROVE  AppTypeOK /\ SubwalletStaysIsolated /\ PlannedPaymentsFit
<1>1. SubwalletStaysIsolated
  BY DEF AppsInv, RowIsSafe, SubwalletStaysIsolated
<1>2. PlannedPaymentsFit
  BY DEF PlanInv, PlannedPaymentsFit
<1>3. AppTypeOK
  <2>1. ASSUME NEW a \in AppRow PROVE AppOK(a)
    BY <2>1 DEF AppRow, AppOK, Births
  <2>2. app \in AppRow /\ address \in BOOLEAN /\ account \in AccountRow /\ appVisit \in AppVisits
    BY DEF AppsInv, AppsTyped
  <2>3. ASSUME NEW t \in Tabs PROVE appTab[t] \in AppTabRow /\ appReq[t] \in AppReqRow
    BY DEF AppsInv, AppsTyped
  <2>4. zap \in PlanRow
    BY DEF AppsInv, AppsTyped
  <2> QED
    BY <2>1, <2>2, <2>3, <2>4 DEF AppTypeOK, AppTabRow, AppReqRow, PlanRow, AccountRow
<1> QED
  BY <1>1, <1>2, <1>3

(* What holds in every area.                                               *)
HubWalletInv == area \in Areas /\ SwapsInv /\ ChannelsInv /\ AppsInv /\ PlanInv /\ WalletInv

LEMMA HubWalletInvInit == HubWalletInit => HubWalletInv
  BY InitInv, ChannelsInvInit, AppsInit, WalletInvInit DEF HubWalletInit, HubWalletInv

(* A step of one area is a step of that area, and none of the others.      *)
LEMMA StepsOfAreas ==
  ASSUME [HubWalletNext]_allVars
  PROVE  [SwapsNext]_swapVars /\ [ChannelsNext]_chanVars /\ [ConnectionsNext]_appVars /\ [WalletNext]_walletVars /\ area' = area
<1>1. CASE UNCHANGED allVars
  BY <1>1 DEF allVars
<1>2. CASE HubWalletNext
  BY <1>2 DEF HubWalletNext
<1> QED
  BY <1>1, <1>2

LEMMA HubWalletInvNext ==
  ASSUME HubWalletInv, [HubWalletNext]_allVars
  PROVE  HubWalletInv' /\ [GrantIsConfirmed]_appVars
<1>1. SwapsInv'
  BY StepsOfAreas, NextInv DEF HubWalletInv
<1>2. ChannelsInv'
  BY StepsOfAreas, ChannelsInvNext DEF HubWalletInv
<1>3. AppsInv' /\ PlanInv' /\ [GrantIsConfirmed]_appVars
  BY StepsOfAreas, AppsNext DEF HubWalletInv
<1>4. WalletInv' /\ area' = area
  BY StepsOfAreas, WalletInvNext, WalletInvStays DEF HubWalletInv
<1> QED
  BY <1>1, <1>2, <1>3, <1>4 DEF HubWalletInv

LEMMA HubWalletInvariant == HubWalletSpec => []HubWalletInv
<1>1. HubWalletInv /\ [HubWalletNext]_allVars => HubWalletInv'
  BY HubWalletInvNext
<1> QED
  BY HubWalletInvInit, <1>1, PTL DEF HubWalletSpec

(* Every variable of the screens of a running hub keeps its type.          *)
THEOREM HubWalletTypeCorrect == HubWalletSpec => []HubWalletTypeOK
<1>1. HubWalletInv => HubWalletTypeOK
  BY TypedIsTypeOK, ChannelsInvMeans, AppsInvMeans, WalletInvMeans DEF HubWalletInv, SwapsInv, HubWalletTypeOK
<1> QED
  BY HubWalletInvariant, <1>1, PTL

(* The status page and the row of a swap say what has happened, also when  *)
(* the user is at other screens before and after (startSwapInListener,     *)
(* startSwapOutListener, RefundSwap).                                      *)
THEOREM SwapScreensTellTheTruth == HubWalletSpec => []SwapTellsTruth
<1>1. HubWalletInv => SwapTellsTruth
  BY InvTellsTruth DEF HubWalletInv
<1> QED
  BY HubWalletInvariant, <1>1, PTL

(* A page that congratulates on a channel is right, whichever of the       *)
(* answers of openChannel, payInvoice and the polls comes first, through   *)
(* reloads and for any number of channels and orders (ChannelOrder,        *)
(* useWaitForNewChannel, AutoChannel and FirstChannel).                    *)
THEOREM ChannelPagesAreRight == HubWalletSpec => []SuccessIsRight
<1>1. HubWalletInv => SuccessIsRight
  BY ChannelsInvMeans DEF HubWalletInv
<1> QED
  BY HubWalletInvariant, <1>1, PTL

(* The deposit the order page recommends is enough, for every size of the  *)
(* channel, every fee and every balance (PayBitcoinChannelOrderTopup).     *)
THEOREM OneTopupSuffices == HubWalletSpec => []TopupIsEnough
<1>1. HubWalletInv => TopupIsEnough
  BY ChannelsInvMeans DEF HubWalletInv
<1> QED
  BY HubWalletInvariant, <1>1, PTL

(* A sub-wallet is isolated as long as it lives, whatever two tabs that    *)
(* read it at different times write back (UpdateApp, handleConvertTo-      *)
(* Subwallet, CreateLightningAddress).                                     *)
THEOREM SubwalletsAreIsolated == HubWalletSpec => []SubwalletStaysIsolated
<1>1. HubWalletInv => SubwalletStaysIsolated
  BY AppsInvMeans DEF HubWalletInv
<1> QED
  BY HubWalletInvariant, <1>1, PTL

(* The budget of a plan lets the payments of a month through, for every    *)
(* amount, price and rate (ZapPlanner, SupportAlby).                       *)
THEOREM PlansFitTheirBudget == HubWalletSpec => []PlannedPaymentsFit
<1>1. HubWalletInv => PlannedPaymentsFit
  BY AppsInvMeans DEF HubWalletInv
<1> QED
  BY HubWalletInvariant, <1>1, PTL

(* Nothing is granted to an app that the user was not asked to confirm,    *)
(* from a page that knew the app; and superuser only with the unlock       *)
(* password (needsConfirmation of AppDetails, CreateApp).                  *)
THEOREM GrantsNeedConfirmation == HubWalletSpec => GrantsAreConfirmed
<1>1. HubWalletInv /\ [HubWalletNext]_allVars => [GrantIsConfirmed]_appVars
  BY HubWalletInvNext
<1>2. HubWalletSpec => [][GrantIsConfirmed]_appVars
  BY HubWalletInvariant, <1>1, PTL DEF HubWalletSpec
<1> QED
  BY <1>2 DEF GrantsAreConfirmed, GrantIsConfirmed

(* What the pages of the wallet say has happened has happened, and an      *)
(* invoice the form makes can be paid, for any rows, amounts, prices and   *)
(* limits of the provider (PaymentSuccess, OnchainSuccess, ReceiveInvoice, *)
(* ReceiveOnchain, FirstChannelJitAlert, useNotifyReceivedPayments).       *)
THEOREM PagesShowWhatIsReal == HubWalletSpec => []ShownIsReal
<1>1. HubWalletInv => ShownIsReal
  BY WalletInvMeans DEF HubWalletInv
<1> QED
  BY HubWalletInvariant, <1>1, PTL

(* A row that kept its place while the list was fetched page by page is in *)
(* the file, for any number of rows and any page size: rows that move go   *)
(* to the top, so that none that is still to come falls behind the offset  *)
(* (handleExportTransactions, ListTransactions).                           *)
THEOREM ExportsMissNothing == HubWalletSpec => []ExportIsComplete
<1>1. HubWalletInv => ExportIsComplete
  BY WalletInvMeans DEF HubWalletInv
<1> QED
  BY HubWalletInvariant, <1>1, PTL
=============================================================================
