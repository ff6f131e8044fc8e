------------------------------ MODULE Channels ------------------------------
(***************************************************************************)
(* Opening, watching and managing lightning channels in a browser tab:     *)
(* the channel order that is kept in localStorage, the order page, the     *)
(* forms that make orders, channels bought through Alby, the node page     *)
(* with its dialogs, peers and deposits (frontend/src/screens/channels,    *)
(* peers and onchain).                                                     *)
(*                                                                         *)
(* The hub's node, the chain and the liquidity provider are external: a    *)
(* channel that is opening comes online or is closed, an order that is     *)
(* paid for is opened, and anyone may open a channel to the hub.  Amounts  *)
(* are in units of 10,000 sats where only their order matters.             *)
(***************************************************************************)
EXTENDS Integers, FiniteSets, FiniteSetsExt

CONSTANTS
    Chans,          \* channels there may be, a set of positive integers
    MaxOrders,      \* channel orders the user makes
    OrderAmount,    \* the size of an ordered channel, in sats
    FeeEstimate,    \* the estimated fee of a funding transaction, in sats
    ChannelVisits   \* what the user has come for, a subset of DOMAIN ChannelVisitTable

VARIABLES
    channel,        \* the hub's channels
    order,          \* useChannelOrderStore, kept in localStorage
    orders,         \* orders made so far
    openReq,        \* the request of openChannel: POST /api/peers, then /api/channels
    lsp,            \* what the liquidity provider knows of an order
    payReq,         \* the order whose invoice the hub is paying
    onchain,        \* the on-chain balance, in sats
    peered,         \* the channel partner is connected
    chanTab,        \* the tab
    late,           \* an answer for one order was applied to another
    chanVisit       \* what the user has come for

node == <<channel, lsp, onchain, peered>>
chanVars == <<node, order, orders, openReq, payReq, chanTab, late, chanVisit>>

(* What a visit needs: the pages it leads to, the orders made, the         *)
(* channels there are already and may be, whether others open channels to  *)
(* the hub, whether there are on-chain funds and pages are loaded again.   *)
NoVisit == [pages |-> {}, orders |-> 1, old |-> {}, room |-> {1, 2}, others |-> FALSE,
            rich |-> {FALSE}, reloads |-> TRUE]
ChannelVisitTable ==
    [onchain |-> [NoVisit EXCEPT !.pages = {"outgoing", "order"}, !.rich = BOOLEAN],
     twice |-> [NoVisit EXCEPT !.pages = {"outgoing", "order"}, !.orders = 2,
                               !.rich = {TRUE}, !.reloads = FALSE],
     lightning |-> [NoVisit EXCEPT !.pages = {"incoming", "order"}, !.old = {1}, !.room = {1, 2, 3},
                                   !.others = TRUE],
     auto |-> [NoVisit EXCEPT !.pages = {"auto"}, !.old = {1}, !.room = {1, 2, 3}, !.others = TRUE],
     first |-> [NoVisit EXCEPT !.pages = {"first"}],
     manage |-> [NoVisit EXCEPT !.pages = {"channels", "peers", "peers/new", "deposit", "buy"},
                                !.orders = 0, !.old = {1}, !.others = TRUE]]
Visit == ChannelVisitTable[chanVisit]

(* routes.tsx *)
WaitingPages == {"auto/opening", "auto/opened", "first/opening", "first/opened"}
ChannelPages == WaitingPages \cup {"channels", "outgoing", "incoming", "order", "auto", "first", "peers",
                                   "peers/new", "deposit", "buy"}

ASSUME ChannelsAssumption ==
    /\ 1 \in Chans
    /\ Chans \subseteq Nat \ {0} /\ IsFiniteSet(Chans)
    /\ {MaxOrders, OrderAmount, FeeEstimate} \subseteq Nat /\ FeeEstimate > 0
    /\ ChannelVisits \subseteq DOMAIN ChannelVisitTable

Numbers == 0..MaxOrders
NoOrder == [n |-> 0, pay |-> "onchain", status |-> "none", prev |-> {}, funding |-> 0]
NoRequest == [at |-> "none", n |-> 0, chan |-> 0]

ChannelTypeOK ==
    /\ channel \in [Chans -> [state : {"none", "opening", "online", "closed"}, by : Numbers,
                              funded : BOOLEAN, outbound : BOOLEAN, was : BOOLEAN]]
    /\ order \in [n : Numbers, pay : {"onchain", "lightning"},
                  status : {"none", "pay", "paid", "opening", "success"},
                  prev : SUBSET Chans, funding : {0} \cup Chans]
    /\ orders \in Numbers
    /\ openReq \in [at : {"none", "connect", "open", "answered"}, n : Numbers, chan : {0} \cup Chans]
    /\ lsp \in [1..MaxOrders -> {"none", "asked", "invoice", "paid", "opened"}]
    /\ payReq \in Numbers
    /\ onchain \in [total : Nat, spendable : Nat]
    /\ peered \in BOOLEAN
    /\ chanTab \in [page : ChannelPages, loaded : BOOLEAN, prev : SUBSET Chans,
                    seen : [Chans -> {"none", "unfunded", "opening", "online"}],
                    mounted : BOOLEAN, started : BOOLEAN, asked : BOOLEAN,
                    of : {0} \cup Chans, dialog : {"no", "confirm", "close", "fee", "rebalance"},
                    step : 0..4, deposit : {"no", "pending", "confirmed"}]
    /\ late \in BOOLEAN /\ chanVisit \in ChannelVisits

FreshTab(p, started) ==
    [page |-> p, loaded |-> FALSE, seen |-> [c \in Chans |-> "none"], prev |-> {}, mounted |-> FALSE,
     started |-> started, asked |-> FALSE, of |-> 0, dialog |-> "no", step |-> 0,
     deposit |-> "no"]

ChannelInit ==
    /\ chanVisit \in ChannelVisits
    /\ channel = [c \in Chans |-> LET old == c \in Visit.old IN
                    [state |-> IF old THEN "online" ELSE "none", by |-> 0, funded |-> old,
                     outbound |-> FALSE, was |-> old]]
    /\ order = NoOrder /\ orders = 0
    /\ openReq = NoRequest /\ payReq = 0
    /\ lsp = [n \in 1..MaxOrders |-> "none"]
    /\ \E rich \in Visit.rich : LET sats == IF rich THEN 2 * OrderAmount ELSE 0 IN
                                onchain = [total |-> sats, spendable |-> sats]
    /\ peered = FALSE /\ late = FALSE
    /\ \E p \in Visit.pages \ {"order"} : chanTab = FreshTab(p, FALSE)

(***************************************************************************)
(* The node and those outside                                              *)
(***************************************************************************)
Live == {c \in Chans : channel[c].state \in {"opening", "online"}}
Unused == {c \in Chans \cap Visit.room : channel[c].state = "none"}

NewChannel(c, by, outbound) ==
    [channel EXCEPT ![c] = [state |-> "opening", by |-> by, funded |-> outbound,
                            outbound |-> outbound, was |-> FALSE]]

(* Someone opens a channel to the hub; its funding transaction is known    *)
(* later.                                                                  *)
PeerOpens(c) ==
    /\ c \in Unused /\ Visit.others
    /\ channel' = NewChannel(c, 0, FALSE)
    /\ UNCHANGED <<order, orders, openReq, lsp, payReq, onchain, peered, chanTab, late, chanVisit>>

ChannelFunded(c) ==
    /\ c \in Live /\ ~channel[c].funded
    /\ channel' = [channel EXCEPT ![c].funded = TRUE]
    /\ UNCHANGED <<order, orders, openReq, lsp, payReq, onchain, peered, chanTab, late, chanVisit>>

ChannelOnline(c) ==
    /\ channel[c].state = "opening" /\ channel[c].funded
    /\ channel' = [channel EXCEPT ![c].state = "online", ![c].was = TRUE]
    /\ UNCHANGED <<order, orders, openReq, lsp, payReq, onchain, peered, chanTab, late, chanVisit>>

(* The liquidity provider opens the channel of an order that is paid for.  *)
LspOpens(n, c) ==
    /\ lsp[n] = "paid" /\ c \in Unused
    /\ lsp' = [lsp EXCEPT ![n] = "opened"]
    /\ channel' = NewChannel(c, n, FALSE)
    /\ UNCHANGED <<order, orders, openReq, payReq, onchain, peered, chanTab, late, chanVisit>>

(* An invoice of the liquidity provider is paid from another wallet.       *)
PaidExternally(n) ==
    /\ lsp[n] = "invoice"
    /\ lsp' = [lsp EXCEPT ![n] = "paid"]
    /\ UNCHANGED <<channel, order, orders, openReq, payReq, onchain, peered, chanTab, late, chanVisit>>

DepositConfirms ==
    /\ onchain.spendable < onchain.total
    /\ onchain' = [onchain EXCEPT !.spendable = onchain.total]
    /\ UNCHANGED <<channel, lsp, peered, order, orders, openReq, payReq, chanTab, late, chanVisit>>

(***************************************************************************)
(* The tab                                                                 *)
(***************************************************************************)
notTab == <<node, openReq, payReq, late, chanVisit>>

(* ChannelOrderStore: updateOrder merges into whatever order there is, for *)
(* the request of order n.                                                 *)
UpdateOrder(n, status, funding) ==
    /\ order' = [order EXCEPT !.status = status, !.funding = IF funding = 0 THEN @ ELSE funding]
    /\ late' = (late \/ n # order.n)

(* A page is opened.  useRemoveSuccessfulChannelOrder forgets an order     *)
(* that has succeeded when its page is left.                               *)
OpenChannelPage(p) ==
    /\ p \in Visit.pages /\ p # chanTab.page
    /\ chanTab' = FreshTab(p, chanTab.started)
    /\ order' = IF chanTab.page = "order" /\ order.status = "success" THEN NoOrder ELSE order
    /\ UNCHANGED <<notTab, orders>>

(* The hub opens the channel of an on-chain order.                         *)
OpensOnchain(n, c) ==
    /\ c \in Unused /\ onchain.spendable > OrderAmount
    /\ channel' = NewChannel(c, n, TRUE)
    /\ onchain' = [total |-> onchain.total - OrderAmount, spendable |-> onchain.spendable - OrderAmount]

(* The page is loaded again: what waits for an answer is gone, though the  *)
(* hub may have got the request, and the order is read from localStorage.  *)
(* The browser remembers which channel a page that waits for it is about.  *)
InHistory == chanTab.page \in WaitingPages
ReloadChannelPage ==
    /\ Visit.reloads /\ (chanTab.loaded \/ openReq # NoRequest \/ payReq # 0)
    /\ chanTab' = [FreshTab(chanTab.page, FALSE) EXCEPT
            !.of = IF InHistory THEN chanTab.of ELSE 0, !.mounted = InHistory,
            !.prev = IF InHistory THEN chanTab.prev ELSE {}]
    /\ openReq' = NoRequest /\ payReq' = 0
    /\ \/ openReq.at = "open" /\ \E c \in Chans : OpensOnchain(openReq.n, c)
       \/ UNCHANGED <<channel, onchain>>
    /\ UNCHANGED <<lsp, peered, order, orders, late, chanVisit>>

(* useChannels: what a channel looks like to the tab.                      *)
Look(c) ==
    IF c \notin Live THEN "none"
    ELSE IF channel[c].state = "online" THEN "online"
    ELSE IF channel[c].funded THEN "opening" ELSE "unfunded"
Shown == {c \in Chans : chanTab.seen[c] # "none"}
WithFunding == {c \in Chans : chanTab.seen[c] \in {"opening", "online"}}

(* Channels are polled.  The form of an incoming channel and the auto      *)
(* channel page remember the channels they first see.                      *)
PollChannels ==
    /\ chanTab' = [chanTab EXCEPT
            !.loaded = TRUE, !.seen = [c \in Chans |-> Look(c)],
            !.prev = IF chanTab.mounted THEN @ ELSE Live, !.mounted = TRUE]
    /\ chanTab' # chanTab
    /\ UNCHANGED <<notTab, order, orders>>

(***************************************************************************)
(* Making an order                                                         *)
(***************************************************************************)
SetOrder(pay, prev) ==
    /\ orders < Min({MaxOrders, Visit.orders})
    /\ orders' = orders + 1
    /\ order' = [n |-> orders + 1, pay |-> pay, status |-> "pay", prev |-> prev, funding |-> 0]

(* IncreaseOutgoingCapacity: the channels that keep the user from ordering *)
(* another one.                                                            *)
Unconfirmed == {c \in Shown : chanTab.seen[c] = "opening" /\ channel[c].outbound}

(* onSubmit, of the form: a dialog asks for confirmation.                  *)
SubmitOutgoing ==
    /\ chanTab.page = "outgoing" /\ chanTab.loaded /\ chanTab.dialog = "no"
    /\ chanTab' = [chanTab EXCEPT !.dialog = "confirm"]
    /\ UNCHANGED <<notTab, order, orders>>

(* handleConfirmSubmit, in the dialog.                                     *)
ConfirmOutgoing ==
    /\ chanTab.page = "outgoing" /\ chanTab.dialog = "confirm"
    /\ Unconfirmed = {}
    /\ SetOrder("onchain", {})
    /\ chanTab' = FreshTab("order", chanTab.started)
    /\ UNCHANGED notTab

(* IncreaseIncomingCapacity: the partners that sell such a channel and     *)
(* with whom there is no channel yet; the first is taken unless the user   *)
(* chooses one.  The model has one partner, who may serve several.         *)
OkPartners == IF OrderAmount >= 100000 THEN {"partner"} ELSE {}
SubmitIncoming ==
    /\ chanTab.page = "incoming" /\ chanTab.loaded /\ OkPartners # {}
    /\ SetOrder("lightning", chanTab.prev)
    /\ chanTab' = FreshTab("order", chanTab.started)
    /\ UNCHANGED notTab

(* No suggestions could be loaded: the user is sent to the other form.     *)
SuggestionsFail ==
    /\ chanTab.page = "incoming" /\ "outgoing" \in Visit.pages
    /\ chanTab' = FreshTab("outgoing", chanTab.started)
    /\ UNCHANGED <<notTab, order, orders>>

(***************************************************************************)
(* The order page                                                          *)
(***************************************************************************)
(* ChannelOrderInternal and PayBitcoinChannelOrder: what the page shows.   *)
PayBitcoinScreen ==
    IF onchain.spendable > OrderAmount THEN "open"
    ELSE IF onchain.total > OrderAmount THEN "wait for confirmation" ELSE "topup"

OrderScreen ==
    IF chanTab.page # "order" THEN "none"
    ELSE CASE order.status = "none" -> "no order"
           [] order.status = "pay" /\ order.pay = "onchain" -> PayBitcoinScreen
           [] order.status = "pay" /\ order.pay = "lightning" -> "buy"
           [] order.status = "paid" -> "wait for channel"
           [] order.status = "opening" -> "opening"
           [] order.status = "success" -> "success"

(* Variant: the fee of the funding transaction is forgotten.               *)
RecommendedTopupNoFee ==
    LET missing == OrderAmount - onchain.total IN ((missing + 9999) \div 10000) * 10000

(* The deposit the topup page recommends.                                  *)
RecommendedTopup ==
    LET missing == OrderAmount + FeeEstimate - onchain.total IN
    ((missing + 9999) \div 10000) * 10000

(* The user deposits it.                                                   *)
Topup ==
    /\ OrderScreen = "topup"
    /\ onchain' = [onchain EXCEPT !.total = @ + RecommendedTopup]
    /\ UNCHANGED <<channel, lsp, peered, order, orders, openReq, payReq, chanTab, late, chanVisit>>

(* There are funds: the channel is opened, once while the page is loaded.  *)
StartOpening ==
    /\ OrderScreen = "open" /\ ~chanTab.started /\ openReq = NoRequest
    /\ chanTab' = [chanTab EXCEPT !.started = TRUE]
    /\ openReq' = [at |-> IF peered THEN "open" ELSE "connect", n |-> order.n, chan |-> 0]
    /\ UNCHANGED <<node, order, orders, payReq, late, chanVisit>>

(* connectPeer, and the error that ends openChannel.                       *)
ConnectPeer ==
    /\ openReq.at = "connect"
    /\ \/ peered' = TRUE /\ openReq' = [openReq EXCEPT !.at = "open"]
       \/ peered' = peered /\ openReq' = NoRequest
    /\ UNCHANGED <<channel, lsp, onchain, order, orders, payReq, chanTab, late, chanVisit>>

OpenChannel ==
    /\ openReq.at = "open"
    /\ \/ \E c \in Chans : /\ OpensOnchain(openReq.n, c)
                           /\ openReq' = [openReq EXCEPT !.at = "answered", !.chan = c]
       \/ openReq' = NoRequest /\ UNCHANGED <<channel, onchain>>
    /\ UNCHANGED <<lsp, peered, order, orders, payReq, chanTab, late, chanVisit>>

OpenChannelAnswered ==
    /\ openReq.at = "answered"
    /\ UpdateOrder(openReq.n, "opening", openReq.chan)
    /\ openReq' = NoRequest
    /\ UNCHANGED <<node, orders, payReq, chanTab, chanVisit>>

(* Variant: any channel will do.                                           *)
AnyChannel(prev) == WithFunding

(* A channel that is not one of the earlier ones, with a funding           *)
(* transaction.                                                            *)
NewChannels(prev) == WithFunding \ prev

(* useWaitForNewChannel, while a lightning order is paid for and after.    *)
WaitForNewChannel ==
    /\ OrderScreen \in {"buy", "wait for channel"} /\ order.pay = "lightning"
    /\ chanTab.loaded /\ NewChannels(order.prev) # {}
    /\ UpdateOrder(order.n, "opening", Min(NewChannels(order.prev)))
    /\ UNCHANGED <<node, orders, openReq, payReq, chanTab, chanVisit>>

(* The provider is asked once per visit of the page, and answers with an   *)
(* invoice, or without one when Alby pays.                                 *)
RequestLspOrder ==
    /\ OrderScreen = "buy" /\ chanTab.loaded /\ ~chanTab.asked
    /\ chanTab' = [chanTab EXCEPT !.asked = TRUE]
    /\ \/ /\ lsp[order.n] = "none"
          /\ lsp' = [lsp EXCEPT ![order.n] = "invoice"]
          /\ UNCHANGED <<order, late>>
       \/ /\ lsp[order.n] = "none"
          /\ lsp' = [lsp EXCEPT ![order.n] = "paid"]
          /\ UpdateOrder(order.n, "paid", 0)
       \/ UNCHANGED <<lsp, order, late>>
    /\ UNCHANGED <<channel, onchain, peered, orders, openReq, payReq, chanVisit>>

(* The invoice is paid by the hub; the answer may come when the channel    *)
(* is long open.                                                           *)
PayInternally ==
    /\ OrderScreen = "buy" /\ chanTab.asked /\ lsp[order.n] = "invoice" /\ payReq = 0
    /\ payReq' = order.n
    /\ lsp' = [lsp EXCEPT ![order.n] = "paid"]
    /\ UNCHANGED <<channel, onchain, peered, order, orders, openReq, chanTab, late, chanVisit>>

PayInternallyAnswered ==
    /\ payReq # 0
    /\ UpdateOrder(payReq, "paid", 0)
    /\ payReq' = 0
    /\ UNCHANGED <<node, orders, openReq, chanTab, chanVisit>>

(* ChannelOpening: the channel with the funding transaction is active.     *)
ChannelOpened ==
    /\ OrderScreen = "opening" /\ order.funding # 0
    /\ chanTab.seen[order.funding] = "online"
    /\ UpdateOrder(order.n, "success", 0)
    /\ UNCHANGED <<node, orders, openReq, payReq, chanTab, chanVisit>>

(***************************************************************************)
(* Channels bought through Alby                                            *)
(***************************************************************************)
(* openChannel of AutoChannel: Alby answers with an invoice or opens the   *)
(* channel without one.                                                    *)
RequestAutoChannel ==
    /\ orders < Min({MaxOrders, Visit.orders}) /\ ~chanTab.asked
    /\ orders' = orders + 1
    /\ \E s \in {"invoice", "paid"} : lsp' = [lsp EXCEPT ![orders + 1] = s]
    /\ chanTab' = [chanTab EXCEPT !.asked = TRUE]
    /\ UNCHANGED <<channel, onchain, peered, order, openReq, payReq, late, chanVisit>>

OpenAutoChannel == chanTab.page = "auto" /\ chanTab.loaded /\ RequestAutoChannel

(* openChannel of FirstChannel: a card or a wallet must be the payment     *)
(* method chosen on the page and the one of the Alby account.              *)
PaymentMethods == {"card", "wallet", "prepaid", "included"}
OpenFirstChannel(offered, chosen) ==
    /\ chanTab.page = "first" /\ chanTab.loaded
    /\ offered \in {"card", "wallet"} => chosen = offered
    /\ RequestAutoChannel

Goes(p, of) ==
    /\ chanTab' = [chanTab EXCEPT !.page = p, !.of = of]
    /\ UNCHANGED <<notTab, order, orders>>

(* Effects of AutoChannel, OpeningAutoChannel, FirstChannel and            *)
(* OpeningFirstChannel.                                                    *)
AutoChannelAppears ==
    /\ chanTab.page = "auto" /\ NewChannels(chanTab.prev) # {}
    /\ Goes("auto/opening", Min(NewChannels(chanTab.prev)))

AutoChannelActive ==
    /\ chanTab.page = "auto/opening" /\ chanTab.of # 0 /\ chanTab.seen[chanTab.of] = "online"
    /\ Goes("auto/opened", chanTab.of)

FirstChannelAppears ==
    /\ chanTab.page = "first" /\ Shown # {}
    /\ Goes("first/opening", 0)

FirstChannelActive ==
    /\ chanTab.page = "first/opening" /\ Shown # {}
    /\ chanTab.seen[Min(Shown)] = "online"
    /\ Goes("first/opened", Min(Shown))

(* Without an Alby account a first channel is bought in the other form.    *)
NoAlbyAccount ==
    /\ chanTab.page = "first"
    /\ chanTab' = FreshTab("incoming", chanTab.started)
    /\ UNCHANGED <<notTab, order, orders>>

(***************************************************************************)
(* The node page, its dialogs and peers                                    *)
(***************************************************************************)
(* getNodeHealth, for balanced channels of OrderAmount with one partner    *)
(* each.                                                                   *)
NodeHealth ==
    LET partners == Cardinality(Shown)
        capacity == Min({partners * OrderAmount, 1000000})
        health == (partners * 50 * capacity + 999999) \div 1000000
    IN IF health > 95 THEN 100 ELSE health

(* ChannelDropdownMenu *)
MenuOffers(c) ==
    {"close"} \cup (IF chanTab.seen[c] = "online" THEN {"fee"} ELSE {})
    \cup (IF chanTab.seen[c] = "online" /\ Cardinality(Shown) > 1 THEN {"rebalance"} ELSE {})

OpenDialog(c, d) ==
    /\ chanTab.page = "channels" /\ chanTab.dialog = "no"
    /\ c \in Shown /\ d \in MenuOffers(c)
    /\ chanTab' = [chanTab EXCEPT !.dialog = d, !.of = c,
                                  !.step = IF chanTab.seen[c] = "online" THEN 2 ELSE 1]
    /\ UNCHANGED <<notTab, order, orders>>

CloseDialog ==
    /\ chanTab.dialog # "no"
    /\ chanTab' = [chanTab EXCEPT !.dialog = "no", !.of = 0, !.step = 0]
    /\ UNCHANGED <<notTab, order, orders>>

(* CloseChannelDialogContent asks twice, or once of an inactive channel.   *)
ContinueClosing ==
    /\ chanTab.dialog = "close" /\ chanTab.step \in {1, 2}
    /\ chanTab' = [chanTab EXCEPT !.step = @ + 1]
    /\ UNCHANGED <<notTab, order, orders>>

CloseChannel ==
    /\ chanTab.dialog = "close" /\ chanTab.step = 3
    /\ channel[chanTab.of].state \in {"opening", "online"}
    /\ channel' = [channel EXCEPT ![chanTab.of].state = "closed"]
    /\ chanTab' = [chanTab EXCEPT !.step = 4]
    /\ UNCHANGED <<lsp, onchain, peered, order, orders, openReq, payReq, late, chanVisit>>

(* RoutingFeeDialogContent and RebalanceChannelDialogContent: channels are *)
(* loaded again when they are done.                                        *)
Reloaded == [chanTab EXCEPT !.seen = [c \in Chans |-> Look(c)], !.dialog = "no", !.of = 0, !.step = 0]
UpdateFee ==
    /\ chanTab.dialog = "fee" /\ chanTab' = Reloaded
    /\ UNCHANGED <<notTab, order, orders>>

Rebalance ==
    /\ chanTab.dialog = "rebalance" /\ channel[chanTab.of].state = "online"
    /\ chanTab' = Reloaded
    /\ UNCHANGED <<notTab, order, orders>>

(* ConnectPeer, and Peers: a peer without channels can be disconnected.    *)
SubmitPeer ==
    /\ chanTab.page = "peers/new"
    /\ peered' = TRUE
    /\ chanTab' = FreshTab("peers", chanTab.started)
    /\ UNCHANGED <<channel, lsp, onchain, order, orders, openReq, payReq, late, chanVisit>>

PeerOffers == (IF Shown = {} THEN {"disconnect"} ELSE {}) \cup (IF peered THEN {} ELSE {"reconnect"})
DisconnectPeer ==
    /\ chanTab.page = "peers" /\ chanTab.loaded /\ peered /\ "disconnect" \in PeerOffers
    /\ peered' = FALSE
    /\ UNCHANGED <<channel, lsp, onchain, order, orders, openReq, payReq, chanTab, late, chanVisit>>

(***************************************************************************)
(* Deposits                                                                *)
(***************************************************************************)
(* The user pays to the address of DepositBitcoin, or buys with BuyBitcoin.*)
DepositMade ==
    /\ chanTab.page \in {"deposit", "buy"} /\ onchain.total = 0
    /\ onchain' = [onchain EXCEPT !.total = OrderAmount]
    /\ UNCHANGED <<channel, lsp, peered, order, orders, openReq, payReq, chanTab, late, chanVisit>>

(* The effect of DepositBitcoin: an unconfirmed output is watched until it *)
(* is confirmed.                                                           *)
WatchDeposit ==
    /\ chanTab.page = "deposit"
    /\ \/ /\ chanTab.deposit = "no" /\ onchain.total > onchain.spendable
          /\ chanTab' = [chanTab EXCEPT !.deposit = "pending"]
       \/ /\ chanTab.deposit = "pending" /\ onchain.total = onchain.spendable
          /\ chanTab' = [chanTab EXCEPT !.deposit = "confirmed"]
    /\ UNCHANGED <<notTab, order, orders>>

-----------------------------------------------------------------------------
ChannelScreensNext ==
    \/ \E p \in ChannelPages : OpenChannelPage(p)
    \/ ReloadChannelPage \/ PollChannels
    \/ SubmitOutgoing \/ ConfirmOutgoing \/ SubmitIncoming \/ SuggestionsFail
    \/ Topup \/ StartOpening \/ ConnectPeer \/ OpenChannel \/ OpenChannelAnswered
    \/ WaitForNewChannel \/ RequestLspOrder \/ PayInternally \/ PayInternallyAnswered
    \/ ChannelOpened
    \/ OpenAutoChannel \/ AutoChannelAppears \/ AutoChannelActive
    \/ \E o, c \in PaymentMethods : OpenFirstChannel(o, c)
    \/ FirstChannelAppears \/ FirstChannelActive \/ NoAlbyAccount
    \/ \E c \in Chans, d \in {"close", "fee", "rebalance"} : OpenDialog(c, d)
    \/ CloseDialog \/ ContinueClosing \/ CloseChannel \/ UpdateFee \/ Rebalance
    \/ SubmitPeer \/ DisconnectPeer \/ DepositMade \/ WatchDeposit

ChannelsNext ==
    \/ ChannelScreensNext
    \/ \E c \in Chans : PeerOpens(c) \/ ChannelFunded(c) \/ ChannelOnline(c)
    \/ \E n \in 1..MaxOrders : PaidExternally(n) \/ \E c \in Chans : LspOpens(n, c)
    \/ DepositConfirms

ChannelsSpec == ChannelInit /\ [][ChannelsNext]_chanVars

-----------------------------------------------------------------------------
(* A page that congratulates on a channel is right: the channel has been   *)
(* active; it was opened for this order, if the order was paid on chain;   *)
(* and it was not there when the form or the page was opened.  Not so for  *)
(* an order to which the answer for another one was applied (updateOrder). *)
(* And the health shown of the node is a percentage.                       *)
SuccessIsRight ==
    /\ OrderScreen = "success" /\ ~late =>
        /\ order.funding # 0 /\ channel[order.funding].was
        /\ order.pay = "onchain" => channel[order.funding].by = order.n
        /\ order.pay = "lightning" => order.funding \notin order.prev
    /\ chanTab.page = "auto/opened" => channel[chanTab.of].was /\ chanTab.of \notin chanTab.prev
    /\ chanTab.page = "first/opened" => channel[chanTab.of].was
    /\ NodeHealth \in 0..100

(* A deposit of the amount the order page recommends is enough: the page   *)
(* does not ask for another one (PayBitcoinChannelOrderTopup).             *)
TopupIsEnough == OrderScreen = "topup" => onchain.total + RecommendedTopup > OrderAmount
=============================================================================
