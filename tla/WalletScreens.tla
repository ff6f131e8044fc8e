---------------------------- MODULE WalletScreens ----------------------------
(***************************************************************************)
(* Sending, receiving and looking at payments in a browser tab             *)
(* (frontend/src/screens/wallet and the components its pages are made of): *)
(* lightning payments, on-chain payments, invoices, deposits, the list of  *)
(* transactions with its labels, its filters and its export.               *)
(*                                                                         *)
(* What the hub does with a payment is the subject of Transactions; here   *)
(* it is the least a page can rely on: a row that is made, settled or      *)
(* failed, and a list ordered by the last change.  Payers, payees, miners  *)
(* and the network between tab and hub are external.                       *)
(***************************************************************************)
EXTENDS Integers, FiniteSets, Sequences, FiniteSetsExt, SequencesExt

CONSTANTS
    MaxTx,          \* rows of transactions there may be
    ListSize,       \* LIST_TRANSACTIONS_LIMIT and EXPORT_TRANSACTIONS_PAGE_SIZE
    WalletVisits,   \* what the user has come for, a subset of DOMAIN WalletVisitTable
    Receipts,       \* amounts the user asks to be paid
    JitTerms,       \* [min, max]: payments the provider opens a channel for
    CentSats        \* the sats a cent buys

VARIABLES
    tx,             \* the hub's transactions
    history,        \* the listed ones, the last one changed first
    calls,          \* payments whose request has not been answered
    coins,          \* on-chain payments and what is left to spend
    coinCall,       \* the on-chain payment whose request has not been answered
    deposits,       \* deposits to the addresses of the hub
    terms,          \* [jit, public, receivable]: what the hub can receive
    walletTab,
    exporting,      \* handleExportTransactions
    walletVisit

walletVars == <<tx, history, calls, coins, coinCall, deposits, terms, walletTab, exporting, walletVisit>>

(* What a visit needs: the pages it leads to, the rows there may be and    *)
(* those there are: the first is a payment received, the others are being  *)
(* sent.                                                                   *)
WalletVisitTable ==
    [pay |-> [pages |-> {"wallet", "send", "confirm", "zero", "lnurl", "success"}, room |-> 2, old |-> 0],
     coin |-> [pages |-> {"send", "onchain", "onchain-success", "withdraw"}, room |-> 0, old |-> 0],
     get |-> [pages |-> {"receive", "invoice", "crypto", "offer"}, room |-> 3, old |-> 0],
     deposit |-> [pages |-> {"receive", "deposit"}, room |-> 0, old |-> 0],
     export |-> [pages |-> {"wallet"}, room |-> 4, old |-> 3],
     labels |-> [pages |-> {"wallet"}, room |-> 3, old |-> 2]]
WalletPages == UNION {WalletVisitTable[v].pages : v \in DOMAIN WalletVisitTable}
Leads(p) == p \in WalletVisitTable[walletVisit].pages

ASSUME WalletAssumption ==
    /\ MaxTx \in Nat /\ MaxTx > 2
    /\ ListSize \in Nat \ {0}
    /\ WalletVisits \subseteq DOMAIN WalletVisitTable
    /\ Receipts \subseteq Nat \ {0}
    /\ JitTerms \in [min : Nat \ {0}, max : Nat]
    /\ CentSats \in Nat \ {0}

TxIds == 1..MaxTx
Deposits == {1, 2}
CoinIds == {1, 2}
MaxSaves == 1                                        \* edits of labels
Labels == {"note", "tag"}
NoLabel == ""        \* a row of the editor that nobody has filled in
Filters == {"none", "incoming", "outgoing", "hideFailed"}
Ids == TxIds \cup {0}

NoTx == [type |-> "none", state |-> "none", inv |-> 0, fits |-> FALSE, labels |-> {}]
OldTx(type, state) == [NoTx EXCEPT !.type = type, !.state = state]
NoExport == [at |-> "idle", offset |-> 0, rows |-> {}, listed |-> {}, moved |-> {}]
FreshWalletTab(p) ==
    [page |-> p, of |-> 0, call |-> 0, error |-> FALSE, swapAlert |-> FALSE, funds |-> 0, seen |-> FALSE,
     confirm |-> FALSE, before |-> {}, asking |-> FALSE, done |-> FALSE, probe |-> "none", probing |-> "no", hint |-> FALSE,
     filter |-> "none", listPage |-> 1, editing |-> 0, rows |-> {}, fiat |-> FALSE, over |-> 0, latest |-> <<>>, toasts |-> 0, saves |-> 0]

WalletTypeOK ==
    /\ tx \in [TxIds -> [type : {"none", "incoming", "outgoing"},
                         state : {"none", "open", "pending", "settled", "failed"},
                         inv : Ids, fits : BOOLEAN, labels : SUBSET Labels]]
    /\ history \in Seq(TxIds) /\ IsInjective(history)
    /\ calls \subseteq TxIds
    /\ coins \in [sent : [CoinIds -> {"none", "mempool", "confirmed"}], funds : 0..2]
    /\ coinCall \in [of : 0..2, page : {"none", "onchain", "withdraw"}]
    /\ deposits \in [addr : 1..2, utxo : [Deposits -> [state : {"none", "mempool", "replaced", "confirmed"}, to : 0..2]]]
    /\ terms \in [jit : BOOLEAN, public : BOOLEAN, receivable : Nat]
    /\ walletTab.page \in WalletPages /\ walletTab.of \in Ids /\ walletTab.call \in Ids
    /\ walletTab.before \subseteq Deposits /\ walletTab.rows \subseteq Labels \cup {NoLabel}
    /\ walletTab.probe \in {"none", "loading", "ok", "failed"} /\ walletTab.filter \in Filters
    /\ walletTab.fiat \in BOOLEAN /\ walletTab.over \in Nat /\ walletTab.toasts \in Nat /\ walletTab.saves \in 0..MaxSaves /\ walletTab.listPage \in Nat
    /\ exporting.at \in {"idle", "running", "saved"} /\ exporting.rows \subseteq TxIds
    /\ walletVisit \in WalletVisits

WalletInit ==
    /\ walletVisit \in WalletVisits
    /\ LET old == WalletVisitTable[walletVisit].old IN
        /\ tx = [i \in TxIds |-> IF i > old THEN NoTx
                                 ELSE IF i = 1 THEN OldTx("incoming", "settled") ELSE OldTx("outgoing", "pending")]
        /\ history = [k \in 1..old |-> old + 1 - k]
    /\ calls = {} /\ coinCall = [of |-> 0, page |-> "none"]
    /\ coins = [sent |-> [c \in CoinIds |-> "none"], funds |-> 2]
    /\ \E d \in {"none", "confirmed"} :
        deposits = [addr |-> 1, utxo |-> [i \in Deposits |-> IF i = 1 /\ walletVisit = "deposit" THEN [state |-> d, to |-> 1]
                                                             ELSE [state |-> "none", to |-> 0]]]
    /\ IF walletVisit = "get" THEN terms \in {n \in [jit : BOOLEAN, public : BOOLEAN, receivable : {0, 5}] : n.public => n.jit}
       ELSE terms = [jit |-> FALSE, public |-> FALSE, receivable |-> 5]
    /\ \E p \in {"wallet", "send", "receive"} : Leads(p) /\ walletTab = FreshWalletTab(p)
    /\ exporting = NoExport

(***************************************************************************)
(* The hub: rows of transactions and their order                           *)
(***************************************************************************)
FreeIds == {i \in TxIds : i <= WalletVisitTable[walletVisit].room /\ tx[i].type = "none"}
NextId == Min(FreeIds)

(* ListTransactions orders by updated_at: a row that changes is listed     *)
(* first.  A label is written without touching updated_at.                 *)
PlaceOf(i) == Min({Len(history) + 1} \cup {k \in DOMAIN history : history[k] = i})
ToTop(i) == <<i>> \o RemoveAt(history, PlaceOf(i))
Touch(i) ==
    /\ history' = ToTop(i)
    /\ exporting' = IF exporting.at = "running" THEN [exporting EXCEPT !.moved = @ \cup {i}] ELSE exporting

OnlyWallet(t) ==
    /\ walletTab' = t
    /\ UNCHANGED <<tx, history, calls, coins, coinCall, deposits, terms, exporting, walletVisit>>

(* Only the rows change, and with them the list.                           *)
RowBecomes(i, state) ==
    /\ tx' = [tx EXCEPT ![i].state = state]
    /\ Touch(i)
    /\ UNCHANGED <<calls, coins, coinCall, deposits, terms, walletTab, walletVisit>>

PaymentSettles(i) == tx[i].type = "outgoing" /\ tx[i].state = "pending" /\ RowBecomes(i, "settled")
PaymentFails(i) == tx[i].type = "outgoing" /\ tx[i].state = "pending" /\ RowBecomes(i, "failed")
InvoiceSettles(i) == tx[i].state = "open" /\ tx[i].fits /\ RowBecomes(i, "settled")

(* A payment arrives that no page asked for, by keysend or an offer.       *)
PaymentArrives ==
    /\ walletVisit \in {"export", "labels"} /\ FreeIds # {}
    /\ tx' = [tx EXCEPT ![NextId] = OldTx("incoming", "settled")]
    /\ Touch(NextId)
    /\ UNCHANGED <<calls, coins, coinCall, deposits, terms, walletTab, walletVisit>>

(***************************************************************************)
(* Pages                                                                   *)
(***************************************************************************)
(* What the pages that change something need before they are shown: the    *)
(* payment or address that the page before handed over, kept in the        *)
(* browser's history, or they go back to the start.                        *)
Handed(p) == p \in {"wallet", "send", "receive", "invoice", "crypto", "offer", "deposit", "withdraw"}

(* Opening a page mounts it anew; the notifications of the layout live on. *)
Mount(p) ==
    [FreshWalletTab(p) EXCEPT !.funds = coins.funds, !.latest = walletTab.latest, !.toasts = walletTab.toasts,
                              !.saves = walletTab.saves, !.filter = walletTab.filter,
                              !.before = {d \in Deposits : deposits.utxo[d].state = "confirmed"},
                              !.probe = IF p = "receive" /\ terms.jit THEN "loading" ELSE "none"]

OpenWalletPage(p) ==
    /\ Leads(p) /\ Handed(p)
    /\ p = "receive" => walletVisit # "get" \/ terms.jit
    /\ OnlyWallet(Mount(p))

(* Loading the page again drops what the tab waited for, not the state of  *)
(* the browser's history; the hub goes on.                                 *)
ReloadWallet ==
    /\ walletTab' = [Mount(walletTab.page) EXCEPT
                        !.of = IF walletTab.page \in {"confirm", "zero", "lnurl", "success", "onchain", "onchain-success"}
                               THEN walletTab.of ELSE 0,
                        !.latest = <<>>, !.filter = "none"]
    /\ calls' = {} /\ coinCall' = [of |-> 0, page |-> "none"]
    /\ exporting' = IF exporting.at = "running" THEN NoExport ELSE exporting
    /\ UNCHANGED <<tx, history, coins, deposits, terms, walletVisit>>

(***************************************************************************)
(* Sending                                                                 *)
(***************************************************************************)
(* parseBip21: an address, which may be missing, and parameters; nothing   *)
(* after the scheme is an error.                                           *)
Recipients ==
    [is : {"bip21"}, address : {"none", "bad", "good"}, lightning : {"none", "fixed", "zero"}]
    \cup [is : {"bitcoin", "address", "garbage"}, address : {"none"}, lightning : {"none"}]
    \cup [is : {"invoice"}, address : {"none"}, lightning : {"fixed", "zero"}]
InvoicePage(lightning) == IF lightning = "zero" THEN "zero" ELSE "confirm"
HandleBip21(r) ==
    CASE r.lightning # "none" -> InvoicePage(r.lightning)
      [] r.lightning = "none" /\ r.address = "good" -> "onchain"
      [] OTHER -> "error"
RecipientPage(r) ==
    CASE r.is = "bip21" -> HandleBip21(r)
      [] r.is = "bitcoin" -> "onchain"
      [] r.is = "address" -> "lnurl"
      [] r.is = "invoice" -> InvoicePage(r.lightning)
      [] OTHER -> "error"

SubmitRecipient(r) ==
    LET p == RecipientPage(r) IN
    /\ walletTab.page = "send"
    /\ IF p = "error" THEN OnlyWallet([walletTab EXCEPT !.swapAlert = TRUE])
       ELSE Leads(p) /\ OnlyWallet(Mount(p))

(* POST /api/payments: the hub refuses an invoice that is paid or being    *)
(* paid.  Invoice 0 is the one the user holds, any other was asked for by  *)
(* the page.                                                               *)
PayRefuses(inv) ==
    \E i \in TxIds : tx[i].type = "outgoing" /\ tx[i].inv = inv /\ tx[i].state \in {"pending", "settled"}
PayInvoice(inv) ==
    IF PayRefuses(inv) THEN OnlyWallet([walletTab EXCEPT !.error = TRUE])
    ELSE /\ FreeIds # {}
         /\ tx' = [tx EXCEPT ![NextId] = [OldTx("outgoing", "pending") EXCEPT !.inv = inv]]
         /\ Touch(NextId)
         /\ calls' = calls \cup {NextId}
         /\ walletTab' = [walletTab EXCEPT !.call = NextId, !.error = FALSE]
         /\ UNCHANGED <<coins, coinCall, deposits, terms, walletVisit>>

ConfirmPayment == walletTab.page = "confirm" /\ walletTab.call = 0 /\ PayInvoice(0)
ZeroAmount == walletTab.page = "zero" /\ walletTab.call = 0 /\ PayInvoice(0)
(* A lightning address gives a new invoice for every try.                  *)
LnurlPay == walletTab.page = "lnurl" /\ walletTab.call = 0 /\ FreeIds # {} /\ PayInvoice(NextId)

(* The answer: a preimage leads to the success page, also when the page    *)
(* that asked was left.  An error of the hub, its timeout while the        *)
(* payment is pending, and a lost connection are an error on the page, if  *)
(* it is still there.                                                      *)
PaymentAnswered(i) ==
    /\ i \in calls /\ tx[i].state = "settled"
    /\ calls' = calls \ {i}
    /\ walletTab' = [Mount("success") EXCEPT !.of = i]
    /\ UNCHANGED <<tx, history, coins, coinCall, deposits, terms, exporting, walletVisit>>
PaymentRefused(i) ==
    /\ i \in calls
    /\ calls' = calls \ {i}
    /\ walletTab' = IF walletTab.call = i THEN [walletTab EXCEPT !.call = 0, !.error = TRUE] ELSE walletTab
    /\ UNCHANGED <<tx, history, coins, coinCall, deposits, terms, exporting, walletVisit>>

(* POST /api/wallet/redeem-onchain-funds, from the send page or with the   *)
(* confirmation of the withdraw page, for an amount or for all.  The       *)
(* balance a page knows is the one it was opened with.                     *)
RedeemFunds(page, all) ==
    /\ walletTab.page = page /\ walletTab.call = 0 /\ walletTab.of = 0 /\ walletTab.funds > 0
    /\ page = "withdraw" <=> walletTab.confirm
    /\ all => page = "withdraw"
    /\ coinCall.of = 0
    /\ IF coins.funds = 0 THEN OnlyWallet([walletTab EXCEPT !.error = TRUE, !.confirm = FALSE])
       ELSE LET c == Min({s \in CoinIds : coins.sent[s] = "none"}) IN
            /\ coins' = [sent |-> [coins.sent EXCEPT ![c] = "mempool"], funds |-> IF all THEN 0 ELSE coins.funds - 1]
            /\ coinCall' = [of |-> c, page |-> page]
            /\ walletTab' = [walletTab EXCEPT !.call = c, !.confirm = FALSE]
            /\ UNCHANGED <<tx, history, calls, deposits, terms, exporting, walletVisit>>

ConfirmWithdrawal ==
    /\ walletTab.page = "withdraw" /\ ~walletTab.confirm /\ walletTab.call = 0 /\ walletTab.of = 0
    /\ OnlyWallet([walletTab EXCEPT !.confirm = TRUE])

(* The answer with the transaction id, or none: it is sent all the same.   *)
CoinAnswered ==
    /\ coinCall.of # 0
    /\ coinCall' = [of |-> 0, page |-> "none"]
    /\ walletTab' = IF coinCall.page = "onchain" THEN [Mount("onchain-success") EXCEPT !.of = coinCall.of]
                    ELSE IF walletTab.call = coinCall.of /\ walletTab.page = "withdraw"
                    THEN [walletTab EXCEPT !.call = 0, !.of = coinCall.of] ELSE walletTab
    /\ UNCHANGED <<tx, history, calls, coins, deposits, terms, exporting, walletVisit>>
CoinAnswerLost ==
    /\ coinCall.of # 0
    /\ coinCall' = [of |-> 0, page |-> "none"]
    /\ walletTab' = IF walletTab.call = coinCall.of THEN [walletTab EXCEPT !.call = 0, !.error = TRUE] ELSE walletTab
    /\ UNCHANGED <<tx, history, calls, coins, deposits, terms, exporting, walletVisit>>

CoinConfirmed(c) ==
    /\ coins.sent[c] = "mempool"
    /\ coins' = [coins EXCEPT !.sent[c] = "confirmed"]
    /\ UNCHANGED <<tx, history, calls, coinCall, deposits, terms, walletTab, exporting, walletVisit>>

(* OnchainSuccess asks the mempool every three seconds.                    *)
PollMempool ==
    /\ walletTab.page = "onchain-success"
    /\ OnlyWallet([walletTab EXCEPT !.seen = coins.sent[walletTab.of] = "confirmed"])

(***************************************************************************)
(* Receiving                                                               *)
(***************************************************************************)
(* ReceiveInvoice: the least and the most its form takes.  The first       *)
(* payment of a hub without channels must pay for the channel.             *)
JitMinimumReceive == IF terms.receivable = 0 /\ terms.jit THEN JitTerms.min ELSE 1
JitMaximumReceive == IF terms.jit THEN JitTerms.max ELSE terms.receivable

(* CurrencyInputField: what is typed is sats, or cents that are worth      *)
(* sats; a bound in cents is rounded to a whole one.                       *)
ModeBound(sats) == IF walletTab.fiat THEN (2 * sats + CentSats) \div (2 * CentSats) ELSE sats
TypedSats(v) == IF walletTab.fiat THEN v * CentSats ELSE v
FormTakes(v) == ModeBound(JitMinimumReceive) <= v /\ v <= ModeBound(JitMaximumReceive)
ToggleMode ==
    /\ walletTab.page = "invoice" /\ walletTab.of = 0
    /\ OnlyWallet([walletTab EXCEPT !.fiat = ~@])

(* MakeInvoice of the LDK client: a channel is asked for when the payment  *)
(* would not fit, unless there is a public one; the provider refuses what  *)
(* is outside its limits.                                                  *)
IsJitInvoice(a) == terms.jit /\ ~terms.public /\ a > terms.receivable
ProviderTakes(a) == JitTerms.min <= a /\ a <= JitTerms.max
CanReceive(a) == a <= terms.receivable \/ (IsJitInvoice(a) /\ ProviderTakes(a))
LikelyTooSmallForNewChannel(a) == terms.jit /\ terms.receivable > 0 /\ a < JitTerms.min /\ a > terms.receivable

NewInvoice(a, t) ==
    /\ FreeIds # {}
    /\ tx' = [tx EXCEPT ![NextId] = [NoTx EXCEPT !.type = "incoming", !.state = "open", !.fits = CanReceive(a)]]
    /\ walletTab' = t
    /\ UNCHANGED <<history, calls, coins, coinCall, deposits, terms, exporting, walletVisit>>

SubmitInvoice(v) ==
    LET a == TypedSats(v)
        over == Max({0, a - JitMaximumReceive})
    IN /\ walletTab.page = "invoice" /\ walletTab.of = 0 /\ FormTakes(v)
       /\ IF IsJitInvoice(a) /\ ~ProviderTakes(a)
          THEN OnlyWallet([walletTab EXCEPT !.error = TRUE, !.hint = LikelyTooSmallForNewChannel(a) \/ walletTab.fiat])
          ELSE NewInvoice(a, [walletTab EXCEPT !.of = NextId, !.error = FALSE, !.over = over])

(* ReceiveOnchain with another currency: an invoice that Fixed Float pays. *)
SubmitCrypto(a) ==
    /\ walletTab.page = "crypto" /\ walletTab.of = 0 /\ a <= terms.receivable
    /\ NewInvoice(a, [walletTab EXCEPT !.of = NextId])

PollInvoice ==
    /\ walletTab.page \in {"invoice", "crypto"} /\ walletTab.of # 0
    /\ LET settled == tx[walletTab.of].state = "settled" IN
       OnlyWallet([walletTab EXCEPT !.done = settled \/ (walletTab.page = "crypto" /\ walletTab.done)])

(* Variant: paymentDone is not taken back for the next payment.            *)
AnotherPaymentStillDone ==
    /\ walletTab.page \in {"invoice", "crypto"} /\ walletTab.done /\ walletTab.of # 0
    /\ OnlyWallet([walletTab EXCEPT !.of = 0, !.over = 0, !.done = walletTab.page = "crypto"])
AnotherPayment ==
    /\ walletTab.page \in {"invoice", "crypto"} /\ walletTab.done /\ walletTab.of # 0
    /\ OnlyWallet([walletTab EXCEPT !.of = 0, !.over = 0, !.done = FALSE])

SubmitOffer ==
    /\ walletTab.page = "offer" /\ ~walletTab.done
    /\ OnlyWallet([walletTab EXCEPT !.done = TRUE])

(* FirstChannelJitAlert asks for an invoice of the least amount, once, and *)
(* waits five seconds; a later answer still counts.  The provider may not  *)
(* be there.                                                               *)
Probe ==
    /\ walletTab.page = "receive" /\ walletTab.probe = "loading" /\ walletTab.probing = "no"
    /\ \/ /\ IsJitInvoice(JitTerms.min) => ProviderTakes(JitTerms.min)
          /\ NewInvoice(JitTerms.min, [walletTab EXCEPT !.probing = "made"])
       \/ IsJitInvoice(JitTerms.min) /\ OnlyWallet([walletTab EXCEPT !.probing = "refused"])
ProbeAnswered ==
    /\ walletTab.probing \in {"made", "refused"}
    /\ OnlyWallet([walletTab EXCEPT !.probe = IF walletTab.probing = "made" THEN "ok" ELSE "failed",
                                    !.probing = "answered"])
ProbeTimeout ==
    /\ walletTab.probe = "loading"
    /\ OnlyWallet([walletTab EXCEPT !.probe = "failed"])
FirstChannelAlert ==
    CASE walletTab.probe = "failed" -> IF terms.receivable = 0 THEN "cannot receive yet" ELSE "up to your capacity"
      [] walletTab.probe = "ok" /\ terms.receivable = 0 -> "first payment opens a channel"
      [] OTHER -> "none"

(* Deposits: a transaction to an address, replaced or confirmed.           *)
UtxoBecomes(d, u) ==
    /\ deposits' = [deposits EXCEPT !.utxo[d] = u]
    /\ UNCHANGED <<tx, history, calls, coins, coinCall, terms, walletTab, exporting, walletVisit>>
UtxoMade(d) ==
    /\ walletVisit = "deposit" /\ deposits.utxo[d].state = "none"
    /\ \E a \in 1..deposits.addr : UtxoBecomes(d, [state |-> "mempool", to |-> a])
UtxoReplaced(d) == deposits.utxo[d].state = "mempool" /\ UtxoBecomes(d, [deposits.utxo[d] EXCEPT !.state = "replaced"])
UtxoConfirmed(d) == deposits.utxo[d].state = "mempool" /\ UtxoBecomes(d, [deposits.utxo[d] EXCEPT !.state = "confirmed"])

Utxos(state) == {d \in Deposits : deposits.utxo[d].state = state /\ deposits.utxo[d].to = deposits.addr}

(* ReceiveToOnchain: the deposit it has found, until it is confirmed; else *)
(* one that is not confirmed, else one confirmed since the start.          *)
WatchUtxos ==
    /\ walletTab.page = "deposit"
    /\ IF walletTab.of # 0
       THEN /\ walletTab.of \in Utxos("confirmed")
            /\ OnlyWallet([walletTab EXCEPT !.done = TRUE])
       ELSE IF Utxos("mempool") # {}
       THEN \E d \in Utxos("mempool") : OnlyWallet([walletTab EXCEPT !.of = d])
       ELSE \E d \in Utxos("confirmed") \ walletTab.before : OnlyWallet([walletTab EXCEPT !.of = d, !.done = TRUE])

(* receiveAnother forgets the deposit and starts anew, then asks for an    *)
(* address, which may fail.                                                *)
ReceiveAnother ==
    /\ walletTab.page = "deposit" /\ walletTab.done
    /\ OnlyWallet([walletTab EXCEPT !.of = 0, !.done = FALSE, !.asking = TRUE,
                                    !.before = {d \in Deposits : deposits.utxo[d].state = "confirmed"}])
GetNewAddress ==
    /\ walletTab.page = "deposit" /\ deposits.addr = 1
    /\ walletTab.asking \/ walletTab.of = 0
    /\ \E ok \in BOOLEAN : deposits' = [deposits EXCEPT !.addr = IF ok THEN 2 ELSE 1]
    /\ walletTab' = [walletTab EXCEPT !.asking = FALSE]
    /\ UNCHANGED <<tx, history, calls, coins, coinCall, terms, exporting, walletVisit>>

(***************************************************************************)
(* The list of transactions                                                *)
(***************************************************************************)
(* TransactionItem *)
TypeStateText(i) ==
    CASE tx[i].type = "incoming" -> "Received"
      [] tx[i].type = "outgoing" /\ tx[i].state = "settled" -> "Sent"
      [] tx[i].type = "outgoing" /\ tx[i].state = "pending" -> "Sending"
      [] OTHER -> "Failed"

Passes(i, f) ==
    CASE f = "incoming" -> tx[i].type = "incoming"
      [] f = "outgoing" -> tx[i].type = "outgoing"
      [] f = "hideFailed" -> tx[i].state # "failed"
      [] OTHER -> TRUE
ListTransactions(f) == SelectSeq(history, LAMBDA i : Passes(i, f))
PageOf(s, offset) == SubSeq(s, offset + 1, Min({Len(s), offset + ListSize}))
ShownRows == ToSet(PageOf(ListTransactions(walletTab.filter), (walletTab.listPage - 1) * ListSize))

SetFilters(f) ==
    /\ walletTab.page = "wallet" /\ walletVisit = "export" /\ f # walletTab.filter
    /\ OnlyWallet([walletTab EXCEPT !.filter = f, !.listPage = 1, !.editing = 0])
PageChange(p) ==
    /\ walletTab.page = "wallet" /\ p # walletTab.listPage
    /\ (p - 1) * ListSize < Len(ListTransactions(walletTab.filter))
    /\ OnlyWallet([walletTab EXCEPT !.listPage = p, !.editing = 0])

(* TransactionLabels: rows of an editor; the whole map is saved.           *)
ToRows(labels) == IF labels = {} THEN {NoLabel} ELSE labels
RowsToLabels(rows) == rows \ {NoLabel}
StartLabels(i) ==
    /\ walletTab.page = "wallet" /\ walletVisit = "labels" /\ i \in ShownRows
    /\ walletTab.editing = 0 /\ walletTab.saves < MaxSaves
    /\ OnlyWallet([walletTab EXCEPT !.editing = i, !.rows = ToRows(tx[i].labels)])
EditRows(l) ==
    /\ walletTab.editing # 0
    /\ OnlyWallet([walletTab EXCEPT !.rows = IF l \in @ THEN @ \ {l} ELSE (@ \ {NoLabel}) \cup {l}])
CancelLabels == walletTab.editing # 0 /\ OnlyWallet([walletTab EXCEPT !.editing = 0, !.rows = {}])
SaveLabels ==
    /\ walletTab.editing # 0
    /\ tx' = [tx EXCEPT ![walletTab.editing].labels = RowsToLabels(walletTab.rows)]
    /\ walletTab' = [walletTab EXCEPT !.editing = 0, !.rows = {}, !.saves = @ + 1]
    /\ UNCHANGED <<history, calls, coins, coinCall, deposits, terms, exporting, walletVisit>>

(* useNotifyReceivedPayments polls the first row of the list.  The row is  *)
(* another one when anything in it differs.                                *)
NotifyReceivedPayments ==
    /\ walletVisit = "labels" /\ history # <<>>
    /\ LET latestTx == <<history[1], tx[history[1]]>>
           isNew == walletTab.latest # latestTx
       IN /\ isNew
          /\ OnlyWallet([walletTab EXCEPT
                !.latest = latestTx,
                !.toasts = IF walletTab.latest # <<>> /\ tx[history[1]].type = "incoming" THEN @ + 1 ELSE @])

(* handleExportTransactions *)
StartExport ==
    /\ walletTab.page = "wallet" /\ walletVisit = "export" /\ exporting.at = "idle"
    /\ exporting' = [NoExport EXCEPT !.at = "running", !.listed = ToSet(history)]
    /\ UNCHANGED <<tx, history, calls, coins, coinCall, deposits, terms, walletTab, walletVisit>>

(* Variant: a page that is just full is taken for the last one.            *)
LastPageFull(n) == n <= ListSize
LastPage(n) == n < ListSize
ExportPage ==
    /\ exporting.at = "running"
    /\ LET page == PageOf(history, exporting.offset) IN
       exporting' = [exporting EXCEPT !.rows = @ \cup ToSet(page),
                                      !.at = IF LastPage(Len(page)) THEN "saved" ELSE "running",
                                      !.offset = @ + ListSize]
    /\ UNCHANGED <<tx, history, calls, coins, coinCall, deposits, terms, walletTab, walletVisit>>
ExportFails ==
    /\ exporting.at = "running"
    /\ exporting' = NoExport
    /\ UNCHANGED <<tx, history, calls, coins, coinCall, deposits, terms, walletTab, walletVisit>>

-----------------------------------------------------------------------------
WalletNext ==
    \/ \E i \in TxIds : \/ PaymentSettles(i) \/ PaymentFails(i) \/ InvoiceSettles(i) \/ PaymentAnswered(i) \/ PaymentRefused(i)
                        \/ StartLabels(i) \/ PageChange(i)
    \/ PaymentArrives
    \/ \E p \in WalletPages : OpenWalletPage(p)
    \/ ReloadWallet
    \/ \E r \in Recipients : SubmitRecipient(r)
    \/ ConfirmPayment \/ ZeroAmount \/ LnurlPay
    \/ \E page \in {"onchain", "withdraw"}, all \in BOOLEAN : RedeemFunds(page, all)
    \/ ConfirmWithdrawal \/ CoinAnswered \/ CoinAnswerLost \/ PollMempool
    \/ \E c \in CoinIds : CoinConfirmed(c)
    \/ \E a \in Receipts : SubmitInvoice(a) \/ SubmitCrypto(a)
    \/ ToggleMode \/ PollInvoice \/ AnotherPayment \/ SubmitOffer
    \/ Probe \/ ProbeAnswered \/ ProbeTimeout
    \/ \E d \in Deposits : UtxoMade(d) \/ UtxoReplaced(d) \/ UtxoConfirmed(d)
    \/ WatchUtxos \/ ReceiveAnother \/ GetNewAddress
    \/ \E f \in Filters : SetFilters(f)
    \/ \E l \in Labels : EditRows(l)
    \/ CancelLabels \/ SaveLabels \/ NotifyReceivedPayments
    \/ StartExport \/ ExportPage \/ ExportFails

WalletSpec == WalletInit /\ [][WalletNext]_walletVars

(***************************************************************************)
(* Properties                                                              *)
(***************************************************************************)
(* What a page says has happened has happened: a payment on the success    *)
(* page is settled, an on-chain payment called successful is confirmed, an *)
(* invoice said to be paid is settled, a deposit said to have arrived was  *)
(* confirmed after the page asked for it; there are no more notifications  *)
(* of payments than payments, but for edits of labels; and an invoice the  *)
(* form lets the user make can be paid, unless the hub has a public        *)
(* channel or the amount is less than half a cent too large; an amount the *)
(* provider refuses is said to be too small.                               *)
ShownIsReal ==
    /\ walletTab.page = "success" => tx[walletTab.of].state = "settled"
    /\ walletTab.page = "onchain-success" /\ walletTab.seen => coins.sent[walletTab.of] = "confirmed"
    /\ walletTab.page \in {"invoice", "crypto"} /\ walletTab.of # 0 =>
        /\ walletTab.done => tx[walletTab.of].state = "settled"
        /\ tx[walletTab.of].fits \/ terms.public \/ (walletTab.over > 0 /\ 2 * walletTab.over <= CentSats)
    /\ walletTab.page = "deposit" /\ walletTab.done =>
        /\ deposits.utxo[walletTab.of].state = "confirmed"
        /\ walletTab.of \notin walletTab.before
    /\ walletTab.page = "invoice" /\ walletTab.error => walletTab.hint
    /\ FirstChannelAlert = "first payment opens a channel" => CanReceive(JitTerms.min) \/ terms.public
    /\ \A i \in ToSet(history) : TypeStateText(i) \in {"Received", "Sent"} => tx[i].state = "settled"
    /\ walletTab.toasts <= walletTab.saves + Cardinality({i \in TxIds : tx[i].type = "incoming" /\ tx[i].state = "settled"})

(* "Fetch all transactions by paginating through all pages": every row     *)
(* that was listed when the export began is in the file, unless it changed *)
(* place in the meantime.                                                  *)
ExportIsComplete == exporting.at = "saved" => exporting.listed \ exporting.moved \subseteq exporting.rows
=============================================================================
