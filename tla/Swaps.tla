------------------------------- MODULE Swaps -------------------------------
(***************************************************************************)
(* Swaps between on-chain and lightning funds with Boltz: the swaps        *)
(* service (swaps/swaps_service.go) with its listeners, its dispatcher and *)
(* its auto swap loop, and the screens that start and show swaps           *)
(* (frontend/src/screens/wallet/swap).                                     *)
(*                                                                         *)
(* Boltz, its websocket, the chain and the lightning payment are external. *)
(* A request that is refused before anything is written changes nothing    *)
(* and is left out.                                                        *)
(***************************************************************************)
EXTENDS Integers, Sequences, FiniteSets, SequencesExt, FiniteSetsExt

CONSTANTS
    Ins,            \* swaps from on-chain to lightning
    Outs,           \* swaps from lightning to on-chain
    Plans,          \* what users may come for: swaps, pages they open, faults on the way
    Amounts,        \* amounts a user types in
    SwapLimits,     \* what Boltz and the balances allow: min, max, spendable, receivable
    MaxUpdates,     \* updates of Boltz under way before it makes further progress
    MaxDeposits     \* on-chain payments to a swap's lockup address

VARIABLES
    swap,           \* db.Swap rows
    boltz,          \* Boltz's status of a swap
    chain,          \* what is on chain for a swap
    lightning,      \* the lightning payment of a swap
    listener,       \* what the goroutine of startSwapInListener or ...OutListener is at
    updateCh,       \* its channel, with room for one update
    updates,        \* boltzWs.Updates
    hand,           \* the update the dispatcher holds
    payers,         \* the goroutines that pay for a swap out
    asking,         \* a refund requested by the user
    autoLoop,       \* the goroutine of EnableAutoSwapOut
    swapTab,        \* the browser tab
    restarts,       \* restarts so far
    reconnects,     \* reconnects so far
    plan            \* what users have come for

counts == <<restarts, reconnects, plan>>
service == <<listener, updateCh, hand, payers, asking, autoLoop>>
boltzVars == <<boltz, chain, lightning, updates>>
swapVars == <<swap, boltzVars, service, swapTab, counts>>

Nothing == "nothing"
Swaps == Ins \cup Outs

Statuses == {"none", "created", "mempool", "confirmed", "paid", "claimpending", "claimed",
             "settled", "failed", "expired"}
States == {"NONE", "PENDING", "SUCCESS", "FAILED", "REFUNDED"}
SwapPages == {"swap", "in", "out", "auto", "debug", "receive", "send"}
ASSUME SwapsAssumption ==
    /\ Ins \cap Outs = {} /\ Nothing \notin Swaps
    /\ Plans \subseteq [swaps : SUBSET Swaps, pages : SUBSET SwapPages, faults : Nat]
    /\ Amounts \subseteq Nat \ {0}
    /\ SwapLimits \in [min : Nat, max : Nat, spendable : Nat, receivable : Nat]
    /\ MaxUpdates \in Nat /\ MaxDeposits \in Nat \ {0} /\ IsFiniteSet(Swaps)

Seen == [state : States, lockup : BOOLEAN, claim : BOOLEAN]

SwapTypeOK ==
    /\ swap \in [Swaps -> [state : States, lockup : BOOLEAN, claim : BOOLEAN, auto : BOOLEAN]]
    /\ boltz \in [Swaps -> Statuses]
    /\ chain \in [Swaps -> [deposits : 0..MaxDeposits, refund : BOOLEAN,
                            claim : {"none", "mempool", "confirmed"}]]
    /\ lightning \in [Swaps -> {"none", "pending", "failed", "settled"}]
    /\ listener \in [Swaps -> {"none", "on", "refunding", "refunded", "claiming", "claimed"}]
    /\ \A s \in Swaps : Len(updateCh[s]) <= 1 /\ ToSet(updateCh[s]) \subseteq Statuses
    /\ \A i \in DOMAIN updates : updates[i] \in Swaps \X Statuses
    /\ Len(hand) <= 1 /\ ToSet(hand) \subseteq Swaps \X Statuses
    /\ payers \in [Outs -> [looking : Nat, sending : Nat, waiting : BOOLEAN, error : BOOLEAN]]
    /\ asking \in [Ins -> {"never", "refunding", "refunded", "done"}]
    /\ autoLoop \in {"off", "idle"} \cup Outs
    /\ swapTab \in [page : SwapPages, of : {Nothing} \cup Swaps, internal : BOOLEAN,
                    redeemed : BOOLEAN, seen : Seen]
    /\ plan \in Plans
    /\ restarts \in Nat /\ reconnects \in Nat /\ restarts + reconnects <= plan.faults

Unseen == [state |-> "NONE", lockup |-> FALSE, claim |-> FALSE]
NoPayers == [looking |-> 0, sending |-> 0, waiting |-> FALSE, error |-> FALSE]

SwapInit ==
    /\ swap = [s \in Swaps |-> [state |-> "NONE", lockup |-> FALSE, claim |-> FALSE, auto |-> FALSE]]
    /\ boltz = [s \in Swaps |-> "none"]
    /\ chain = [s \in Swaps |-> [deposits |-> 0, refund |-> FALSE, claim |-> "none"]]
    /\ lightning = [s \in Swaps |-> "none"]
    /\ listener = [s \in Swaps |-> "none"]
    /\ updateCh = [s \in Swaps |-> <<>>]
    /\ updates = <<>> /\ hand = <<>>
    /\ payers = [s \in Outs |-> NoPayers]
    /\ asking = [s \in Ins |-> "never"]
    /\ autoLoop = "off"
    /\ swapTab = [page |-> "swap", of |-> Nothing, internal |-> FALSE, redeemed |-> FALSE,
                  seen |-> Unseen]
    /\ restarts = 0 /\ reconnects = 0
    /\ plan \in Plans

(***************************************************************************)
(* Boltz.  It pushes every new status of a swap that is subscribed to.     *)
(***************************************************************************)
Push(s, status) ==
    updates' = IF listener[s] = "none" THEN updates ELSE Append(updates, <<s, status>>)

Progress(s, status) ==
    /\ Len(updates) < MaxUpdates
    /\ boltz' = [boltz EXCEPT ![s] = status]
    /\ Push(s, status)
    /\ UNCHANGED <<swap, service, swapTab, counts>>

(* A swap in: the deposit is seen and confirmed, the hub's invoice is paid *)
(* and Boltz claims the deposit; or Boltz gives up and the swap expires.   *)
BoltzIn(s) ==
    /\ \E status \in Statuses :
        /\ CASE boltz[s] = "created" -> status \in (IF chain[s].deposits > 0
                                                    THEN {"mempool", "failed"} ELSE {"expired"})
             [] boltz[s] = "mempool" -> status \in {"confirmed", "failed"}
             [] boltz[s] = "confirmed" -> status \in {"paid", "failed"}
             [] boltz[s] = "paid" -> status = "claimpending"
             [] boltz[s] = "claimpending" -> status = "claimed"
             [] boltz[s] = "failed" -> status = "expired"
             [] OTHER -> FALSE
        /\ Progress(s, status)
        /\ lightning' = [lightning EXCEPT ![s] = IF status = "paid" THEN "settled" ELSE @]
    /\ UNCHANGED chain

(* A swap out: Boltz locks funds up once the payment is under way, and     *)
(* settles it when the claim shows it the preimage; or the swap expires    *)
(* and the payment fails.                                                  *)
BoltzOut(s) ==
    /\ \E status \in Statuses :
        /\ CASE boltz[s] = "created" -> status \in (IF lightning[s] = "pending"
                                                    THEN {"mempool", "expired"} ELSE {"expired"})
             [] boltz[s] = "mempool" /\ chain[s].claim = "none" -> status \in {"confirmed", "expired"}
             [] boltz[s] = "confirmed" /\ chain[s].claim = "none" -> status = "expired"
             [] boltz[s] \in {"mempool", "confirmed"} /\ chain[s].claim # "none" ->
                    status = "settled"
             [] OTHER -> FALSE
        /\ Progress(s, status)
        /\ lightning' = [lightning EXCEPT
                ![s] = CASE status = "settled" -> "settled"
                         [] status = "expired" /\ @ = "pending" -> "failed"
                         [] OTHER -> @]
    /\ UNCHANGED chain

(* The chain confirms the claim of a swap out.                             *)
ClaimConfirms(s) ==
    /\ chain[s].claim = "mempool"
    /\ chain' = [chain EXCEPT ![s].claim = "confirmed"]
    /\ UNCHANGED <<swap, boltz, lightning, updates, service, swapTab, counts>>

(* The websocket reconnects: what was under way is lost, and subscribing   *)
(* again brings the present status of every swap.                          *)
Subscribed == {s \in Swaps : listener[s] # "none"}
Reconnect ==
    /\ restarts + reconnects < plan.faults
    /\ reconnects' = reconnects + 1
    /\ updates' = SetToSeq({<<s, boltz[s]>> : s \in Subscribed})
    /\ UNCHANGED <<swap, boltz, chain, lightning, service, swapTab, restarts, plan>>

(***************************************************************************)
(* The dispatcher: it looks a listener up under the lock and sends to its  *)
(* channel without it.                                                     *)
(***************************************************************************)
TakeUpdate ==
    /\ hand = <<>> /\ updates # <<>>
    /\ updates' = Tail(updates)
    /\ hand' = IF listener[Head(updates)[1]] # "none" THEN <<Head(updates)>> ELSE <<>>
    /\ UNCHANGED <<swap, boltz, chain, lightning, listener, updateCh, payers, asking, autoLoop,
                   swapTab, counts>>

(* Variant: the dispatcher does not wait for room in the channel.          *)
SendUpdateUnbounded ==
    /\ hand # <<>>
    /\ updateCh' = [updateCh EXCEPT ![hand[1][1]] = Append(@, hand[1][2])]
    /\ hand' = <<>>
    /\ UNCHANGED <<swap, boltzVars, listener, payers, asking, autoLoop, swapTab, counts>>

SendUpdate ==
    /\ hand # <<>>
    /\ updateCh[hand[1][1]] = <<>>
    /\ updateCh' = [updateCh EXCEPT ![hand[1][1]] = <<hand[1][2]>>]
    /\ hand' = <<>>
    /\ UNCHANGED <<swap, boltzVars, listener, payers, asking, autoLoop, swapTab, counts>>

(* The dispatcher waits for room in the channel of a listener that has     *)
(* ended: no swap gets an update any more.                                 *)
DispatcherStuck ==
    hand # <<>> /\ updateCh[hand[1][1]] # <<>> /\ listener[hand[1][1]] = "none"

(***************************************************************************)
(* Rows and listeners                                                      *)
(***************************************************************************)
(* markSwapState: the row has the new state, whatever it had before.       *)
MarkSwapState(s, state) == swap' = [swap EXCEPT ![s].state = state]

(* The listener of a swap ends; the auto swap loop that waits for it goes  *)
(* on.                                                                     *)
ListenerEnds(s) ==
    /\ listener' = [listener EXCEPT ![s] = "none"]
    /\ autoLoop' = IF autoLoop = s THEN "idle" ELSE autoLoop

(* The deferred function of a listener that returns with an error.         *)
ListenerFails(s) == ListenerEnds(s) /\ MarkSwapState(s, "FAILED")

(* It registers its channel and subscribes: Boltz sends the present status.*)
ListenerStarts(s, status) ==
    /\ listener' = [listener EXCEPT ![s] = "on"]
    /\ updateCh' = [updateCh EXCEPT ![s] = <<>>]
    /\ updates' = Append(updates, <<s, status>>)

(* SwapIn: the invoice and the row; when its transaction cannot be marked, *)
(* the row is FAILED and nobody listens.                                   *)
SwapIn(s, marked) ==
    /\ s \in plan.swaps /\ swap[s].state = "NONE"
    /\ boltz' = [boltz EXCEPT ![s] = "created"]
    /\ lightning' = [lightning EXCEPT ![s] = "pending"]
    /\ swap' = [swap EXCEPT ![s].state = IF marked THEN "PENDING" ELSE "FAILED"]
    /\ IF marked THEN ListenerStarts(s, "created") ELSE UNCHANGED <<listener, updateCh, updates>>
    /\ UNCHANGED <<chain, hand, payers, asking, autoLoop, counts>>

(* SwapOut: the row is committed once Boltz's invoice has passed           *)
(* verifySwapOutInvoice; then the listener starts.                         *)
SwapOut(s, auto) ==
    /\ s \in plan.swaps /\ swap[s].state = "NONE"
    /\ boltz' = [boltz EXCEPT ![s] = "created"]
    /\ swap' = [swap EXCEPT ![s].state = "PENDING", ![s].auto = auto]
    /\ ListenerStarts(s, "created")
    /\ UNCHANGED <<chain, lightning, hand, payers, asking, counts>>

(***************************************************************************)
(* A listener takes an update from its channel                             *)
(***************************************************************************)
Received(s, statuses) ==
    /\ listener[s] = "on" /\ updateCh[s] # <<>>
    /\ updateCh[s][1] \in statuses
    /\ updateCh' = [updateCh EXCEPT ![s] = <<>>]
    /\ UNCHANGED <<boltzVars, hand, asking, swapTab, counts>>

(* The lockup transaction of a swap in is recorded.                        *)
LockupInMempool(s) ==
    /\ Received(s, {"mempool"})
    /\ swap' = [swap EXCEPT ![s].lockup = TRUE]
    /\ UNCHANGED <<listener, payers, autoLoop>>

(* Updates a listener only logs or ignores.                                *)
Ignored(s) ==
    /\ Received(s, IF s \in Ins THEN {"created", "confirmed", "claimpending", "claimed"}
                   ELSE {"settled"})
    /\ UNCHANGED <<swap, listener, payers, autoLoop>>

InvoicePaid(s) ==
    /\ Received(s, {"paid"})
    /\ MarkSwapState(s, "SUCCESS") /\ ListenerEnds(s)
    /\ UNCHANGED payers

(***************************************************************************)
(* RefundSwap, for the listener and for the user.  Boltz must know the     *)
(* lockup transaction.  A refund transaction that cannot be made is tried  *)
(* again by the listener.                                                  *)
(***************************************************************************)
RefundPossible(s) == ~swap[s].claim /\ chain[s].deposits > 0

SwapInFailed(s) ==
    /\ s \in Ins /\ Received(s, {"failed", "expired"})
    /\ IF RefundPossible(s)
       THEN /\ swap' = [swap EXCEPT ![s].lockup = TRUE]
            /\ listener' = [listener EXCEPT ![s] = "refunding"]
            /\ UNCHANGED autoLoop
       ELSE ListenerFails(s)
    /\ UNCHANGED payers

(* The broadcast is refused when the lockup output is spent, or for a      *)
(* reason of its own.                                                      *)
RefundBroadcast(s) ==
    /\ listener[s] = "refunding"
    /\ \/ /\ ~chain[s].refund
          /\ chain' = [chain EXCEPT ![s].refund = TRUE]
          /\ listener' = [listener EXCEPT ![s] = "refunded"]
          /\ UNCHANGED <<swap, autoLoop>>
       \/ ListenerFails(s) /\ UNCHANGED chain
    /\ UNCHANGED <<boltz, lightning, updates, updateCh, hand, payers, asking, swapTab, counts>>

RefundRecorded(s) == swap' = [swap EXCEPT ![s].claim = TRUE, ![s].state = "REFUNDED"]

RefundSaved(s) ==
    /\ listener[s] = "refunded"
    /\ RefundRecorded(s) /\ ListenerEnds(s)
    /\ UNCHANGED <<boltzVars, updateCh, hand, payers, asking, swapTab, counts>>

(* The user asks for a refund in the debug tools: no retries, and an error *)
(* leaves the row as it is.                                                *)
AskRefund(s) ==
    /\ swapTab.page = "debug" /\ swap[s].state # "NONE"
    /\ asking[s] = "never" /\ RefundPossible(s)
    /\ asking' = [asking EXCEPT ![s] = "refunding"]
    /\ swap' = [swap EXCEPT ![s].lockup = TRUE]
    /\ UNCHANGED <<boltzVars, listener, updateCh, hand, payers, autoLoop, swapTab, counts>>

(* Boltz signs a refund only of a swap that has failed.                    *)
AskedRefundBroadcast(s) ==
    /\ asking[s] = "refunding"
    /\ \/ /\ ~chain[s].refund /\ boltz[s] \in {"failed", "expired"}
          /\ chain' = [chain EXCEPT ![s].refund = TRUE]
          /\ asking' = [asking EXCEPT ![s] = "refunded"]
       \/ asking' = [asking EXCEPT ![s] = "done"] /\ UNCHANGED chain
    /\ UNCHANGED <<swap, boltz, lightning, updates, listener, updateCh, hand, payers, autoLoop,
                   swapTab, counts>>

AskedRefundSaved(s) ==
    /\ asking[s] = "refunded"
    /\ RefundRecorded(s)
    /\ asking' = [asking EXCEPT ![s] = "done"]
    /\ UNCHANGED <<boltzVars, listener, updateCh, hand, payers, autoLoop, swapTab, counts>>

(***************************************************************************)
(* Paying for a swap out: a goroutine for every "swap.created" looks the   *)
(* payment up and pays if there is none.                                   *)
(***************************************************************************)
SwapCreated(s) ==
    /\ s \in Outs /\ Received(s, {"created"})
    /\ payers' = [payers EXCEPT ![s].looking = @ + 1]
    /\ UNCHANGED <<swap, listener, autoLoop>>

LookupPayment(s) ==
    /\ payers[s].looking > 0
    /\ payers' = [payers EXCEPT ![s].looking = @ - 1,
                                ![s].sending = IF lightning[s] = "none" THEN @ + 1 ELSE @]
    /\ UNCHANGED <<swap, boltzVars, listener, updateCh, hand, asking, autoLoop, swapTab, counts>>

(* SendPaymentSync refuses a second payment of the invoice.                *)
SendPaymentSync(s) ==
    /\ payers[s].sending > 0
    /\ \/ /\ lightning[s] = "none"
          /\ lightning' = [lightning EXCEPT ![s] = "pending"]
          /\ payers' = [payers EXCEPT ![s].sending = @ - 1, ![s].waiting = TRUE]
       \/ /\ lightning' = [lightning EXCEPT ![s] = IF @ = "none" THEN "failed" ELSE @]
          /\ payers' = [payers EXCEPT ![s].sending = @ - 1, ![s].error = TRUE]
    /\ UNCHANGED <<swap, boltz, chain, updates, listener, updateCh, hand, asking, autoLoop, swapTab,
                   counts>>

PaymentReturns(s) ==
    /\ payers[s].waiting /\ lightning[s] # "pending"
    /\ payers' = [payers EXCEPT ![s].waiting = FALSE,
                                ![s].error = IF lightning[s] = "failed" THEN TRUE ELSE @]
    /\ UNCHANGED <<swap, boltzVars, listener, updateCh, hand, asking, autoLoop, swapTab, counts>>

(* The listener hears of it when it is not busy claiming.                  *)
PaymentError(s) ==
    /\ listener[s] = "on" /\ payers[s].error
    /\ payers' = [payers EXCEPT ![s].error = FALSE]
    /\ ListenerFails(s)
    /\ UNCHANGED <<boltzVars, updateCh, hand, asking, swapTab, counts>>

(***************************************************************************)
(* Claiming a swap out                                                     *)
(***************************************************************************)
LockupFound(s) ==
    /\ s \in Outs /\ Received(s, {"mempool", "confirmed"})
    /\ swap' = [swap EXCEPT ![s].lockup = TRUE]
    /\ listener' = [listener EXCEPT ![s] = IF swap[s].claim THEN "on" ELSE "claiming"]
    /\ UNCHANGED <<payers, autoLoop>>

ClaimBroadcast(s) ==
    /\ listener[s] = "claiming"
    /\ \/ /\ chain[s].claim = "none" /\ boltz[s] # "expired"
          /\ chain' = [chain EXCEPT ![s].claim = "mempool"]
          /\ listener' = [listener EXCEPT ![s] = "claimed"]
          /\ UNCHANGED <<swap, autoLoop>>
       \/ ListenerFails(s) /\ UNCHANGED chain
    /\ UNCHANGED <<boltz, lightning, updates, updateCh, hand, payers, asking, swapTab, counts>>

ClaimSaved(s) ==
    /\ listener[s] = "claimed"
    /\ swap' = [swap EXCEPT ![s].claim = TRUE]
    /\ listener' = [listener EXCEPT ![s] = "on"]
    /\ UNCHANGED <<boltzVars, updateCh, hand, payers, asking, autoLoop, swapTab, counts>>

(* Variant: a claim that is recorded is taken for confirmed.               *)
ClaimTickerUnconfirmed(s) ==
    /\ listener[s] = "on" /\ swap[s].claim
    /\ MarkSwapState(s, "SUCCESS") /\ ListenerEnds(s)
    /\ UNCHANGED <<boltzVars, updateCh, hand, payers, asking, swapTab, counts>>

ClaimTicker(s) ==
    /\ listener[s] = "on" /\ swap[s].claim
    /\ chain[s].claim = "confirmed"
    /\ MarkSwapState(s, "SUCCESS") /\ ListenerEnds(s)
    /\ UNCHANGED <<boltzVars, updateCh, hand, payers, asking, swapTab, counts>>

SwapOutFailed(s) ==
    /\ s \in Outs /\ Received(s, {"failed", "expired"})
    /\ ListenerFails(s)
    /\ UNCHANGED payers

(***************************************************************************)
(* Auto swaps and restarts                                                 *)
(***************************************************************************)
(* EnableAutoSwapOut: the loop it replaces stops when the swap it waits    *)
(* for has ended, if it waits for one.                                     *)
EnableAutoSwapOut == autoLoop' = "idle"
StopAutoSwapOut == autoLoop' = "off"

(* Once an hour, if the lightning balance is above the threshold.          *)
AutoSwapOut(s) ==
    /\ autoLoop = "idle"
    /\ SwapOut(s, TRUE)
    /\ autoLoop' = s
    /\ UNCHANGED swapTab

(* Variant: only swaps in are listened for again.                          *)
SubscribePendingIns ==
    LET pending == {s \in Ins : swap[s].state = "PENDING"} IN
    /\ listener' = [s \in Swaps |-> IF s \in pending THEN "on" ELSE "none"]
    /\ updates' = SetToSeq({<<s, boltz[s]>> : s \in pending})

(* subscribePendingSwaps: a listener for every row that is PENDING.        *)
SubscribePendingSwaps ==
    LET pending == {s \in Swaps : swap[s].state = "PENDING"} IN
    /\ listener' = [s \in Swaps |-> IF s \in pending THEN "on" ELSE "none"]
    /\ updates' = SetToSeq({<<s, boltz[s]>> : s \in pending})

(* The hub stops, or dies, and starts again: goroutines and channels are   *)
(* gone.                                                                   *)
Restart ==
    /\ restarts + reconnects < plan.faults
    /\ restarts' = restarts + 1
    /\ SubscribePendingSwaps
    /\ updateCh' = [s \in Swaps |-> <<>>]
    /\ hand' = <<>>
    /\ payers' = [s \in Outs |-> NoPayers]
    /\ asking' = [s \in Ins |-> IF asking[s] = "never" THEN "never" ELSE "done"]
    /\ autoLoop' = IF autoLoop = "off" THEN "off" ELSE "idle"
    /\ UNCHANGED <<swap, boltz, chain, lightning, swapTab, reconnects, plan>>

(***************************************************************************)
(* The screens                                                             *)
(***************************************************************************)
onlyTab == <<swap, boltzVars, service, counts>>

(* Swap, AutoSwap, ReceiveOnchain, Onchain and DebugTools are opened.      *)
OpenSwapPage(p) ==
    /\ p \in plan.pages \ {"in", "out"} /\ p # swapTab.page
    /\ swapTab' = [page |-> p, of |-> Nothing, internal |-> FALSE, redeemed |-> FALSE, seen |-> Unseen]
    /\ UNCHANGED onlyTab

(* A status page is opened, by a form, a link or a reload.                 *)
StatusPage(s, internal) ==
    swapTab' = [page |-> IF s \in Ins THEN "in" ELSE "out", of |-> s, internal |-> internal,
                redeemed |-> FALSE, seen |-> Unseen]

(* The largest amount the form of a swap in takes, by where funds are from.*)
SwapInMax(from) ==
    Min({SwapLimits.max, (SwapLimits.receivable * 99) \div 100}
        \cup (IF from = "internal" THEN {SwapLimits.spendable} ELSE {}))

(* onSubmit of SwapInForm: the wallet's own funds or another wallet's.     *)
SubmitSwapIn(s, from, amount) ==
    /\ swapTab.page = "swap" /\ from \in {"internal", "external"}
    /\ amount \in SwapLimits.min..SwapInMax(from)
    /\ \/ SwapIn(s, TRUE) /\ StatusPage(s, from = "internal")
       \/ SwapIn(s, FALSE) /\ UNCHANGED swapTab

(* onSubmit of ReceiveOnchain.                                             *)
SubmitReceiveOnchain(s, amount) ==
    /\ swapTab.page = "receive"
    /\ amount \in SwapLimits.min..SwapInMax("external")
    /\ \/ SwapIn(s, TRUE) /\ StatusPage(s, FALSE)
       \/ SwapIn(s, FALSE) /\ UNCHANGED swapTab

(* onSubmit of SwapOutForm and of SwapForm on the page that sends on-chain.*)
SubmitSwapOut(s, amount) ==
    /\ swapTab.page = "swap" /\ amount \in SwapLimits.min..SwapLimits.max
    /\ SwapOut(s, FALSE) /\ StatusPage(s, FALSE)
    /\ UNCHANGED autoLoop

SubmitSendSwap(s, amount) ==
    /\ swapTab.page = "send" /\ amount \in SwapLimits.min..SwapLimits.max
    /\ SwapOut(s, FALSE) /\ StatusPage(s, FALSE)
    /\ UNCHANGED autoLoop

(* useSwap polls the row of the swap shown.                                *)
PollSwap ==
    /\ swapTab.of # Nothing
    /\ LET row == swap[swapTab.of] IN
       swapTab' = [swapTab EXCEPT !.seen = [state |-> row.state, lockup |-> row.lockup,
                                            claim |-> row.claim]]
    /\ swapTab' # swapTab
    /\ UNCHANGED onlyTab

(* The page is loaded again, where faults are looked at.                   *)
ReloadStatus ==
    /\ swapTab.of # Nothing /\ swapTab.seen # Unseen /\ plan.faults > 0
    /\ StatusPage(swapTab.of, swapTab.internal)
    /\ UNCHANGED onlyTab

AwaitsDeposit == swapTab.seen.state = "PENDING" /\ ~swapTab.seen.lockup

(* payWithAlbyHub, once per visit of the page of a swap of the wallet's    *)
(* own funds: they are sent to the lockup address, or that fails.          *)
PayWithAlbyHub ==
    /\ swapTab.page = "in" /\ swapTab.internal /\ AwaitsDeposit
    /\ ~swapTab.redeemed
    /\ swapTab' = [swapTab EXCEPT !.redeemed = TRUE]
    /\ \/ /\ chain[swapTab.of].deposits < MaxDeposits
          /\ chain' = [chain EXCEPT ![swapTab.of].deposits = @ + 1]
       \/ UNCHANGED chain
    /\ UNCHANGED <<swap, boltz, lightning, updates, service, counts>>

(* The user pays the address of the QR code from another wallet.           *)
PayQRCode ==
    /\ swapTab.page = "in" /\ ~swapTab.internal /\ AwaitsDeposit
    /\ chain[swapTab.of].deposits = 0
    /\ chain' = [chain EXCEPT ![swapTab.of].deposits = 1]
    /\ UNCHANGED <<swap, boltz, lightning, updates, service, swapTab, counts>>

(* The headline of a status page.                                          *)
SwapInStatusText ==
    CASE swapTab.seen.state = "SUCCESS" -> "Swap Successful"
      [] swapTab.seen.state = "FAILED" -> "Swap Failed"
      [] swapTab.seen.state = "REFUNDED" -> "Swap Refunded"
      [] swapTab.seen.state = "PENDING" ->
            IF swapTab.seen.lockup THEN "Waiting for confirmation"
            ELSE IF swapTab.internal THEN "Depositing on-chain funds" ELSE "Waiting for deposit"

SwapOutStatusText ==
    CASE swapTab.seen.state = "SUCCESS" -> "Swap Successful"
      [] swapTab.seen.state = "FAILED" -> "Swap Failed"
      [] swapTab.seen.state = "PENDING" ->
            IF swapTab.seen.lockup THEN "Waiting for confirmation" ELSE "Making lightning payment"

(* What the page below the headline says of the deposit or the claim.      *)
SwapInSteps ==
    LET r == swapTab.seen IN
    (IF r.lockup /\ r.state = "SUCCESS" THEN {"received via lightning", "deposit confirmed"} ELSE {})
    \cup (IF r.lockup /\ r.state = "PENDING" THEN {"waiting for confirmation"} ELSE {})
    \cup (IF r.lockup /\ r.state = "REFUNDED" THEN {"refund initiated"} ELSE {})
    \cup (IF r.state = "FAILED" \/ (r.lockup /\ r.state = "REFUNDED") THEN {"deposit failed"} ELSE {})

SwapOutSteps ==
    LET r == swapTab.seen IN
    (IF r.lockup /\ r.state = "SUCCESS" THEN {"claim confirmed"} ELSE {})
    \cup (IF r.lockup /\ r.state = "PENDING"
          THEN {IF r.claim THEN "waiting for confirmation" ELSE "claiming"} ELSE {})

(* AutoSwapOutForm and ActiveSwapOutConfig, on the auto swap page.         *)
SubmitAutoSwap(threshold, amount) ==
    /\ swapTab.page = "auto" /\ autoLoop = "off"
    /\ amount <= threshold
    /\ EnableAutoSwapOut
    /\ UNCHANGED <<swap, boltzVars, listener, updateCh, hand, payers, asking, swapTab, counts>>

DeactivateAutoSwap ==
    /\ swapTab.page = "auto" /\ autoLoop # "off"
    /\ StopAutoSwapOut
    /\ UNCHANGED <<swap, boltzVars, listener, updateCh, hand, payers, asking, swapTab, counts>>

-----------------------------------------------------------------------------
SwapScreensNext ==
    \/ \E p \in SwapPages : OpenSwapPage(p)
    \/ \E s \in Ins, from \in {"internal", "external"}, a \in Amounts : SubmitSwapIn(s, from, a)
    \/ \E s \in Ins, a \in Amounts : SubmitReceiveOnchain(s, a)
    \/ \E s \in Outs, a \in Amounts : SubmitSwapOut(s, a) \/ SubmitSendSwap(s, a)
    \/ PollSwap \/ ReloadStatus \/ PayWithAlbyHub \/ PayQRCode
    \/ \E t, a \in Amounts : SubmitAutoSwap(t, a)
    \/ DeactivateAutoSwap
    \/ \E s \in Ins : AskRefund(s)

ListenerStep(s) ==
    \/ Ignored(s)
    \/ s \in Ins /\ (LockupInMempool(s) \/ InvoicePaid(s) \/ RefundBroadcast(s) \/ RefundSaved(s))
    \/ SwapInFailed(s)
    \/ SwapCreated(s) \/ LockupFound(s) \/ SwapOutFailed(s)
    \/ s \in Outs /\ (PaymentError(s) \/ ClaimBroadcast(s) \/ ClaimSaved(s) \/ ClaimTicker(s))

PayerStep(s) == LookupPayment(s) \/ SendPaymentSync(s) \/ PaymentReturns(s)
Boltz(s) == (s \in Ins /\ BoltzIn(s)) \/ (s \in Outs /\ (BoltzOut(s) \/ ClaimConfirms(s)))

SwapsNext ==
    \/ SwapScreensNext
    \/ \E s \in Swaps : Boltz(s) \/ ListenerStep(s)
    \/ \E s \in Outs : PayerStep(s) \/ AutoSwapOut(s)
    \/ \E s \in Ins : AskedRefundBroadcast(s) \/ AskedRefundSaved(s)
    \/ TakeUpdate \/ SendUpdate \/ Reconnect \/ Restart

(* Goroutines are scheduled, and Boltz gets on with a swap it has.         *)
SwapsFairness ==
    /\ WF_swapVars(TakeUpdate) /\ WF_swapVars(SendUpdate)
    /\ \A s \in Swaps : WF_swapVars(Boltz(s)) /\ WF_swapVars(ListenerStep(s))
    /\ \A s \in Outs : WF_swapVars(PayerStep(s))

SwapsSpec == SwapInit /\ [][SwapsNext]_swapVars /\ SwapsFairness

-----------------------------------------------------------------------------
(* What a row and the status page say has happened: a successful swap in   *)
(* was paid over lightning, a successful swap out is confirmed on chain,   *)
(* and a refund or a claim that is recorded was broadcast.  FAILED hides   *)
(* a refund or a claim only where a crash or the user's own refund came in *)
(* between (startSwapInListener, startSwapOutListener, RefundSwap).        *)
SwapTellsTruth ==
    /\ \A s \in Ins :
        /\ swap[s].state = "SUCCESS" => lightning[s] = "settled" /\ ~chain[s].refund
        /\ swap[s].state = "REFUNDED" \/ swap[s].claim => chain[s].refund
        /\ swap[s].state = "FAILED" /\ chain[s].refund => asking[s] # "never" \/ restarts > 0
    /\ \A s \in Outs :
        /\ swap[s].state = "SUCCESS" => chain[s].claim = "confirmed"
        /\ swap[s].claim => chain[s].claim # "none"
        /\ swap[s].state = "FAILED" /\ chain[s].claim # "none" => restarts + reconnects > 0
    /\ swapTab.seen # Unseen /\ swapTab.page = "in" =>
        /\ SwapInStatusText = "Swap Successful" => lightning[swapTab.of] = "settled"
        /\ "refund initiated" \in SwapInSteps => chain[swapTab.of].refund
    /\ swapTab.seen # Unseen /\ swapTab.page = "out" =>
        /\ SwapOutStatusText = "Swap Successful" => chain[swapTab.of].claim = "confirmed"
        /\ "waiting for confirmation" \in SwapOutSteps => chain[swapTab.of].claim # "none"

(* An update that ends a swap in is under way.                             *)
PaidUnderWay(s) ==
    \/ <<s, "paid">> \in ToSet(updates) \/ hand = <<<<s, "paid">>>> \/ updateCh[s] = <<"paid">>

(* Boltz has moved past the status the listener waits for, and what it     *)
(* would have said is lost with a restart or a reconnect.                  *)
Overtaken(s) ==
    /\ swap[s].state = "PENDING"
    /\ IF s \in Ins THEN boltz[s] \in {"paid", "claimpending", "claimed"} /\ ~PaidUnderWay(s)
       ELSE boltz[s] = "settled" /\ ~swap[s].claim /\ listener[s] # "claimed"

(* A swap in with a deposit, and a swap out whose payment is under way, is *)
(* resolved: SUCCESS, FAILED or REFUNDED.  Not if the dispatcher waits for *)
(* ever for a listener that has ended, and not if Boltz has overtaken it.  *)
SwapsResolve ==
    \A s \in Swaps :
        (chain[s].deposits > 0 \/ (s \in Outs /\ lightning[s] = "pending"))
            ~> (swap[s].state # "PENDING" \/ DispatcherStuck \/ Overtaken(s))

(* "block until the swap finishes to ensure we can't do multiple           *)
(* concurrent auto swaps" (SwapOut): one auto swap at a time.              *)
OneAutoSwap == Cardinality({s \in Outs : swap[s].auto /\ swap[s].state = "PENDING"}) <= 1
=============================================================================
