# Alby Hub, specified in TLA+

Alby Hub is a self-custodial Lightning wallet: one process embeds (or talks to)
a Lightning node, keeps a table of transactions in sqlite or Postgres, and lets
apps pay and receive over Nostr Wallet Connect (NIP-47). Each app has permissions,
may have a budget, and may be *isolated*: a sub-wallet with a balance of its own
that exists only as a sum over rows of that table.

There are three specifications, each about a part of the system whose state the
others do not share: what the hub does with payments and requests (`Transactions`,
`RequestHandling`), how the process lives and what a browser tab makes of it
(`HubService`, `HubScreens`), and what a user does at the screens of a running hub
(`HubWallet`, of swaps, channels, connections and payments).

The specifications follow the code under `src/`. Names of definitions are the
names of the functions they model, and `PROJECT.json` maps each definition to
its lines, lists the hazards of the code with the properties that cover them,
and lists runs, findings and theorems.

1. [Inventory of the system](#1-inventory)
2. [Modules](#2-modules)
3. [The models and the code](#3-the-models-and-the-code)
4. [Properties](#4-properties)
5. [Runs, bounds and what they show](#5-runs)
6. [Fairness](#6-fairness)
7. [What is proved, and how](#7-what-is-proved)
8. [Findings](#8-findings)
9. [What is not modelled](#9-what-is-not-modelled)
10. [Plan](#10-plan)

## 1. Inventory

| Component (under `src/`) | State it keeps | Operations | Talks to |
|---|---|---|---|
| **Transactions service** `transactions/` | rows of the transactions table; the set of hold invoice consumers; the lock `balanceValidationLock` | MakeInvoice, MakeHoldInvoice, SendPaymentSync, SendKeysend, SettleHoldInvoice, CancelHoldInvoice, LookupTransaction, ConsumeEvent, checkUnsettledTransactions | calls the LN client; consumes its events; publishes `nwc_payment_sent`, `nwc_payment_received`, ... |
| **Balance and budget queries** `db/queries/` | none | GetIsolatedBalance, GetBudgetUsageSat | read the table inside the caller's database transaction |
| **LN clients** `lnclient/` (LDK, LND, Phoenixd, Cashu) | the node; for LDK the event loop, the event broadcaster and the events not yet handled | payments, invoices, hold invoices, channels, on-chain | publish `nwc_lnclient_*` events |
| **Event publisher** `events/` | list of subscribers, global properties | Publish (one goroutine per subscriber), PublishSync, Register/RemoveSubscriber | every service |
| **NIP-47** `nip47/` | request and response events in the database; queues of notifications and info events | HandleEvent and one controller per method, notifier, info publisher | relays, transactions service, apps |
| **Service** `service/` | the running LN client, cancel functions, one relay subscription per app wallet | StartApp, StopApp, Shutdown, create/update/delete app consumers | starts and stops all of the above |
| **Swaps** `swaps/` | rows of the swaps table, one watcher per swap, auto swap settings | SwapIn, SwapOut, RefundSwap, claim, auto swap | LN client, transactions service, Boltz, mempool API |
| **Apps** `apps/` | apps and their permissions | CreateApp, DeleteApp, lightning addresses | publishes `nwc_app_created/deleted` |
| **Config, keys** `config/`, `service/keys` | encrypted key-value settings, derived keys | Get, SetUpdate, SetIgnore, ChangeUnlockPassword | everyone |
| **API, HTTP, Wails** `api/`, `http/`, `wails/` | sessions | request handlers over the services; backup and restore | everyone |
| **Alby account, LSP** `alby/`, `lsp/` | OAuth tokens | remote calls | |
| **Frontend, the shell** `frontend/src/` redirects, setup, start, unlock, settings | the last answer to `/api/info`, localStorage (token, returnTo), the setup store | redirects, wizard, settings forms, backup and restore | polls the API |
| **Frontend, channels** `screens/channels`, `peers`, `onchain` | the channel order in localStorage, polled channels and balances | order, pay, wait, open, close, rebalance, deposit | API, LSPs, mempool API |
| **Frontend, connections** `screens/apps`, `subwallets`, `internal-apps` | forms over a copy of the app | create, edit, confirm, convert, delete | API, Alby |
| **Frontend, wallet** `screens/wallet` | the payment shown, filters, the export under way | send, receive, withdraw, label, export | API, mempool API |

Behaviours that are hard, by component, and what makes the component correct:

* *Transactions service.* Payments run concurrently and block for as long as the
  payment is in flight; the node's answer to the call and the node's event tell
  the same thing to two goroutines; lookups happen outside of the database
  transaction that acts on them; the node may be stopped, the process may die;
  a payment may be to this very hub. Correct: a payment is settled once, only if
  it was paid, for ever, and announced once; isolated balances and budgets
  hold; money sent to oneself is neither created nor lost; what the node
  did is in the table in the end.
* *LDK client.* A slow listener misses an event; the broadcaster's channels are
  unbuffered and its `serve` loop can end first; an event is marked handled when
  it was published, not when it was consumed. Correct: a call gets the answer to
  its own payment or an error, and stopping ends.
* *Event publisher.* Subscribers run under the publisher's mutex
  (PublishSync) or in goroutines. Correct: every subscriber gets every event,
  nothing waits for itself.
* *NIP-47.* A request comes from several relays, or twice; the process may die
  between storing and answering it; notifications wait in a bounded queue for a
  relay that is away. Correct: a request is executed at most once, answered if
  the hub lives, only with the permission it needs; a notification gets out.
* *Service.* Starts and stops race; app wallets are subscribed and unsubscribed by
  events. Correct: at most one node runs, what was started is stopped.
* *Swaps.* Funds are locked on chain and must be claimed or refunded across
  restarts; a refund by the user races the watcher. Correct: a swap ends, it is not
  both claimed and refunded, its state says which.

* *Lifecycle, config, backup.* The setup, a start, a stop, a change of password and a backup
  are requests of several steps from several clients, and a start or a stop leaves goroutines
  behind; the process may die at any step. Correct: one password opens
  everything, an ended session stays ended, nothing runs when the database is closed, and who
  presses start is told the outcome.
* *Screens.* A page acts on the answer it got last, while another tab, the network or the node
  moves on; answers come late, out of order or not at all; pages are loaded again. Correct: what a page
  says has happened has happened, and rights come only by a save that was confirmed.

The hazards, each at its line, are in `PROJECT.json`. The transactions service
comes first: it holds the users' money and nearly all of the concurrency.

## 2. Modules

| Module | What it is |
|---|---|
| `TransactionRows` | the transactions table as data: rows, queries, fee reserve, isolated balance, budget usage, `validateCanPay`; constants and their assumptions |
| `Transactions` | the transactions service with the LN client around it: variables, actions, specification, fairness, properties |
| `TransactionsMC` | requests, hashes, amounts and funds for TLC; symmetry |
| `TransactionsProofs` | type correctness, settled rows are final, settled once per payment; a settled row was paid, a success that is reported is true, a payment is published once |
| `TransactionsSelfProofs` | what a step does to each row, call, operation and message; self payments are conserved, canceled hold invoices stay canceled, success is recorded, the table agrees with the node in the end |
| `TransactionsBalanceProofs` | sums over the rows of a table; an isolated app's overdraft is money revived, a budget is kept |
| `RequestHandling` | NIP-47 requests: the tables of apps, requests and responses, `HandleEvent` step by step, removal of old requests, crashes |
| `RequestHandlingMC` | the requests, their methods and damages, and scope sets for TLC; symmetry |
| `RequestHandlingProofs` | type correctness, handled at most once, late requests have no effect, the state of a request tells its outcome, four ways to be left executing |
| `HubService` | the hub process: setup, start and stop of the node with their locks and goroutines, unlock password and encrypted entries, JWT secret, Alby account, backup, restore, restarts |
| `HubLifecycle` | the abstract life cycle of a hub, in four variables |
| `HubScreens` | extends `HubService` with a browser tab and a second client: redirects, wizard, start, unlock and settings; shown to implement `HubLifecycle` |
| `HubScreensProofs` | the hub implements its life cycle, ended sessions stay ended |
| `HubServiceProofs` | one password opens everything, a migration finds the hub stopped, types, redirects come to rest |
| `Swaps` | swaps in and out with Boltz: rows, listeners, the dispatcher, payers, the auto swap loop, restarts, and the swap screens |
| `Channels` | the channel order, the pages that pay for it and wait for it, the node page with its dialogs, peers, deposits |
| `Connections` | one app in two tabs: creation, forms, confirmation, conversion, addresses, deletion; the recurring plans |
| `WalletScreens` | sending, receiving, on-chain payments, the transaction list, labels, notifications, export |
| `SwapsProofs` | type correctness, swap rows tell the truth |
| `HubWallet` | composes the four: a user comes to a running hub for one of these areas; its values are the instance that is checked |
| `HubWalletProofs` | the invariants of channels, connections and wallet, and of the four areas together |

Payments meet requests at the methods that pay: what `RequestHandling` calls
carrying out a payment is a call of `Transactions`. `HubWallet` is
used while the node of `HubService` is on; `Swaps` and `WalletScreens` use of a payment what `Transactions`
guarantees: a row that is made and then settled or failed for good.
`TransactionRows` has no variables, so its operators are about any table and
are used in the model, in the properties and in the proofs alike.
No module has a RECURSIVE operator: sums are the folds of the community modules.
A few definitions are marked *Variant*: each is its neighbour with one plausible
bug, named in `PROJECT.json` as a mutant that must break a property.
They are not part of the specification.

## 3. The models and the code

### Transactions

**Requests.** What is paid is a *request*: a bolt11 invoice or a keysend. It has a
hash and an amount; two requests may share a hash (a wrapped invoice around
another one). A row remembers its request, from which hash and amount follow.
The payment request column of a keysend is `""`, and gorm drops an empty field
from a WHERE clause; `SameRequest` models that.

**Steps.** sqlite runs write transactions one at a time, so one database
transaction is one step, with the events published after its commit and the hold
invoice consumers they reach. Everything a goroutine reads outside of its
transaction is another step, remembered in a local variable:

| Variable | In the code |
|---|---|
| `txs` | table `transactions` |
| `call` | goroutines in SendPaymentSync or SendKeysend: program counter, request, app, the row created, the incoming row of a self payment |
| `ops` | goroutines in SettleHoldInvoice or CancelHoldInvoice with the row they looked up |
| `events` | `nwc_lnclient_*` events published and not consumed (a goroutine each, hence a set) |
| `consumers` | ConsumeEvent between the lookup of a row and the database transaction |
| `wakes` | settled/canceled notices on their way to the channels of `holdInvoiceConsumer`s |
| `announced` | how often `nwc_payment_sent` / `_received` was published, per request |
| `revived` | history: rows that went from FAILED to SETTLED |
| `out`, `htlc`, `running` | the node: outgoing payments by hash, incoming by request, started or not |
| `stops`, `crashes` | counters that bound the runs |

**A payment**, `call[p].pc`, follows the code from top to bottom:

```
BeginPayment            is it a self payment?      (outside the lock)
create                  CreateOutgoing             lock; duplicate check, validateCanPay, PENDING row
send -> waiting         SendToNode                 lnClient.SendPaymentSync / SendKeysend
   settle | fail        NodeResolves, StopNode     the call returns
keysendIncoming         CreateKeysendIncoming      self keysend: incoming row
intercept               InterceptSelfPayment       interceptSelfPayment
   selfSettle           SettleIncomingSelfPayment
   register, registered, holding                   interceptSelfHoldPayment
settle                  SettleOutgoing             markTransactionSettled
fail                    FailOutgoing               markPaymentFailed
```

`MarkTransactionSettled`, `MarkPaymentFailed`, `MarkHoldInvoiceAccepted` and
`CreateSettledTransactionFromNotification` are the code's helpers, with the
code's early returns: settling does nothing when a settled row exists but does
settle a failed row; failing refuses a settled row.

**The node** is an environment. From the code of the LDK client come: a hash that
is in flight or sent is refused (a failed one is not); an answer and an event for
each outcome; stopping cancels the context of every waiting call; a held payment
whose deadline passes is given back without an event; an event is marked as
handled after it was published, so that a crash loses any subset of those not
consumed. Which events are published differs by client and is the constant
`Emits`; a client without `payment_received` events is polled
(`checkUnsettledTransactions`).

**A crash** drops every goroutine and keeps the table and the node.

**Reductions.** Metadata, labels, descriptions, timestamps and pagination are not
in the rows. Expiry of invoices is not modelled: a payment of an expired invoice
never gets past the node or the early check. Database errors do not happen.
All rows fall in one budget period. `MakeInvoice` inserts its row in
the step that creates the invoice: nobody knows the invoice before
the call returns.

### Requests

`RequestHandling` follows `nip47/event_handler.go`. Every event that a relay delivers gets a
goroutine in `HandleEvent`; an event comes again from another relay, after a reconnect, or
after a restart, and what keeps it from being handled twice is the unique nostr id of its row.

| Variable | In the code |
|---|---|
| `apps`, `usedApps` | tables `apps` and `app_permissions`; primary keys ever given out, since they are not reused |
| `requestEvents`, `responses` | tables `request_events` and `response_events` (deleted with their request and app) |
| `handlers` | goroutines in `HandleEvent`: program counter, request, row, the app that was looked up, the state to be saved at the end, one program counter per payment of a multi_pay request |
| `old` | requests created more than six hours ago |
| `stored` | history: what each row ever stored held, and whether the request was late when it came in |
| `effects`, `answers` | history: how often a part was carried out and answered, by row |
| `received`, `crashes` | counters that bound the runs |

```
Receive                 a relay delivers the event
store                   StoreRequest       insert, or a duplicate: return
findApp                 FindApp            app by public key; unknown encryption: state error, answer
associate               AssociateApp       save app_id (a foreign key; the app may be gone by now)
decode                  DecodeRequest      content that cannot be decrypted or parsed
authorize               Authorize          method to scope, six hours, hasPermission; then the controller
parts                   one of these per payment; a request that pays nothing has one part
   run -> running       CarryOut           refused, or carried out (payments look the app up again)
   running -> answer    Complete
   answer -> finish     PublishResponse    store and publish the response, if the request still exists
   finish -> done       Finish             save the final state; the handler returns with its last part
```

Next to it users create, change and delete apps, and `RemoveExcessEvents` forgets the oldest
requests. Its two statements are one step: rows stored in between have higher ids, rows
deleted in between are gone either way.

*Reductions.* What a method does is only whether it is done. An app that a `create_connection`
request creates is one of `CreateApp`. A permission that has expired is a refusal that
may happen at any time. An event that comes while no node runs is
dropped before it is stored, which is the same as not coming. Whether a relay took the
response is a column nobody reads. Database errors do not happen, other than the
ones that follow from deleted rows (unique and foreign keys).

### The hub process and its shell

`HubService` has a step for every point at which another client, a goroutine or the death of the
process can come between. A value that is encrypted is the password it is
encrypted with; a JWT secret is a number drawn in order, a token the secret it is signed with.

| Variable | In the code |
|---|---|
| `entry`, `row`, `secret` | table `user_configs`: encrypted entries, plain ones, `JWTSecret` |
| `checked`, `loaded` | `cfg.cache` as far as the password check uses it; `cfg.jwtSecret` |
| `node`, `launched`, `doomed`, `closing`, `cancel` | `svc.lnClient`; the goroutines counted in `svc.wg`, by what they are at; `svc.appCancelFn` |
| `lock`, `start` | `startMutex`; `StartApp` between its checks, the keys, the launch and the end |
| `call` | for each client its request of several steps: stop, change of password, backup |
| `halted`, `restore` | the migration file was made; a backup waits to be put in place at the next boot |
| `overlap` | history: a migration began next to a start, or while nothing but the rest of a failed start was there to stop, or a start came in after it |
| `refilled`, `refused`, `retired` | history: a password was cached while it was being changed; a start of the setup was refused for want of an Alby session; the last secret that a change of password ended |
| `page`, `wait`, `info`, `token`, `returnTo`, `store` | the tab: route, what it waits for, last answer of `useInfo`, localStorage, setup store |
| `errand` | what the user has come for: the pages and nodes this calls for |

`StartHandler -> StartChecks -> KeysInit -> LaunchLNBackend -> MarkStarted -> StartEnds` is
`StartApp` behind its handler, `StopHandler -> StopStep -> StopReturns` with
`StopLNClient -> LNClientStopped` the cancellation and the goroutines that answer it,
`ChangePasswordHandler -> ChangeCommits -> ChangeResets` the change of password, and `BackupHandler ->
BackupStopped -> BackupArchives` the migration file. `Restart` is the process dying or
being restarted at any of these, with the restore of a backup at boot and the auto unlock.

In `HubScreens` every redirect component is an operator from a page and an answer of `/api/info` to
the page it leads to; `Redirect` takes one such step. `UseInfo` refreshes the answer at any time, so
that every screen acts on a stale one. The screens of the wizard, of start and unlock and of
the settings are one action per button.

### Screens of a running hub

Each of the four modules has the external world as actions of its own: Boltz, its websocket and the
chain; the node's channels, the provider and the mempool; Alby's addresses; payers and payees.

* *Swaps.* A listener is a goroutine per swap whose channel has room for one update (`updateCh`); the dispatcher
  takes an update (`TakeUpdate`) and blocks until there is room (`SendUpdate`).
  Broadcast and recording of a claim or a refund are two steps; `RefundSwap` of the user runs next to
  the listener; the payer of a swap out looks the payment up and sends it, again after a restart.
  `Restart` keeps rows, chain, lightning and Boltz; `Reconnect` loses the updates under way.
* *Channels.* The order (`useChannelOrderStore`), the request that opens a channel (peer, then channel), the
  payment of an LSP invoice, and the polled channels. `OrderScreen` is the
  choice of page by order status. Anyone may open a channel to the hub meanwhile.
* *Connections.* The row of an app, for each tab its copy, form and dialog, and the request it has at the hub
  with the app the handler read first (`base`). Capabilities are
  reading, paying, signing and superuser.
* *Wallet.* Rows, the list in the order of the last change, calls whose answer may be lost, coins and deposits by
  utxo, bounds of a first (JIT) channel, and the export page by page.

A *visit*, *plan* or *errand* is a record that says which pages a user goes to and what may happen
on the way. The code has no such thing; it splits the state space into parts small enough to be searched
completely. A page or fault that a visit leaves out is in another visit.

*Reductions.* A request that is refused and changes nothing is left out. What a user types wrong is left out, except
where the bounds are the subject. Fees and what Boltz sends are taken as verified by the library.
Amounts are small numbers chosen around the bounds the code compares with.

## 4. Properties

### Transactions

Invariants

* `TypeOK`: types; and every row a goroutine carries from one step to another
  still is a row of the type and hash its next step takes it for.
* `SettledOncePerPayment`: however often a payment is retried, answered,
  announced or found by polling, one row of it is settled.
* `AnnouncedOnce`: as many announcements as settlements.
* `SettledMeansPaid`: an outgoing row is settled only if the node sent a payment with its hash,
  or an incoming row of this hub with its hash is settled.
* `SuccessIsTrue`: nobody is *told* of a success that is none: no call about to settle,
  no waiting payer of a hold invoice (who learns it on a channel that
  carries no identifier), no consumer of a sent event.
* `SelfPaymentConserved`: money received from this hub itself is money a payer here
  is out of.
* `IsolatedOverdraftIsRevived`: an isolated app is never overdrawn by more than the
  payments that settled after their row had failed. (The plain
  `IsolatedNeverOverspent` is false, see section 8.)
* `BudgetHolds`: usage exceeds a budget by at most the two roundings to sats.
* `QuietTableAgreesWithNode`: with no goroutine and no event left, what the node
  sent is settled and what is pending is in flight.

Action properties

* `SettledIsFinal`: a settled row never changes.
* `SuccessIsRecorded`: a call that was answered with success leaves its row settled (for own invoices; section 8).
* `CanceledHoldStaysCanceled`: a failed incoming row is never paid out.

Liveness of `Transactions`: `SentIsRecorded`, `ReceivedIsRecorded`, `HoldPayerIsWoken`.

`BudgetHolds` and the isolated properties leave out the reserve of self payments
(`SelfReserves`): `validateCanPay` does not ask for it, but the row holds it back
until it settles.

### The hub process and its shell

* `KeepsLifecycle`: `HubScreens` implements `HubLifecycle`, a refinement with
  `password <- entry["check"]`, `done <- row.started`, `running <- node` and `changing` for a change under way.
  No interleaving of locks, goroutines, stale screens and restarts sets a hub up twice,
  runs a node without a password, or changes a password nobody asked to change.
* `KeysOpen`: once the setup is complete one password opens every encrypted entry, through failed
  starts, setups that are repeated, changes of password and restores. Two exceptions: a password that was
  checked while it was being changed (`refilled`), and the JWT secret alone (`LeftBehind`) when a start of the
  setup was refused for want of an Alby session.
* `OldTokensStayOut`: the JWT secret of a session that a change of password ended is never
  accepted again.
* `HaltedMeansStopped`: no node is left, and none being launched or shut down, when the backup closes the
  database, unless a start `overlap`s it.
* `RedirectsSettle`: from any page, with any stale answer and remembered route, the redirects come to rest.
* `StartIsAnswered` (liveness): the start screen does not wait for ever for a start that is over.

### Screens of a running hub

* `SwapTellsTruth`: a swap that is SUCCESS was paid or is confirmed, what is recorded was broadcast, and FAILED hides
  a claim or refund only after a crash or next to the user's own refund.
* `SwapsResolve` (liveness): a swap with a deposit or a payment under way is decided, unless the
  dispatcher is stuck or Boltz has moved past what the listener waits for.
* `SuccessIsRight`: a page that congratulates on a channel shows one that was active, that was opened for this order or
  was not there before.
* `TopupIsEnough`: a deposit of the recommended amount makes the order page go on.
* `SubwalletStaysIsolated`: whatever stale tabs send, a sub-wallet stays isolated.
* `GrantsAreConfirmed` (action): an app comes to pay, or leaves isolation, only by a save that was confirmed or
  that did not know the app as it was; superuser only with the unlock password.
* `PlannedPaymentsFit`: the budget of a recurring plan lets every payment of a month through.
* `ShownIsReal`: paid, received, arrived and confirmed are true where a page says so; an invoice the form makes can
  be paid.
* `ExportIsComplete`: rows that kept their place during the export are in the file.
* `OneAutoSwap`: one auto swap at a time. False, see section 8.

An exception that a property names is a behaviour the model has and the code's authors make no promise about;
section 8 lists them.

### Requests

* `TypeOK`: types; and a handler past its insert holds the row of its own request.
* `HandledOnceWhileRemembered`: of all rows ever stored for a request only the last can still be
  there, and no row had a part carried out or answered twice, over restarts, deletion of apps and
  removal of old requests.
* `LateRequestsHaveNoEffect`: a request to pay or to make an invoice that came in later than
  six hours after its creation is never carried out. This is the second line of defence, for
  requests the hub no longer remembers.
* `StateTellsOutcome`: a request in state `error` was not carried out, one in state `executed` has
  a response.
* `StuckIsExplained`: a request is left in state `executing` with nobody working on it only if the hub crashed,
  no app was saved with it, it was too old, or it was a multi_pay request without payments.
* `AnsweredOnce`: a request is answered once, whatever happens. False, see section 8.

## 5. Runs

Every run is exhaustive. Bounds are constants: `TxId` (rows), `Payers`,
`Operators`, `Spare` (rows kept free for what only events create),
`MaxStops`, `MaxCrashes`; for the hub `MaxSecrets`, `MaxFailures`, `MaxBoots`; for the screens
`MaxUpdates`, `MaxDeposits`, `MaxOrders`, `MaxTx`, `MaxSaves`, and the faults and edits of a plan or visit.

| Run | Instance | Shows |
|---|---|---|
| `node` | two payers, one isolated app with funds for one payment, two external invoices, three rows, one stop, one invoice may be paid on the node directly | payments, retries, stops and events in any order: settled once, announced once, only if sent, overdraft bounded, the table right in the end |
| `self` | an invoice and a hold invoice of this hub, paid by the hub and by others, and a keysend from others; one operator, one crash | self payments conserve money; a decided hold invoice stays decided; a call told of success records it |
| `poll` | a client without events, an app with a budget, an invoice, keysends to others and to this hub, an own invoice paid by others, stops | polling next to running calls; settled only if paid; the budget up to roundings |
| `live` | external invoice, hold invoice and keysend, two payers, one operator, one stop, no crash | what happened gets recorded; the waiting payer is woken |
| `over`, `race`, `wrap` | smallest instances of section 8 | violations |
| `requests` | two handlers, two deliveries, two app ids with one key, one request remembered, one crash; a multi_pay request of two payments and an empty one, a `get_info`, an unknown method, and requests with unknown encryption or unreadable content, JSON or parameters | handled once while remembered, late requests without effect, the state tells the outcome, a stuck request is explained |
| `forgotten` | one handler, one app, one request remembered, three deliveries | violation of `AnsweredOnce` |
| `hub` | two passwords, a tab and a second client, eleven errands, two secrets, two failed starts, one restart | the properties of the process and its shell, the refinement among them |
| `wallet` | a swap in and a swap out, three channels and two orders, one app in two tabs, four rows; six kinds of visit to channels, six to apps and six to the wallet | the properties of the screens |
| `autoswap` | two swaps out by the auto swap loop | violation of `OneAutoSwap` |

A property is checked where an instance has the case it is about: `AnnouncedOnce`, `SettledOncePerPayment` and
`SettledIsFinal` in `node` or `self` and not again in `poll`.

Why these bounds are enough to be of interest. Two payers, two requests
and three rows give every pairwise race: two payments of one app, two
payments of one invoice (the second a retry after a failure), and a row that only an event
creates; a third payer would only repeat a role. Funds cover exactly one payment
with its reserve, so that a second is refused in every state the check
is right in. One stop suffices to separate a call from its
payment, one crash to lose any subset of events and all goroutines. Amounts are
chosen off the sat (10500 msat) so that rounding shows.
Payers and handlers are symmetric where all of them have the same role, and no
liveness is checked with symmetry.

For `hub`: two passwords are enough for a right and a wrong or an old and a new one; two secrets for a session before
and after a change; a start that fails twice shows an error noticed, retried and noticed again; one restart
interrupts any step. The second client has the race with the tab: start next to start, stop
next to start, change of password next to unlock.

For `wallet`: the areas share no state, so a visit to one leaves the others at an initial state, and the run is the union
of theirs. A swap has room for one update in its channel and two of Boltz under way, which is where the
dispatcher waits; one restart or reconnect in a plan separates broadcast from record; two swaps of different direction make one block the
other. Two orders let the answer of the first meet the second; a third channel is the one a stranger opens. Two tabs
and two edits give every lost update. Four rows over pages of two are the smallest list in which a
row can cross a page border while another page is still to come, and plan amounts go from a few sats
to 1000, where the fee reserve of a payment changes from 10 sats to a share.

For `requests`: two handlers race to store one request, or handle two requests of which storing
the second makes the first removable; the app is deleted and created again with the same key at
any step of either; the crash separates storing from answering. A request that comes again after it was
removed needs three deliveries and is the subject of `forgotten`, and of the theorems for any number.

Deadlock is not checked: when every invoice is paid and every bound is used up
there is nothing left to do, and users are free to leave any screen as it is.

A crash is left out of `node` since a crash between payment and event loses both
the answer and the event: `QuietTableAgreesWithNode` is about a hub that lives.
`self` shows that the safety properties survive crashes.

## 6. Fairness

`FairSpec` adds weak fairness of each goroutine's own steps: payers, operators, and
the consumers of events. That is what Go's scheduler and a database that answers
give. Nothing is asked of the node: a payment may stay in flight for
ever, a hold invoice may never be decided, the node may stay stopped. Hence the liveness
properties start from what the node *did*. Weak fairness of `PayerStep(p)` is
enough since a payer is one goroutine and each of its steps stays enabled until it
is taken, or is disabled by another's step for good reason.
Polling gets no fairness: it runs only when a user lists transactions.

`HubScreens` asks weak fairness of the steps of a start (`Progress`: they run in a goroutine that holds the lock and waits
for nobody), of the refresh of `/api/info` (the start screen polls it), and of the redirects (effects that React
runs after each render). Not of the user, of a stop, or of the process being restarted.

`SwapsFairness` asks it of the dispatcher, the listener and the payer of each swap (goroutines), and of Boltz
with a swap it has: a provider that goes silent for ever leaves the swap PENDING, and the code has
no timeout of its own for that. Where the dispatcher blocks for ever its step is not enabled, so that
fairness does not hide the hazard. `HubWalletFairness` is the same within the area of swaps.

## 7. What is proved

TLAPS proves, for all values of the constants that satisfy the named assumptions
(any number of payers, requests, rows, apps, stops, crashes; any sharing of
hashes; any set of emitted events; any non-empty set of passwords, any number of JWT secrets, failed starts and restarts;
any number of swaps, channels, orders, edits, rows and pages, and any amounts):

| Theorem | Statement |
|---|---|
| `TypeCorrect` | `Spec => []TypeOK` |
| `SettledRowsAreFinal` | `Spec => SettledIsFinal` |
| `SettledAtMostOnce` | `Spec => []SettledOncePerPayment` |
| `SettledIsPaid` | `Spec => []SettledMeansPaid`, if the client publishes `payment_received` |
| `ReportedSuccessIsTrue` | `Spec => []SuccessIsTrue`, under the same assumption |
| `OverdraftIsRevived` | `Spec => []IsolatedOverdraftIsRevived`, if hashes are apart (below) |
| `BudgetIsKept` | `Spec => []BudgetHolds`, under the same assumption |
| `SelfPaymentsAreConserved` | `Spec => []SelfPaymentConserved`, if own hashes are apart and operations on hold invoices do not overlap (below) |
| `CanceledHoldsStayCanceled` | `Spec => CanceledHoldStaysCanceled`, under the same assumptions |
| `OwnSuccessIsRecorded` | `Spec => SuccessIsRecorded`, if own hashes are apart and the hub pays its own invoices only |
| `QuietTableAgrees` | `Spec => []QuietTableAgreesWithNode`, for invoices with hashes that nobody shares, without crashes |
| `RequestHandlingProofs!TypeCorrect` | `Spec => []TypeOK` of `RequestHandling` |
| `HandledAtMostOnce` | `Spec => []HandledOnceWhileRemembered` |
| `LateIsNotCarriedOut` | `Spec => []LateRequestsHaveNoEffect` |
| `ImplementsLifecycle` | `Spec => KeepsLifecycle` of `HubScreens`: it implements `HubLifecycle` |
| `EndedSessionsStayOut` | `Spec => []OldTokensStayOut` of `HubScreens` |
| `OnePasswordOpensAll` | `Spec => []KeysOpen` of `HubScreens` |
| `MigrationFindsHubStopped` | `Spec => []HaltedMeansStopped` of `HubScreens` |
| `ScreensTypeCorrect` | `Spec => []TypeOK` of `HubScreens` |
| `RedirectsComeToRest` | `Spec => []RedirectsSettle` of `HubScreens` |
| `StateIsTruthful` | `Spec => []StateTellsOutcome` of `RequestHandling` |
| `OnlyFourWaysToGetStuck` | `Spec => []StuckIsExplained` of `RequestHandling` |
| `PublishedOnce` | `Spec => []AnnouncedOnce` of `Transactions` |
| `SwapsTypeCorrect` | `SwapsSpec => []SwapTypeOK` |
| `SwapsTellTheTruth`, `SwapScreensTellTheTruth` | `[]SwapTellsTruth`, of `SwapsSpec` and of `HubWalletSpec` |
| `HubWalletTypeCorrect` | `HubWalletSpec => []HubWalletTypeOK` |
| `ChannelPagesAreRight` | `HubWalletSpec => []SuccessIsRight` |
| `OneTopupSuffices` | `HubWalletSpec => []TopupIsEnough` |
| `SubwalletsAreIsolated` | `HubWalletSpec => []SubwalletStaysIsolated` |
| `GrantsNeedConfirmation` | `HubWalletSpec => GrantsAreConfirmed` |
| `PlansFitTheirBudget` | `HubWalletSpec => []PlannedPaymentsFit` |
| `PagesShowWhatIsReal` | `HubWalletSpec => []ShownIsReal` |
| `ExportsMissNothing` | `HubWalletSpec => []ExportIsComplete` |

*Type correctness and tables.* `TypeOK` is inductive because it contains `LocalsOK`: the
code updates rows through identifiers it looked up earlier, so the table's type
alone says nothing about the next update. It also contains, for a call
about to settle, that the node has a sent payment of its hash, which is where the
fee comes from. Per action one lemma shows `StepOK`: types are
kept; the table makes a `TableStep`, which keeps every row's identity
and every settled row whole (`KeepsRows`) and settles a row only where no settled row of its
payment is found (`SettlesOnce`); and a sent payment stays sent (`SentStays`).
`SettledIsFinal` and the induction for `SettledOncePerPayment` follow
from the table step alone, without looking at actions again.

*Paid.* `SettledMeansPaid` is not inductive: a row is settled on the word of an answer, an
event or a channel. `PaidInv` adds `SuccessIsTrue` (each of these is true while it is
on its way) and `OutByHash` (the payment the node has under a hash has that hash).
Truth is kept since `Sent` and `ReceivedHere` are never undone (from `TableStep` and
`SentStays`); what is left per action is that it introduces no untrue word.
The assumption `"payment_received" \in Emits` excludes polling, whose
`LookupInvoice` answers for the *incoming* payment of a hash even when the row in question is
outgoing: there a self payment's outgoing row can be taken for settled because
someone else paid the invoice over the network (the row it then claims was paid is
about to be settled, so the property holds only later). TLC checks
`SettledMeansPaid` for a polled client in run `poll`, where the own invoice is paid by others only.

*Handled once.* The counters of `HandledOnceWhileRemembered` say nothing of what is still to come.
`OnceInv` adds: two handlers never work on one row; a part that is still to be carried out, or to be
answered, has not been (the program counter of the part tells which counters are zero); rows not yet stored have
been counted nowhere; and a row that exists is the last one stored of its request. The last is what the
unique nostr id gives, and why a delivery after the removal of the row is handled anew without contradicting it.

*Late.* `LateInv` adds that a row stored late holds an old request, and that a handler with a part still to run of a
pay or invoice request is not on a late row: `Authorize` asks `TooOld` before any part is made, and
`old` only grows, so a request late when stored is still too old when asked about.

*The hub.* A step of the detailed hub is a step of `HubLifecycle` only in states that can be reached: a start may
turn the node on because it checked the password many steps ago, and a screen may ask for a change on the strength of an
old answer to `/api/info`. `Inv` says what carries that through. `LockHeld`: a start under way, or a request that is stopping,
holds `startMutex`, so no setup gets in. `PasswordIsSet`: a start past its checks, and a hub that is set up, has a
password, and a node that runs before the setup is complete was launched by the start that is about to complete it, so `Setup` never meets one.
`CallsAllowed`: only the tab changes the password or makes a backup, and of a hub that is set up; `TabInv` supports it:
whatever is stale, the tab shows the pages that lead there, or an answer that says *completed*, only for a hub that is
set up, which is for ever. `SecretsInOrder`: JWT secrets are drawn in order, the one in memory and the one
in the table are later than the last retired, and between the commit of a change and the moment the copy in memory is dropped, the table holds none and
the copy keeps a start from drawing one. One lemma per operation of `HubService` shows `HubStep` (the
invariant is kept, the abstract step or a stutter, a hub that is set up stays so); the lemmas about the screens
then have to look at the tab only.

*Published once.* `PublishedInv` compares the count of announcements with the number of settled rows of the payment,
in a table that is finite. Every action changes the table by one of five operations (`TableOperation`): a row is inserted, failed, accepted,
marked settled, or created settled. The first three settle nothing and publish nothing; each of the others
publishes exactly when it makes one row settled that was not. With `SettledOncePerPayment` there is at most one.

*Balance and budget.* Both properties compare a sum over all rows of an app with a limit, and both are kept by the same
argument, so `BalanceInv` states them once. `Covered`, its heart: the rows that `validateCanPay` let through, each counted with its
*validated cost* (amount and fee reserve, which bounds whatever fee is settled later), fit what was there when they were validated: funding and received
money for an isolated app, 1000 times the budget and the two roundings for a budget. A row that fails leaves the sum; a
row that is revived by a late success comes back to it, which is what `Revived` counts. For a settled row to cost no more than it was validated for,
every fee that is told must have been reserved: by the call that will settle the row (`CallsFit`), the payment of the node (`OutFits`),
each event on its way and each consumer (`QueuesFit`).

The sums are handled by lemmas of their own: the sum over a set grows by the element that is inserted (`SumInsert`), is
monotone in set and summand (`SumMonotone`), and splits (`SumPlus`, `SumWhere`). `SumOver` is a recursive function
of a set, and the library's induction over finite sets takes an operator; in its place stands the set of cardinalities at which a claim
fails, which has a least element (`LeastNumber`) unless it is empty.

`HashesApart`, the hypothesis of both theorems: a request to another node never has the hash of an invoice of this hub, and
requests that do share a hash (a reused preimage) reserve the same. It is needed: a sent event looks a row up by its hash
alone, so that with a wrapped invoice the event of the outer payment settles the hub's own row of the inner
one, whose reserve did not count the fee of the route; in the instance of run `wrap` TLC finds
`IsolatedOverdraftIsRevived` violated. The instances of all other runs of `Transactions` satisfy it.

*Self payments and hold invoices.* The properties relate two rows that different goroutines write, so the proof first says
once what any step does to a row (`RowsStep`: who may fail, accept or settle it, and what that goroutine knew), to
a call (`CallsStep`), to the notices of hold invoices (`WakesStep`), and to operations, events and consumers (`NodeStep`). The
parts of the invariants then follow from these, without another look at the actions. `LedgerInv`: what the node sends goes to others;
an incoming row is for an own request, one row per invoice, and only hold invoices are accepted or fail; what is received has a row to go
to; a call has its own row, which is pending or settled as long as the call is a self payment under way. `HoldInv` adds what makes the ledger whole:
while an operation on a hold invoice runs its row waits for it or is settled (`HoldOps`); the node is paid for a hold
invoice only while the row waits for that (`PaidHolds`); a payer is told of a cancellation only after the decision
(`CancelsAreDecided`); and `AllBacked`, its heart: for every own incoming row that is accepted or settled for a self payment there is a
payer's row that counts, whose call, if it still runs, settles it next or has not been told of a cancellation.

`OwnApart`, a hypothesis of the first three: nobody else's request has the hash of an own one. A wrapped invoice breaks it, and run `wrap`
shows what becomes of the table. `OneOperator`, of the first two: SettleHoldInvoice and CancelHoldInvoice do not overlap; run `race` is the
counterexample without it, since neither takes a lock across its question to the node. Payments, events, deadlines, stops and crashes
interleave at will. `OwnSuccessIsRecorded` does without `OneOperator`: it rests on `OwnPaidOnce`, that among the rows of an own invoice at most one is
pending or settled. For an invoice of another node that is not so, and the statement is false (section 8).

*The table and the node.* `Delivered` says of a step that is no crash: a sent event goes to a consumer, a consumer leaves a settled row, a
payment that is sent is published, a call that is cut off or answered is no longer waiting. So of everything sent a row, an
event or a consumer tells (`SentIsCarried`). For the other direction, `HasCall`: a pending row has a call that will end, and a call ends with its row failed or
settled, unless another row of the payment is settled already. That it is not takes `PendingOnce` (an
invoice has one pending row, by the duplicate check), `SendsOnce` (a payment is in flight or answered for one call) and
`SettlesAlone` (next to a call about to settle its pending row there is no settled row of the payment, and every consumer of a sent
event has chosen that row; the lookup prefers pending rows). The result is stronger than the property: at rest no outgoing row is pending at all,
not even for a payment in flight, since a stop has failed the row of every call it cut off. Keysends are left out since a retry may pay twice;
crashes since they lose both the answer and the event.

*Outcome of a request.* `OutcomeInv` has a part per handler and one per row. `HandlerTells`: a handler whose saved state is not
`executed` has carried out nothing and never will; a part about to finish has its response; a row in state `error` has a
handler that keeps that state, or none. `RowTells` is the two properties, row by row. Where the last handler
of a row goes away, its program counter says which of the four explanations holds.

*One password.* `KeysInv` has four parts. `CacheIsRight`: what is cached as right is the password that is set, and nothing is cached
while a change is under way; so a start past its check has that password, and no change gets in between check and launch,
since a change needs a node. `SetupIsAlone`: until the setup is complete only a start of the wizard holds the lock.
`SecretGoesWithKey`: until then the JWT secret is under the password of the Nostr key, or of the start about to
make one; this is what fails after a start that was refused for want of an Alby session (`refused`), which saved the secret and not
the key. `AllOpen`: from the launch on, everything is under the one password.
The prover found that exception: the invariant without it is not inductive, and the states that break it can be reached.

*Migration.* `StopInv` counts goroutines. `NodeIsCounted`: besides those canceled or shutting down there is one for the start that has
launched and one for the last start that ended, and a node has one that is not shutting another down. `MigrationIsAlone`: without an
`overlap` nothing starts next to a migration, and when it archives there is no goroutine left, so no node.

*Types and redirects of the screens.* `TypesInv` is inductive with `Inv`: `CountTypes` for the process and `ScreenTypes` for the tab, which
also says which pages go with which stored routes. `RedirectsSettle` then is a fact about any state of these types: each redirect either leaves the
page alone, or leads to one nearer to rest; the remembered route of the setup is forgotten at home, so it leads back there at most once. Five steps are
the longest chain.

*Swaps.* `SwapsInv`: a status that is on its way (`updates`, `hand`, `updateCh`) was said by Boltz and is still so as far as a listener relies on it
(`MessagesSaid`); what a listener or a payer at each program counter knows, per direction (`InTells`, `OutTells`); that a swap out
is paid once as long as nothing was lost (`QuietOut`: this is where restarts and reconnects are exceptions); and that what
the tab has seen is so (`TabTells`). The states a swap can come to rest in are final for the chain and for lightning, which keeps an old message true.

*Channels, connections, wallet.* `HubWalletInv` is the conjunction of the invariants of the areas; a step of one area leaves the variables
of the others alone. `ChannelsInv`: the number of an order identifies the request and the channel opened for it, unless an answer was `late`;
what the tab saw active was active. `AppsInv`: a sub-wallet is isolated in every copy a handler read (`base`), and a save
that was not confirmed, from a page that knew the app, adds no right; `PlanInv`: what was spent and what is left, with
one per cent of fees each, fits the budget and stays below its warning. `WalletInv`: per page what it knows of the row, coin, deposit or provider (`PageTells`);
each notification is matched with an arrived payment or an edit, the one that is due included (`ToastsTell`); a listed row that did
not move is in the file or behind the offset (`ExportTells`), since rows that move go to the top.
`TopupIsEnough` and the step of `PlanInv` are arithmetic, for any amounts.

*Assumptions.* Each is the named `ASSUME` of a constant in the module that declares it: identifiers are positive numbers,
the special values are not among the ordinary ones, sets of visits and plans are of the kinds the tables define, amounts are
natural numbers, the sets of swaps and channels are finite, a page of the list is not empty. The two theorems on payment being real assume besides that the client publishes `payment_received`, the two on
balance and budget that hashes are apart; those of `TransactionsSelfProofs` assume both, and what is said of each above
(`LedgerAssumption`, `SelfPaymentsAssumption` and `OwnAssumption`, which the instance of `self` satisfies, and
`QuietAssumption`, which that of `node` does).

*Checked only by TLC:*

* Liveness (`SentIsRecorded`, `ReceivedIsRecorded`, `HoldPayerIsWoken`, `StartIsAnswered`, `SwapsResolve`): the prover has no rule for fairness.
* `SettledMeansPaid` for a polled client.

## 8. Findings

* **over** An isolated app can overspend. The event of a failed first attempt is
  consumed after the invoice was retried and fails the *retry's* row, which is in flight; its amount no
  longer counts, another payment is allowed, and the retry's success settles the
  failed row. `IsolatedOverdraftIsRevived` is what does hold.
* **race** SettleHoldInvoice and CancelHoldInvoice at once: the settlement commits over the
  cancellation, after the payer was told of the latter.
* **wrap** The consumer of `payment_sent` looks a row up by hash alone; with a wrapped invoice it
  settles the row of the invoice that was not paid.
* **autoswap** Auto swaps can run concurrently: the loop that is replaced is blocked in its swap and does not see
  its context canceled; the new loop starts another, though SwapOut blocks to prevent that.
* **forgotten** The hub answers a request again when it comes again after its row was removed
  (`removeExcessEvents`), here a keysend within the six hours in which it would be carried out again;
  the test of the handler says of a second delivery that it should not publish.

Known behaviour that no run states as a property, for want of a claim to hold it against:

* Keysends with a chosen, reused preimage: the empty payment request matches every row with the
  hash, so the second success finds a settled row and leaves its own pending;
  `SuccessIsRecorded` is checked without reused preimages.
* With the stale event of run `over`, the attempt and its retry both have a failed row when the retry succeeds, and the sent event
  settles the row touched last, which need not be the retry's: that one stays FAILED though its call returned success. The instance of
  `node` violates `SuccessIsRecorded` in this way; one row of the payment is settled all the same (`SentIsRecorded`).
* A payer who registers for a hold invoice after a network payer's payment of it was settled is not
  woken; `live` has no network payer for the hold invoice.
* After a crash, the row of a payment in flight whose event was lost, and the row of a payer
  waiting for a hold invoice, stay PENDING, with amount and reserve held back.
* A held payment that expires leaves its row ACCEPTED.
* CreateBackup stops the app without the lock of the starts: a start that overlaps it launches a node on a database that is about to be
  closed, and the node of a start that failed may still be shutting down when it is (`overlap`). A hub halted by a backup can still answer from what it cached.
* A password that is checked while it is being changed is cached anew before the commit: the old password is
  accepted until the process ends (`refilled`).
* A setup whose start failed can be repeated with another password; the entries of the first one are
  written again where the setup writes them, and the start fails where it does not. The JWT secret is not written again: a start that was
  refused for want of an Alby session has saved it under the first password, and if the repeated setup completes while it is still cached, the hub
  cannot read it after its next restart (`refused`, `LeftBehind`).
* When the shutdown in the settings fails, the page keeps its `shuttingDown` and goes on waiting.
* The goroutine that shuts a node down can run after another one has, and a stop that waits for it
  may wait for ever; `StartIsAnswered` is about starts only.
* The dispatcher of swap updates blocks for ever on the full channel of a listener that has ended, and after a reconnect Boltz sends
  only the last status: in both cases a swap may stay PENDING until the hub restarts (`DispatcherStuck`, `Overtaken`).
* An answer for a channel order that was replaced is applied to the new order (`late`); a page that is loaded again while its request is
  under way opens a second channel.
* A save from a tab that did not know of another tab's change undoes it (`stale`, `base`).
* A payment whose answer was lost can be made again: on chain, or by a new invoice of a lightning address.

## 9. What is not modelled

`PROJECT.json` lists every component with its status.

* *NIP-47 notifications and info events, the event publisher, the LDK event broadcaster.* Of these the models use what other
  parts see: events come late, in any order, or not at all after a crash. Their queues and
  retries are left for later work.
* *Remote calls without state of their own*: the Alby and LSP clients, price and mempool services; they appear as an external step each.
* *Pass-through to the node*: on-chain balances, peers, custom node commands, message signing.
* *Database*: schema and migrations (run once before anything starts), errors of single statements, and Postgres, whose default isolation would split the steps of
  `Transactions` (`markHoldInvoiceAccepted` and
  `createSettledTransactionFromNotification` take no row lock); the model is that of sqlite.
  That gorm may bring a deleted app back with a new permission (`UpdateApp`) depends on how it saves associations.
* *Cryptography and derivation of keys*: an encrypted value is the password that opens it.
* *Subscriptions of apps at relays* (`create_app_consumer.go` and its siblings).
* *Pages without state a property could be about*: the app store with its guides (`SuggestedAppData.tsx`), cards, AI pages, the
  sidebar, the ui kit, onboarding, home widgets; of `Channels.tsx` its alerts and the marks of channels that are long
  unconfirmed; of the export the text of the file; search and paging in lists of apps.
* *Wails*: the same handlers without tokens.

## 10. Plan

Proofs that are left:

| Theorem | Argument |
|---|---|
| `SettledMeansPaid` for a polled client | the row that is settled first and claims another's payment is settled next; it needs a weaker property |
| `SuccessIsRecorded` for invoices of other nodes, by whichever row of the payment | `Delivered` with `SettledOncePerPayment`; the property names the call's own row |

Models, each with one run:

| Module | Behaviour | Properties |
|---|---|---|
| `Notifications` | notification queue, relay down, retry; info events per relay | bounded; what was queued gets out |
| `LdkEvents` | broadcaster with its listeners and time limit, shutdown | an answer is for one's own payment; stop ends |
| `AppSubscriptions` | one relay subscription per app wallet, created, updated and cancelled by events | every app subscribed once, a deleted one not |
| `Payments` (abstract) | a payment per request and app: none, pending, settled, failed | `Transactions` implements it |

Also: that a request that can be answered is answered (fairness of the handlers, on a smaller instance of `requests`); a Postgres
variant of the hold invoice steps.
