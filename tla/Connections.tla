----------------------------- MODULE Connections -----------------------------
(***************************************************************************)
(* One app connection, from its creation to its end: the pages of two      *)
(* browser tabs that make, change, convert and delete it                   *)
(* (frontend/src/screens/apps, subwallets, internal-apps and alby), the    *)
(* handlers of the hub (api/api.go, apps/apps_service.go) and the          *)
(* lightning address that Alby keeps for it.  A plan of ZapPlanner is an   *)
(* app as well, with the payments a service makes through it.              *)
(*                                                                         *)
(* A handler reads the app before its database transaction.  Of an app's   *)
(* scopes the model keeps reading, paying, signing and superuser; of its   *)
(* metadata the store app and the lightning address.                       *)
(***************************************************************************)
EXTENDS Integers, FiniteSets, FiniteSetsExt

CONSTANTS
    AppVisits,      \* what the user has come for, a subset of DOMAIN AppVisitTable
    PlanAmounts,    \* amounts a plan may have, in sats
    PlanRates       \* [unit, every]: how often a plan pays

VARIABLES
    app,            \* the row of the app and its permissions
    address,        \* Alby has a lightning address for the app
    appTab,         \* the tabs
    appReq,         \* for each tab its request at the hub
    zap,            \* a plan of ZapPlanner, its form and its payments
    account,        \* the Alby account: [plan, full, linked]
    appVisit

appVars == <<app, address, appTab, appReq, zap, account, appVisit>>

Tabs == {1, 2}

(* capabilities.scopes: "get_info" stands for every scope that neither     *)
(* pays nor signs, that is for the reading ones and make_invoice.          *)
Capabilities == {"get_info", "pay_invoice", "sign_message"}
Scopes == Capabilities \cup {"superuser"}
AppStates == {"none", "live", "deleted"}
Stores == {"none", "subwallet", "internal", "listed"}         \* metadata.app_store_app_id
AppPages == {"start", "configure", "finalize", "created", "app", "list", "cleanup"}

NoApp == [state |-> "none", isolated |-> FALSE, store |-> "none", lud16 |-> FALSE, scopes |-> {},
          limit |-> FALSE, funds |-> FALSE, born |-> "none", unlocked |-> FALSE, used |-> FALSE]
NoForm == [scopes |-> {}, isolated |-> FALSE, limit |-> FALSE, group |-> "custom", store |-> "none",
           lud16 |-> FALSE]
NoAppTab == [page |-> "start", copy |-> NoApp, form |-> NoForm, editing |-> FALSE, dialog |-> "no",
             edits |-> 0]
NoAppReq == [kind |-> "none", base |-> NoApp, form |-> NoForm, confirmed |-> FALSE, stale |-> FALSE]
NoPlan == [at |-> "closed", typed |-> 0, sats |-> 0, pending |-> {}, overtaken |-> FALSE, max |-> 0,
           each |-> 0, left |-> 0, spent |-> 0, trouble |-> FALSE]

(* NewApp: what a link asks for.                                           *)
Links == [store : {"none", "listed"}, readonly : BOOLEAN, isolated : BOOLEAN, superuser : BOOLEAN]
PlainLink == [store |-> "none", readonly |-> FALSE, isolated |-> FALSE, superuser |-> FALSE]
IsolatedLink == [PlainLink EXCEPT !.isolated = TRUE]
SuperuserLink == [PlainLink EXCEPT !.superuser = TRUE, !.store = "listed"]

(* What a visit needs: how the app is made and from which link, what is    *)
(* done in each tab, and how many changes are made in its forms.           *)
Does(kinds, links, one, two, edits) ==
    [kinds |-> kinds, links |-> links, does |-> <<one, two>>, edits |-> edits]
AppVisitTable ==
    [subwallet |-> Does({"subwallet"}, {}, {"edit"}, {"address", "delete"}, <<1, 0>>),
     new |-> Does({"new"}, {l \in Links : l.superuser \/ l.readonly => l.store = "listed"}, {"edit"}, {}, <<2, 0>>),
     isolated |-> Does({"new"}, {IsolatedLink}, {"edit"}, {"convert"}, <<2, 0>>),
     shared |-> Does({"new"}, {PlainLink, SuperuserLink}, {"edit"}, {"edit"}, <<1, 1>>),
     internal |-> Does({"shop", "game", "cli"}, {}, {"fund", "delete", "link"}, {}, <<0, 0>>),
     planner |-> Does({"plan"}, {}, {}, {}, <<0, 0>>)]
Can(t, what) == what \in AppVisitTable[appVisit].does[t]

ASSUME ConnectionsAssumption ==
    /\ AppVisits \subseteq DOMAIN AppVisitTable
    /\ PlanAmounts \subseteq Nat \ {0}
    /\ PlanRates \subseteq [unit : {"days", "weeks", "months"}, every : Nat \ {0}]

FormType == [scopes : SUBSET Scopes, isolated : BOOLEAN, limit : BOOLEAN,
             group : {"full_access", "read_only", "isolated", "custom"}, store : Stores,
             lud16 : BOOLEAN]
AppOK(a) ==
    /\ a.state \in AppStates /\ a.store \in Stores /\ a.scopes \subseteq Scopes
    /\ {a.isolated, a.lud16, a.limit, a.funds, a.unlocked, a.used} \subseteq BOOLEAN
AppTypeOK ==
    /\ AppOK(app) /\ address \in BOOLEAN
    /\ \A t \in Tabs :
        /\ appTab[t].page \in AppPages /\ AppOK(appTab[t].copy) /\ appTab[t].form \in FormType
        /\ appTab[t].dialog \in {"no", "confirm", "password", "disconnect"}
        /\ appTab[t].editing \in BOOLEAN /\ appTab[t].edits \in 0..2
        /\ appReq[t].kind \in {"none", "save", "convert", "address", "write", "remove", "erase", "delete"}
        /\ AppOK(appReq[t].base) /\ appReq[t].form \in FormType
    /\ zap.at \in {"closed", "form", "made", "running"} /\ {zap.spent, zap.max, zap.left} \subseteq Nat
    /\ zap.pending \subseteq PlanAmounts
    /\ account \in [plan : BOOLEAN, full : BOOLEAN, linked : BOOLEAN]
    /\ appVisit \in AppVisits

AppInit ==
    /\ appVisit \in AppVisits
    /\ app = NoApp /\ address = FALSE /\ zap = NoPlan
    /\ appTab = [t \in Tabs |-> NoAppTab]
    /\ appReq = [t \in Tabs |-> NoAppReq]
    /\ \E plan, full \in BOOLEAN :
        /\ appVisit # "subwallet" => plan /\ ~full
        /\ account = [plan |-> plan, full |-> full, linked |-> FALSE]

(***************************************************************************)
(* Making an app                                                           *)
(***************************************************************************)
(* Scopes: the scopes of a group, and the group that scopes make.          *)
GroupScopes(g) ==
    CASE g = "full_access" -> Capabilities
      [] g = "read_only" -> {"get_info"}
      [] g = "isolated" -> {"get_info", "pay_invoice"}
      [] g = "custom" -> {}

ScopeGroup(scopes, isolated) ==
    IF isolated /\ scopes = GroupScopes("isolated") THEN "isolated"
    ELSE IF scopes = GroupScopes("full_access") THEN "full_access"
    ELSE IF scopes = GroupScopes("read_only") THEN "read_only" ELSE "custom"

(* The form a link leads to: readonly apps of the store read only, and an  *)
(* isolated app does not sign.                                             *)
InitialScopes(l) ==
    IF l.readonly THEN {"get_info"}
    ELSE Capabilities \ (IF l.isolated THEN {"sign_message"} ELSE {})
InitialForm(l) ==
    [scopes |-> InitialScopes(l) \cup (IF l.superuser THEN {"superuser"} ELSE {}),
     isolated |-> l.isolated, limit |-> TRUE,
     group |-> ScopeGroup(InitialScopes(l), l.isolated), store |-> l.store, lud16 |-> FALSE]

OpenNewApp(t, l) ==
    /\ t = 1 /\ appTab[t].page = "start" /\ app.state = "none"
    /\ l \in AppVisitTable[appVisit].links
    /\ appTab' = [appTab EXCEPT ![t].page = "configure", ![t].form = InitialForm(l)]
    /\ UNCHANGED <<app, address, appReq, zap, account, appVisit>>

(* CreateApp of the api and of the apps service.                           *)
CreateAppRefuses(f) ==
    \/ f.scopes = {}
    \/ f.isolated /\ "sign_message" \in f.scopes

CreateApp(f, born, unlocked) ==
    /\ "superuser" \in f.scopes => unlocked
    /\ ~CreateAppRefuses(f)
    /\ app' = [NoApp EXCEPT !.state = "live", !.isolated = f.isolated, !.store = f.store,
                            !.scopes = f.scopes, !.limit = f.limit, !.born = born,
                            !.unlocked = unlocked]

(* handleCreateApp.  A superuser app is made with the unlock password,     *)
(* which is asked for in a dialog.                                         *)
SubmitNewApp(t) ==
    LET f == appTab[t].form IN
    /\ appTab[t].page = "configure" /\ appTab[t].dialog = "no" /\ f.scopes \ {"superuser"} # {}
    /\ IF "superuser" \in f.scopes
       THEN app' = app /\ appTab' = [appTab EXCEPT ![t].dialog = "password"]
       ELSE CreateApp(f, "new", FALSE) /\ appTab' = [appTab EXCEPT ![t].page = "finalize"]
    /\ UNCHANGED <<address, appReq, zap, account, appVisit>>

ConfirmSuperuser(t, right) ==
    /\ appTab[t].dialog = "password"
    /\ IF right THEN /\ CreateApp(appTab[t].form, "new", TRUE)
                     /\ appTab' = [appTab EXCEPT ![t].dialog = "no", ![t].page = "finalize"]
       ELSE app' = app /\ appTab' = [appTab EXCEPT ![t].dialog = "no"]
    /\ UNCHANGED <<address, appReq, zap, account, appVisit>>

(* FinalizeConnection and ConnectAppCard: the app is polled, and its page  *)
(* opened when it was used, or by the user after a while.                  *)
AppUsed ==
    /\ app.state = "live" /\ ~app.used /\ \E t \in Tabs : appTab[t].page \in {"finalize", "created"}
    /\ app' = [app EXCEPT !.used = TRUE]
    /\ UNCHANGED <<address, appTab, appReq, zap, account, appVisit>>

(* AppDetails is opened with the app as it is.                             *)
FormOf(a) == [scopes |-> a.scopes, isolated |-> a.isolated, limit |-> a.limit,
              group |-> ScopeGroup(a.scopes, a.isolated), store |-> a.store, lud16 |-> FALSE]
AppPage(t) == [NoAppTab EXCEPT !.page = "app", !.copy = app, !.form = FormOf(app),
                               !.edits = appTab[t].edits]

Finalized(t) ==
    /\ appTab[t].page = "finalize" /\ app.state = "live"
    /\ appTab' = [appTab EXCEPT ![t] = AppPage(t)]
    /\ UNCHANGED <<app, address, appReq, zap, account, appVisit>>

(* AppCardConnectionInfo: what the card of an app shows; where there is no *)
(* budget it leads to the form.                                            *)
CardShows(a) ==
    IF a.isolated THEN "balance"
    ELSE IF a.limit THEN "budget"
    ELSE IF "pay_invoice" \in a.scopes THEN "no budget" ELSE "read only"

OpenApp(t, editing) ==
    /\ app.state = "live" /\ appReq[t] = NoAppReq
    /\ AppVisitTable[appVisit].does[t] # {}
    /\ appTab[t].page \in {"start", "created", "list"}
    /\ editing => CardShows(app) \in {"no budget", "read only"} /\ Can(t, "edit")
    /\ appTab' = [appTab EXCEPT ![t] = [AppPage(t) EXCEPT !.editing = editing]]
    /\ UNCHANGED <<app, address, appReq, zap, account, appVisit>>

(* AppStoreDetail: a store app that is connected already leads to its page.*)
StoreAppConnected(t) ==
    /\ app.state = "live" /\ app.store = "listed" /\ appTab[t].page = "start" /\ Can(t, "edit")
    /\ appTab' = [appTab EXCEPT ![t] = AppPage(t)]
    /\ UNCHANGED <<app, address, appReq, zap, account, appVisit>>

(* SubwalletList and NewSubwallet: without a plan only some are free.      *)
SubwalletsOffer == IF account.plan \/ ~account.full THEN {"new"} ELSE {"upgrade"}
SubmitSubwallet(t) ==
    /\ app.state = "none" /\ appTab[t].page = "start" /\ "subwallet" \in AppVisitTable[appVisit].kinds
    /\ "new" \in SubwalletsOffer
    /\ CreateApp([NoForm EXCEPT !.scopes = GroupScopes("isolated"), !.isolated = TRUE,
                                !.store = "subwallet"], "subwallet", FALSE)
    /\ appTab' = [appTab EXCEPT ![t].page = "created", ![t].copy = app']
    /\ UNCHANGED <<address, appReq, zap, account, appVisit>>

(* Apps with a page of their own: shops that only receive, a game and the  *)
(* command line.                                                           *)
InternalApp(scopes, isolated, limit) ==
    [NoForm EXCEPT !.scopes = scopes, !.isolated = isolated, !.limit = limit, !.store = "internal"]
SubmitBuzzPay == CreateApp(InternalApp({"get_info"}, TRUE, FALSE), "buzzpay", FALSE)
SubmitSimpleBoost == CreateApp(InternalApp({"get_info"}, TRUE, FALSE), "boost", FALSE)
SubmitMessageboard == CreateApp(InternalApp({"get_info"}, TRUE, FALSE), "board", FALSE)
SubmitTictactoe == CreateApp(InternalApp({"get_info", "pay_invoice"}, FALSE, TRUE), "game", FALSE)
SubmitAlbyCliSkill == CreateApp(InternalApp(Capabilities, FALSE, TRUE), "cli", FALSE)

SubmitInternal(t) ==
    /\ t = 1 /\ app.state = "none" /\ appTab[t].page = "start"
    /\ \/ "shop" \in AppVisitTable[appVisit].kinds /\ (SubmitBuzzPay \/ SubmitSimpleBoost \/ SubmitMessageboard)
       \/ "game" \in AppVisitTable[appVisit].kinds /\ SubmitTictactoe
       \/ "cli" \in AppVisitTable[appVisit].kinds /\ SubmitAlbyCliSkill
    /\ appTab' = [appTab EXCEPT ![t].page = "list"]
    /\ UNCHANGED <<address, appReq, zap, account, appVisit>>

(***************************************************************************)
(* The page of an app                                                      *)
(***************************************************************************)
OnlyTab(t, tab) ==
    /\ appTab' = [appTab EXCEPT ![t] = tab]
    /\ UNCHANGED <<app, address, appReq, zap, account, appVisit>>

(* useApp fetches the app again.                                           *)
RefreshApp(t) ==
    /\ appTab[t].page \in {"app", "created"} /\ app.state = "live" /\ appTab[t].copy # app
    /\ OnlyTab(t, [appTab[t] EXCEPT !.copy = app])

(* What AppDetails offers.                                                 *)
DetailsOffers(t) ==
    LET copy == appTab[t].copy IN
    IF appTab[t].page # "app" THEN {}
    ELSE IF appTab[t].editing THEN {"cancel", "save"}
    ELSE {"edit", "disconnect"}
         \cup (IF copy.isolated /\ copy.store = "none" /\ account.plan THEN {"convert"} ELSE {})

StartEditing(t) ==
    /\ "edit" \in DetailsOffers(t) /\ Can(t, "edit") /\ appReq[t] = NoAppReq
    /\ appTab[t].edits < AppVisitTable[appVisit].edits[t]
    /\ OnlyTab(t, [appTab[t] EXCEPT !.editing = TRUE])

(* Cancelling leaves the form as it was edited.                            *)
CancelEditing(t) ==
    /\ "cancel" \in DetailsOffers(t) /\ appTab[t].dialog = "no" /\ appReq[t] = NoAppReq
    /\ OnlyTab(t, [appTab[t] EXCEPT !.editing = FALSE])

(* Permissions and Scopes: a group is chosen, or a scope, the isolation or *)
(* the budget is switched.                                                 *)
EditForm(t, form) ==
    /\ appTab[t].editing \/ (appTab[t].page = "configure" /\ Can(t, "edit"))
    /\ appTab[t].edits < AppVisitTable[appVisit].edits[t] /\ appTab[t].dialog = "no" /\ appReq[t] = NoAppReq
    /\ OnlyTab(t, [appTab[t] EXCEPT !.form = form, !.edits = @ + 1])

ChooseGroup(t, g) ==
    EditForm(t, [appTab[t].form EXCEPT !.scopes = GroupScopes(g), !.isolated = (g = "isolated"),
                                       !.group = g])

SwitchScope(t, s) ==
    LET f == appTab[t].form IN
    /\ f.group = "custom"
    /\ EditForm(t, [f EXCEPT !.scopes = IF s \in @ THEN @ \ {s} ELSE @ \cup {s}])

SwitchIsolated(t) ==
    /\ appTab[t].form.group = "custom"
    /\ EditForm(t, [appTab[t].form EXCEPT !.isolated = ~@])

SwitchLimit(t) ==
    /\ "pay_invoice" \in appTab[t].form.scopes
    /\ EditForm(t, [appTab[t].form EXCEPT !.limit = ~@])

(* Variant: leaving isolation is not asked about.                          *)
NeedsConfirmationToPay(t) ==
    "pay_invoice" \in appTab[t].form.scopes \ appTab[t].copy.scopes

(* What the user has to confirm before the form is saved.                  *)
NeedsConfirmation(t) ==
    \/ appTab[t].copy.isolated /\ ~appTab[t].form.isolated
    \/ "pay_invoice" \in appTab[t].form.scopes \ appTab[t].copy.scopes

AskConfirmation(t) ==
    /\ appTab[t].editing /\ appTab[t].dialog = "no" /\ appReq[t] = NoAppReq /\ NeedsConfirmation(t)
    /\ OnlyTab(t, [appTab[t] EXCEPT !.dialog = "confirm"])

(* A request is sent; its handler reads the app first.                     *)
Sends(t, kind, form) ==
    /\ appReq[t] = NoAppReq /\ app.state = "live"
    /\ appReq' = [appReq EXCEPT ![t] = [kind |-> kind, base |-> app, form |-> form,
                                        confirmed |-> appTab[t].dialog = "confirm",
                                        stale |-> appTab[t].copy # app]]

(* handleSave sends the whole form.                                        *)
HandleSave(t) ==
    /\ "save" \in DetailsOffers(t)
    /\ NeedsConfirmation(t) <=> appTab[t].dialog = "confirm"
    /\ Sends(t, "save", appTab[t].form)
    /\ appTab' = [appTab EXCEPT ![t].dialog = "no"]
    /\ UNCHANGED <<app, address, zap, account, appVisit>>

(* handleConvertToSubwallet sends the metadata it knows with another app.  *)
ConvertToSubwallet(t) ==
    /\ "convert" \in DetailsOffers(t) /\ Can(t, "convert")
    /\ Sends(t, "convert", [NoForm EXCEPT !.store = "subwallet", !.lud16 = appTab[t].copy.lud16])
    /\ UNCHANGED <<app, address, appTab, zap, account, appVisit>>

(* Variant: a sub-wallet may leave isolation.                              *)
UpdateAppRefusesScopes(base, f) ==
    f.scopes = {} \/ ("superuser" \in f.scopes /\ "superuser" \notin app.scopes)

(* UpdateApp in its transaction: a sub-wallet stays isolated, and nobody   *)
(* becomes superuser.  base is the app the handler has read.               *)
UpdateAppRefuses(base, f) ==
    \/ base.isolated /\ ~f.isolated /\ base.store = "subwallet"
    \/ f.scopes = {}
    \/ "superuser" \in f.scopes /\ "superuser" \notin app.scopes

UpdateApp(base, f) ==
    IF app.state # "live" \/ UpdateAppRefuses(base, f) THEN app
    ELSE [app EXCEPT !.isolated = IF f.isolated # base.isolated THEN f.isolated ELSE @,
                     !.scopes = f.scopes, !.limit = f.limit]

Answered(t) == appReq' = [appReq EXCEPT ![t] = NoAppReq]

SaveCommits(t) ==
    LET r == appReq[t] IN
    /\ r.kind = "save"
    /\ app' = UpdateApp(r.base, r.form)
    /\ appTab' = [appTab EXCEPT ![t].editing = UpdateAppRefuses(r.base, r.form)]
    /\ Answered(t)
    /\ UNCHANGED <<address, zap, account, appVisit>>

ConvertCommits(t) ==
    /\ appReq[t].kind = "convert"
    /\ app' = IF app.state = "live"
              THEN [app EXCEPT !.store = appReq[t].form.store, !.lud16 = appReq[t].form.lud16]
              ELSE app
    /\ Answered(t)
    /\ UNCHANGED <<address, appTab, zap, account, appVisit>>

(***************************************************************************)
(* Lightning addresses, transfers and the end of an app                    *)
(***************************************************************************)
(* AppUsage and SubwalletCreated: what is offered of a sub-wallet.         *)
UsageOffers(t) ==
    LET copy == appTab[t].copy IN
    (IF copy.isolated THEN {"topup"} \cup (IF copy.funds THEN {"drawdown"} ELSE {}) ELSE {})
    \cup (IF copy.store = "subwallet"
          THEN IF copy.lud16 THEN {"remove address"} ELSE (IF account.plan THEN {"add address"} ELSE {})
          ELSE {})

AskAddress(t) ==
    /\ appTab[t].page \in {"app", "created"} /\ Can(t, "address") /\ "add address" \in UsageOffers(t)
    /\ Sends(t, "address", NoForm)
    /\ UNCHANGED <<app, address, appTab, zap, account, appVisit>>

(* CreateLightningAddress: Alby is asked, then the metadata that was read  *)
(* is written with the address.                                            *)
AddressMade(t) ==
    /\ appReq[t].kind = "address"
    /\ \/ address' = TRUE /\ appReq' = [appReq EXCEPT ![t].kind = "write"]
       \/ address' = address /\ Answered(t)
    /\ UNCHANGED <<app, appTab, zap, account, appVisit>>

(* SetAppMetadata *)
AddressWritten(t) ==
    /\ appReq[t].kind \in {"write", "erase"}
    /\ app' = IF app.state = "live"
              THEN [app EXCEPT !.store = appReq[t].base.store, !.lud16 = (appReq[t].kind = "write")]
              ELSE app
    /\ Answered(t)
    /\ UNCHANGED <<address, appTab, zap, account, appVisit>>

AskNoAddress(t) ==
    /\ appTab[t].page = "app" /\ Can(t, "address") /\ "remove address" \in UsageOffers(t)
    /\ Sends(t, "remove", NoForm)
    /\ UNCHANGED <<app, address, appTab, zap, account, appVisit>>

(* DeleteLightningAddress *)
AddressRemoved(t) ==
    /\ appReq[t].kind = "remove"
    /\ \/ appReq[t].base.lud16 /\ address' = FALSE /\ appReq' = [appReq EXCEPT ![t].kind = "erase"]
       \/ address' = address /\ Answered(t)
    /\ UNCHANGED <<app, appTab, zap, account, appVisit>>

(* IsolatedAppTopupDialog and IsolatedAppDrawDownDialog: the app is        *)
(* fetched when the transfer is made.                                      *)
Transfer(t, what) ==
    /\ appTab[t].page = "app" /\ Can(t, "fund") /\ what \in UsageOffers(t)
    /\ app.state = "live"
    /\ what = "drawdown" => app.funds
    /\ app' = [app EXCEPT !.funds = (what = "topup")]
    /\ appTab' = [appTab EXCEPT ![t].copy = app']
    /\ UNCHANGED <<address, appReq, zap, account, appVisit>>

OpenDisconnect(t) ==
    /\ "disconnect" \in DetailsOffers(t) /\ Can(t, "delete") /\ appTab[t].dialog = "no"
    /\ OnlyTab(t, [appTab[t] EXCEPT !.dialog = "disconnect"])

(* AppsCleanup goes through unused apps that are no sub-wallets.           *)
OpenCleanup(t) ==
    /\ appTab[t].page = "list" /\ Can(t, "delete") /\ app.state = "live"
    /\ ~app.used /\ app.store # "subwallet"
    /\ OnlyTab(t, [appTab[t] EXCEPT !.page = "cleanup", !.copy = app])

SkipApp(t) == appTab[t].page = "cleanup" /\ OnlyTab(t, [NoAppTab EXCEPT !.page = "list"])

(* useDeleteApp, and DisconnectApp's dialog.                               *)
AskDelete(t) ==
    /\ appTab[t].dialog = "disconnect" \/ appTab[t].page = "cleanup"
    /\ Sends(t, "delete", NoForm)
    /\ UNCHANGED <<app, address, appTab, zap, account, appVisit>>

(* DeleteApp: an error of Alby does not keep the app.                      *)
DeleteApp(t) ==
    /\ appReq[t].kind = "delete"
    /\ app' = [app EXCEPT !.state = "deleted"]
    /\ \/ appReq[t].base.lud16 /\ app.lud16 /\ address' = FALSE
       \/ address' = address
    /\ appTab' = [appTab EXCEPT ![t] = [NoAppTab EXCEPT !.page = "list"]]
    /\ Answered(t)
    /\ UNCHANGED <<zap, account, appVisit>>

(* AlbyConnectionCard and useLinkAccount: an account without a node is     *)
(* linked.                                                                 *)
LinkAccount(t) ==
    /\ appTab[t].page = "list" /\ Can(t, "link") /\ ~account.linked
    /\ account' = [account EXCEPT !.linked = TRUE]
    /\ UNCHANGED <<app, address, appTab, appReq, zap, appVisit>>

(***************************************************************************)
(* Plans                                                                   *)
(***************************************************************************)
(* How many payments of a plan fall into one month at most.                *)
CeilDiv(a, b) == (a + b - 1) \div b
PeriodsPerMonth(r) ==
    CASE r.unit = "days" -> CeilDiv(31, r.every)
      [] r.unit = "weeks" -> CeilDiv(31, 7 * r.every)
      [] r.unit = "months" -> 1

(* Variant: no room is left below the warning.                             *)
MonthlyBudgetTight(sats, periods) == CeilDiv(101 * sats * periods + 1000, 100)

(* The budget: the payments, 1% and 10 sats, and 30% on top.               *)
MonthlyBudget(sats, periods) == CeilDiv(13 * (101 * sats * periods + 1000), 1000)

(* The budget of SupportAlby is rounded down.                              *)
SupportBudget(sats) == (13 * (101 * sats + 1000)) \div 1000

OnlyPlan(z) == zap' = z /\ UNCHANGED <<app, address, appTab, appReq, account, appVisit>>

(* The amount is typed, in a currency: it is converted to sats, and the    *)
(* answers may come in any order.                                          *)
TypeAmount(a) ==
    /\ "plan" \in AppVisitTable[appVisit].kinds
    /\ zap.at \in {"closed", "form"} /\ zap.typed # a /\ a \notin zap.pending
    /\ OnlyPlan([zap EXCEPT !.at = "form", !.typed = a, !.pending = @ \cup {a}])

AmountConverted(a) ==
    /\ a \in zap.pending /\ zap.at = "form"
    /\ OnlyPlan([zap EXCEPT !.sats = a, !.pending = @ \ {a}])

(* handleSubmit of ZapPlanner: only one payment a month is supported; the  *)
(* app is made with the budget.                                            *)
MakePlan(max, periods, sats) ==
    /\ app.state = "none"
    /\ CreateApp([NoForm EXCEPT !.scopes = {"pay_invoice"}, !.limit = TRUE, !.store = "internal"], "plan", FALSE)
    /\ zap' = [zap EXCEPT !.at = "made", !.max = max, !.left = periods, !.each = sats, !.pending = {},
                          !.overtaken = (zap.at = "form" /\ zap.sats # zap.typed)]
    /\ UNCHANGED <<address, appTab, appReq, account, appVisit>>

SubmitPlan(r) ==
    /\ zap.at = "form" /\ zap.sats > 0
    /\ r.unit = "months" => r.every = 1
    /\ LET n == PeriodsPerMonth(r) IN MakePlan(MonthlyBudget(zap.sats, n), n, zap.typed)

(* handleSubmit of SupportAlby.                                            *)
SubmitSupport(sats) ==
    /\ "plan" \in AppVisitTable[appVisit].kinds /\ zap.at = "closed" /\ sats >= 1000
    /\ MakePlan(SupportBudget(sats), 1, sats)

(* The service makes the subscription, or fails and the app remains.       *)
Subscribe ==
    /\ zap.at = "made"
    /\ \E at \in {"running", "closed"} : OnlyPlan([zap EXCEPT !.at = at, !.left = IF at = "closed" THEN 0 ELSE @])

(* A payment of the plan: it needs its amount and the fee reserve within   *)
(* the budget, costs at most 1% in fees, and raises the warning at 80%.    *)
FeeReserve(sats) == Max({CeilDiv(sats, 100), 10})
PlanPays(fee) ==
    LET fits == zap.spent + zap.each + FeeReserve(zap.each) <= zap.max
        spent == IF fits THEN zap.spent + zap.each + fee ELSE zap.spent
    IN /\ zap.at = "running" /\ zap.left > 0
       /\ OnlyPlan([zap EXCEPT !.left = @ - 1, !.spent = spent,
                               !.trouble = @ \/ ~fits \/ spent >= (8 * zap.max) \div 10])

-----------------------------------------------------------------------------
AppTabNext(t) ==
    \/ \E l \in Links : OpenNewApp(t, l)
    \/ SubmitNewApp(t) \/ (\E right \in BOOLEAN : ConfirmSuperuser(t, right))
    \/ Finalized(t) \/ (\E e \in BOOLEAN : OpenApp(t, e)) \/ StoreAppConnected(t) \/ SubmitSubwallet(t) \/ SubmitInternal(t)
    \/ RefreshApp(t) \/ StartEditing(t) \/ CancelEditing(t)
    \/ \E g \in {"full_access", "read_only", "isolated", "custom"} : ChooseGroup(t, g)
    \/ \E s \in Capabilities : SwitchScope(t, s)
    \/ SwitchIsolated(t) \/ SwitchLimit(t)
    \/ AskConfirmation(t) \/ HandleSave(t) \/ SaveCommits(t)
    \/ ConvertToSubwallet(t) \/ ConvertCommits(t)
    \/ AskAddress(t) \/ AddressMade(t) \/ AddressWritten(t) \/ AskNoAddress(t) \/ AddressRemoved(t)
    \/ \E what \in {"topup", "drawdown"} : Transfer(t, what)
    \/ OpenDisconnect(t) \/ OpenCleanup(t) \/ SkipApp(t) \/ AskDelete(t) \/ DeleteApp(t)
    \/ LinkAccount(t)

ConnectionsNext ==
    \/ AppUsed
    \/ \E t \in Tabs : AppTabNext(t)
    \/ \E a \in PlanAmounts : TypeAmount(a) \/ AmountConverted(a) \/ SubmitSupport(a)
    \/ \E r \in PlanRates : SubmitPlan(r)
    \/ Subscribe
    \/ \E fee \in {0, zap.each \div 100} : PlanPays(fee)

ConnectionsSpec == AppInit /\ [][ConnectionsNext]_appVars

(***************************************************************************)
(* Properties                                                              *)
(***************************************************************************)
(* An app that was made as a sub-wallet is isolated and a sub-wallet for   *)
(* as long as it lives, whatever stale tabs send: its balance never        *)
(* becomes the hub's (UpdateApp, CreateLightningAddress and                *)
(* handleConvertToSubwallet all write parts of the app they read before).  *)
SubwalletStaysIsolated ==
    app.state = "live" /\ app.born = "subwallet" => app.isolated /\ app.store = "subwallet"

(* An app comes to pay, or leaves isolation, only by a save the user was   *)
(* asked to confirm, unless the page that sent it did not know the app as  *)
(* it was; and superuser is only who was made with the unlock password     *)
(* (needsConfirmation of AppDetails, CreateApp and UpdateApp).             *)
GrantsAreConfirmed ==
    [][/\ app.state = "live" /\ app'.state = "live"
          /\ ("pay_invoice" \in app'.scopes \ app.scopes \/ (app.isolated /\ ~app'.isolated))
          => \E t \in Tabs : /\ appReq[t].kind = "save" /\ appReq'[t].kind = "none"
                             /\ \/ appReq[t].confirmed \/ appReq[t].stale \/ appReq[t].base # app
       /\ "superuser" \in app'.scopes => app'.unlocked]_appVars

(* The budget made for a plan lets every payment of a month through and    *)
(* keeps below the budget warning, as the comments of ZapPlanner and       *)
(* SupportAlby want it, when fees are at most 1%; unless an older answer   *)
(* of the currency service overtook the amount the plan was made with.     *)
PlannedPaymentsFit == zap.at = "running" /\ zap.trouble => zap.overtaken
=============================================================================
