----------------------------- MODULE HubScreens -----------------------------
(***************************************************************************)
(* A browser tab on the hub: the redirects, the setup wizard, the start    *)
(* and unlock screens and the settings (frontend/src), against the service *)
(* of HubService.  A second client uses the API with a token created in    *)
(* the developer settings.                                                 *)
(*                                                                         *)
(* A screen works with the last answer to /api/info it has, which useInfo  *)
(* refreshes at any time.  What a user types wrong and requests that are   *)
(* refused leave everything as it is (an error is shown) and are left out. *)
(***************************************************************************)
EXTENDS HubService

CONSTANTS
    Advanced,       \* enableAdvancedSetup: the advanced setup is offered
    Errands         \* what users come to the hub for, one errand a session

VARIABLES
    page,           \* the route that is shown
    wait,           \* what the screen shown is waiting for
    info,           \* useInfo: the last answer to /api/info
    token,          \* localStorage.authToken, 0 if there is none
    returnTo,       \* localStorage.returnTo
    setupReturnTo,  \* localStorage.setupReturnTo
    store,          \* useSetupStore
    asked,          \* the request of several steps this tab waits for
    apiToken,       \* the token of the second client
    errand          \* what the user has come for

storage == <<token, returnTo, setupReturnTo>>
kept == <<apiToken, errand>>
tabVars == <<page, wait, info, storage, store, asked, kept>>
vars == <<hubVars, tabVars>>

Tab == "tab"
Other == "other"

(* What an errand needs: the pages it opens, the nodes the user may choose *)
(* in a setup and whether the user changes their mind in it, the failed    *)
(* starts there may be, whether the process dies on the way, whether the   *)
(* second client is there, and whether the session with Alby expires.      *)
Plain == [pages |-> {}, nodes |-> {}, back |-> FALSE, starts |-> MaxFailures, dies |-> FALSE,
          shared |-> FALSE, expires |-> FALSE]
ErrandTable ==
    [setup |-> [Plain EXCEPT !.nodes = {"LDK"}, !.back = TRUE, !.dies = TRUE],
     othernode |-> [Plain EXCEPT !.nodes = Backends \ {"LDK"}, !.starts = 1],
     restore |-> [Plain EXCEPT !.pages = {"node-restore"}, !.nodes = {"LDK"}, !.starts = 1,
                               !.dies = TRUE],
     cloud |-> [Plain EXCEPT !.nodes = {"LDK"}, !.back = TRUE, !.expires = TRUE],
     password |-> [Plain EXCEPT !.pages = {"settings/change-unlock-password"}, !.starts = 1,
                                !.shared = TRUE],
     migrate |-> [Plain EXCEPT !.pages = {"settings/node-migrate"}, !.starts = 1, !.shared = TRUE,
                               !.dies = TRUE],
     developer |-> [Plain EXCEPT !.pages = {"settings/developer"}, !.starts = 1],
     auto |-> [Plain EXCEPT !.pages = {"settings/auto-unlock"}, !.dies = TRUE],
     account |-> [Plain EXCEPT !.pages = {"settings/alby-account", "alby/account"}, !.starts = 1,
                               !.dies = TRUE, !.expires = TRUE],
     preferences |-> [Plain EXCEPT !.pages = {"settings", "settings/node", "wallet/node-alias"}, !.starts = 1],
     repair |-> [Plain EXCEPT !.pages = {"settings/backup", "settings/debug-tools"}, !.starts = 1]]

(* The environment of the process, and who has an Alby account already.    *)
Environment(e) ==
    IF e = "cloud" THEN [preset |-> "LDK", hosted |-> TRUE] ELSE [preset |-> None, hosted |-> FALSE]
HasAccount(e) == e = "repair"

ASSUME ClientsAssumption ==
    Callers = {Tab, Other} /\ Advanced \in BOOLEAN /\ Errands \subseteq DOMAIN ErrandTable

(* routes.tsx *)
NodePages == {"node/ldk", "node/bark", "node/preset", "node/lnd", "node/cln", "node/phoenix",
              "node/cashu"}
PasswordPages == {"password", "password?node=ldk", "password?node=preset", "password?wallet=import"}
SetupPages == PasswordPages \cup NodePages \cup
              {"setup/alby", "setup/auth", "advanced", "import-mnemonic", "node", "security",
               "node-restore", "finish"}
SettingsPages == {"settings", "settings/auto-unlock", "settings/node", "settings/change-unlock-password",
                  "settings/backup", "settings/node-migrate", "settings/alby-account",
                  "settings/developer", "settings/debug-tools"}
InnerPages == SettingsPages \cup {"home", "wallet/node-alias"}
OuterPages == {"/", "intro", "welcome", "start", "unlock", "alby/account", "alby/auth",
               "create-node-migration-file-success"}
Pages == SetupPages \cup InnerPages \cup OuterPages

NodePage == [LDK |-> "node/ldk", BARK |-> "node/bark", LND |-> "node/lnd", CLN |-> "node/cln",
             PHOENIX |-> "node/phoenix", CASHU |-> "node/cashu"]

TabTypeOK ==
    /\ page \in Pages
    /\ wait \in {"no", "start", "starting", "failed", "restored", "mnemonic"}
    /\ info \in [halted : BOOLEAN, completed : BOOLEAN, running : BOOLEAN, unlocked : BOOLEAN,
                 auto : BOOLEAN, account : BOOLEAN, connected : BOOLEAN,
                 backend : Maybe(Backends), failures : 0..MaxFailures]
    /\ {token, apiToken} \subseteq 0..drawn
    /\ returnTo \in Maybe(InnerPages)
    /\ setupReturnTo \in Maybe(PasswordPages \cup {"advanced"})
    /\ store \in [password : Maybe(Passwords), backend : Maybe(Backends), mnemonic : BOOLEAN,
                  imported : BOOLEAN]
    /\ asked \in {None, "stop", "reload", "migrate"}

TypeOK == HubTypeOK /\ TabTypeOK

TabInit ==
    /\ token = loaded /\ page = "/" /\ wait = "no" /\ info = Info(token)
    /\ returnTo = None /\ setupReturnTo = None
    /\ store = [password |-> None, backend |-> None, mnemonic |-> FALSE, imported |-> FALSE]
    /\ asked = None

(***************************************************************************)
(* Redirects: where a page that is shown sends the user, given the answer  *)
(* i to /api/info and what localStorage remembers.                         *)
(***************************************************************************)
AlbyReady(i) == i.connected \/ ~i.account

(* DefaultRedirect *)
DefaultRedirect(p, i) == IF i.running /\ i.unlocked /\ AlbyReady(i) THEN p ELSE "/"

(* HomeRedirect *)
HomeRedirect(i, r, s) ==
    CASE i.halted -> "create-node-migration-file-success"
      [] ~i.halted /\ s # None -> s
      [] ~i.halted /\ s = None /\ i.completed /\ ~i.running -> "start"
      [] ~i.halted /\ s = None /\ i.completed /\ i.running ->
            IF ~i.unlocked THEN "unlock"
            ELSE IF ~AlbyReady(i) THEN "alby/auth"
            ELSE IF r # None THEN r ELSE "home"
      [] ~i.halted /\ s = None /\ ~i.completed -> IF i.connected THEN "welcome" ELSE "intro"

(* SetupRedirect *)
SetupRedirect(p, i) == IF i.completed /\ i.running THEN "/" ELSE p

(* Variant: who has to log in with Alby is sent home.                      *)
StartRedirectHome(i) ==
    IF ~i.halted /\ i.completed /\ ~i.running /\ AlbyReady(i) THEN "start" ELSE "/"

(* StartRedirect *)
StartRedirect(i) ==
    CASE i.halted -> "create-node-migration-file-success"
      [] ~i.halted /\ i.completed /\ ~i.running -> IF AlbyReady(i) THEN "start" ELSE "alby/auth"
      [] ~i.halted /\ ~(i.completed /\ ~i.running) -> "/"

(* Effects of Unlock, Welcome and Intro.                                   *)
UnlockRedirect(i) == IF i.running THEN "unlock" ELSE "/"
WelcomeRedirect(p, i) == IF i.completed THEN "/" ELSE p

(* routes.tsx: which redirect guards which page.                           *)
Target(p, i, r, s) ==
    CASE p = "/" -> HomeRedirect(i, r, s)
      [] p \in InnerPages -> DefaultRedirect(p, i)
      [] p \in SetupPages -> SetupRedirect(p, i)
      [] p = "start" -> StartRedirect(i)
      [] p = "unlock" -> UnlockRedirect(i)
      [] p \in {"welcome", "intro"} -> WelcomeRedirect(p, i)
      [] OTHER -> p

(* One redirect: DefaultRedirect remembers where the user wanted to go,    *)
(* HomeRedirect forgets what it has used.                                  *)
Followed(l) ==
    LET to == Target(l.page, info, l.returnTo, l.setupReturnTo)
    IN  [page |-> to,
         returnTo |-> CASE l.page \in InnerPages /\ to = "/" -> l.page
                        [] l.page = "/" /\ to = l.returnTo -> None
                        [] OTHER -> l.returnTo,
         setupReturnTo |-> IF l.page = "/" /\ ~info.halted THEN None ELSE l.setupReturnTo]

Location == [page |-> page, returnTo |-> returnTo, setupReturnTo |-> setupReturnTo]

Redirect ==
    /\ Followed(Location).page # page
    /\ page' = Followed(Location).page
    /\ returnTo' = Followed(Location).returnTo
    /\ setupReturnTo' = Followed(Location).setupReturnTo
    /\ wait' = "no"
    /\ UNCHANGED <<hubVars, info, token, store, asked, kept>>

(* A page is there for the user once no redirect leaves it.                *)
Here(p) == page = p /\ Followed(Location).page = p
Show(p) == page' = p /\ wait' = "no"

(***************************************************************************)
(* useInfo: SWR asks again on focus, on every mount and, on the screens    *)
(* that wait for the node, every three seconds.  The waiting screens act   *)
(* on what has changed.                                                    *)
(***************************************************************************)
(* Variant: only a first error is noticed.                                 *)
NoticedFirst(i) ==
    CASE page = "start" /\ info.failures = 0 /\ i.failures # 0 -> "no"
      [] page = "finish" /\ info.failures = 0 /\ i.failures # 0 -> "failed"
      [] OTHER -> wait

(* A screen that waits for a start acts on an error it has not seen yet.   *)
Noticed(i) ==
    LET failed == i.failures \notin {0, info.failures}
    IN  CASE page = "start" /\ failed -> "no"
          [] page = "finish" /\ failed -> "failed"
          [] OTHER -> wait

UseInfo ==
    /\ Serving
    /\ info' = Info(token)
    /\ info' # info
    /\ wait' = Noticed(info')
    /\ UNCHANGED <<hubVars, page, storage, store, asked, kept>>

(***************************************************************************)
(* Setup.                                                                  *)
(***************************************************************************)
Intro ==
    /\ Here("intro")
    /\ Show("welcome")
    /\ UNCHANGED <<hubVars, info, storage, store, asked, kept>>

(* Welcome: where to go on is remembered while the user connects an Alby   *)
(* account.                                                                *)
Welcome ==
    /\ Here("welcome")
    /\ \E to \in {IF info.backend # None THEN "password?node=preset" ELSE "password?node=ldk"}
                   \cup (IF Advanced THEN {"advanced"} ELSE {}) :
          IF info.connected
          THEN Show(to) /\ UNCHANGED setupReturnTo
          ELSE Show(IF env.hosted THEN "alby/auth" ELSE "setup/alby") /\ setupReturnTo' = to
    /\ UNCHANGED <<hubVars, info, token, returnTo, store, asked, kept>>

(* ConnectAlbyAccount: connect or "maybe later".                           *)
ConnectAlbyAccount ==
    /\ \/ Here("setup/alby") /\ \E p \in {"setup/auth", "/"} : Show(p)
       \/ Here("alby/account") /\ \E p \in {"alby/auth", "/"} : Show(p)
    /\ UNCHANGED <<hubVars, info, storage, store, asked, kept>>

(* AlbyAuthRedirect and AuthCodeForm: the account the user logs in with is *)
(* the one of this hub, or not.                                            *)
AuthCodeForm ==
    /\ Here("setup/auth") \/ Here("alby/auth")
    /\ Serving
    /\ UNCHANGED <<storage, store, asked, kept>>
    /\ \E same \in BOOLEAN :
          /\ CallbackHandler(same)
          /\ info' = Info(token)'
          /\ IF row.account /\ ~same THEN UNCHANGED <<page, wait>> ELSE Show("/")

SetupAdvanced ==
    /\ Here("advanced")
    /\ store' = [store EXCEPT !.imported = FALSE]
    /\ \E p \in (ErrandTable[errand].pages \cap {"node-restore"})
                   \cup {"password?wallet=import", "password"} : Show(p)
    /\ UNCHANGED <<hubVars, info, storage, asked, kept>>

SetupPassword ==
    /\ \E p \in PasswordPages : Here(p)
    /\ \E pw \in Passwords :
          store' = [store EXCEPT !.password = pw,
                                 !.backend = IF page = "password?wallet=import" THEN "LDK" ELSE @]
    /\ Show(CASE page = "password?wallet=import" -> "import-mnemonic"
              [] page = "password?node=ldk" -> "node/ldk"
              [] page = "password?node=preset" -> "node/preset"
              [] page = "password" -> "node")
    /\ UNCHANGED <<hubVars, info, storage, asked, kept>>

ImportMnemonic ==
    /\ Here("import-mnemonic")
    /\ store' = [store EXCEPT !.mnemonic = TRUE, !.imported = TRUE]
    /\ Show("node")
    /\ UNCHANGED <<hubVars, info, storage, asked, kept>>

(* SetupNode: with an imported phrase only nodes that have one.            *)
SetupNode ==
    /\ Here("node")
    /\ \E b \in ErrandTable[errand].nodes \cap
                 (IF store.mnemonic /\ store.imported THEN HasMnemonic ELSE Backends) :
          Show(NodePage[b])
    /\ UNCHANGED <<hubVars, info, storage, store, asked, kept>>

NodeForm(p, b, mnemonic) ==
    /\ Here(p)
    /\ store' = [store EXCEPT !.backend = b, !.mnemonic = @ \/ mnemonic]
    /\ Show("security")
    /\ UNCHANGED <<hubVars, info, storage, asked, kept>>

LDKForm == NodeForm("node/ldk", "LDK", TRUE)
BarkForm == NodeForm("node/bark", "BARK", TRUE)
LNDForm == NodeForm("node/lnd", "LND", FALSE)
CLNForm == NodeForm("node/cln", "CLN", FALSE)
PhoenixdForm == NodeForm("node/phoenix", "PHOENIX", FALSE)
CashuForm == NodeForm("node/cashu", "CASHU", FALSE)
PresetNodeForm == NodeForm("node/preset", store.backend, info.backend \in HasMnemonic)

SetupSecurity ==
    /\ Here("security")
    /\ Show("finish")
    /\ UNCHANGED <<hubVars, info, storage, store, asked, kept>>

(* finishSetup, its first request.                                         *)
FinishSetup ==
    /\ Here("finish") /\ wait = "no" /\ Serving
    /\ IF store.password # None /\ SetupAccepted(store.backend)
       THEN /\ Setup(store.password, store.backend, store.mnemonic)
            /\ wait' = "start"
       ELSE UNCHANGED hubVars /\ wait' = "failed"
    /\ UNCHANGED <<page, info, storage, store, asked, kept>>

(* finishSetup, its second request.  It is made wherever the user has gone.*)
FinishStarts ==
    /\ page = "finish" /\ wait = "start" /\ Serving
    /\ \/ /\ StartHandler(store.password)
          /\ token' = loaded'
          /\ wait' = "starting"
       \/ /\ ~StartAccepted(store.password)
          /\ UNCHANGED <<hubVars, token>>
          /\ wait' = "failed"
    /\ UNCHANGED <<page, info, returnTo, setupReturnTo, store, asked, kept>>

(* SetupFinish gives up after thirty seconds; SetupRedirect still takes    *)
(* the user to the hub when the node is there in the end.                  *)
SetupTimesOut ==
    /\ page = "finish" /\ wait = "starting"
    /\ wait' = "failed"
    /\ UNCHANGED <<hubVars, page, info, storage, store, asked, kept>>

(* The back button of SetupFinish, and of TwoColumnFullScreenLayout: the   *)
(* user changes what was entered and tries again.                          *)
SetupBack ==
    /\ ErrandTable[errand].back
    /\ \/ Here("finish") /\ wait = "failed" /\ Show("security")
       \/ Here("security") /\ Show(IF Advanced THEN "advanced" ELSE "password?node=ldk")
       \/ \E p \in PasswordPages \cup {"advanced"} : Here(p) /\ Show("welcome")
    /\ UNCHANGED <<hubVars, info, storage, store, asked, kept>>

(* RestoreNode waits for the restart that applies the migration file.      *)
RestoreNode ==
    /\ Here("node-restore") /\ Serving
    /\ \/ /\ wait = "no"
          /\ \E p \in Passwords : RestoreBackup(p)
          /\ wait' = "restored"
          /\ UNCHANGED page
       \/ /\ wait = "restored" /\ info.completed
          /\ UNCHANGED hubVars
          /\ Show("/")
    /\ UNCHANGED <<info, storage, store, asked, kept>>

(***************************************************************************)
(* Start and unlock.                                                       *)
(***************************************************************************)
Start ==
    /\ Here("start") /\ wait = "no" /\ Serving
    /\ \E p \in Passwords : StartHandler(p)
    /\ token' = loaded'
    /\ wait' = "starting"
    /\ UNCHANGED <<page, info, returnTo, setupReturnTo, store, asked, kept>>

Unlock ==
    /\ Here("unlock") /\ Serving
    /\ \E p \in Passwords : UnlockHandler(p)
    /\ token' = loaded
    /\ info' = Info(token')
    /\ Show("/")
    /\ UNCHANGED <<returnTo, setupReturnTo, store, asked, kept>>

(***************************************************************************)
(* Settings.                                                               *)
(***************************************************************************)

(* backendTypeConfigs *)
HasNodeBackup == {"LDK"}

(* Home, and the menu of SettingsLayout: what is offered depends on the    *)
(* node and the account.                                                   *)
Menu ==
    /\ page \in InnerPages /\ Here(page)
    /\ \E p \in {"home"} \cup ErrandTable[errand].pages :
          /\ p # page
          /\ p = "settings/auto-unlock" => ~env.hosted
          /\ p = "settings/backup" => info.backend \in HasMnemonic
          /\ p = "settings/node-migrate" => info.backend \in HasNodeBackup
          /\ p = "settings/node" => info.backend = "LDK"
          /\ p = "settings/alby-account" => info.connected
          /\ p = "alby/account" => ~info.connected
          /\ Show(p)
    /\ UNCHANGED <<hubVars, info, storage, store, asked, kept>>

(* A request that takes several steps and that needs a session.            *)
Ask(what) ==
    /\ asked = None
    /\ Serving
    /\ asked' = what

(* SettingsLayout: turn the node off.                                      *)
Shutdown ==
    /\ page \in SettingsPages /\ Here(page)
    /\ Authorised(token)
    /\ Ask("stop")
    /\ StopHandler(Tab)
    /\ UNCHANGED <<page, wait, info, storage, store, kept>>

(* ResetRoutingDataDialogContent, of the debug tools: the node is stopped  *)
(* once its routing data is marked for deletion.                           *)
ResetRoutingData ==
    /\ Here("settings/debug-tools")
    /\ Authorised(token) /\ node
    /\ Ask("reload")
    /\ StopHandler(Tab)
    /\ UNCHANGED <<page, wait, info, storage, store, kept>>

(* DynamicChannelsBackupDialog and useMigrateLDKStorage.                   *)
MigrateLDKStorage ==
    /\ Here("settings/backup") /\ info.connected /\ info.backend = "LDK"
    /\ Authorised(token) /\ node
    /\ Ask("reload")
    /\ StopHandler(Tab)
    /\ UNCHANGED <<page, wait, info, storage, store, kept>>

ChangeUnlockPassword ==
    /\ Here("settings/change-unlock-password")
    /\ Authorised(token)
    /\ Ask("reload")
    /\ \E old, new \in Passwords : old # new /\ ChangePasswordHandler(Tab, old, new)
    /\ UNCHANGED <<page, wait, info, storage, store, kept>>

(* MigrateNode sends no token: the password is what counts.                *)
MigrateNode ==
    /\ Here("settings/node-migrate")
    /\ Ask("migrate")
    /\ \E p \in Passwords : BackupHandler(Tab, p)
    /\ UNCHANGED <<page, wait, info, storage, store, kept>>

(* The answer comes, on whatever screen the user is by now.                *)
Answered ==
    /\ asked # None
    /\ call[Tab].op \in {"done", "failed"}
    /\ call' = [call EXCEPT ![Tab] = Idle]
    /\ asked' = None
    /\ \/ /\ call[Tab].op = "failed"
          /\ UNCHANGED <<page, wait, info>>
       \/ /\ call[Tab].op = "done" /\ Serving
          /\ info' = IF asked = "migrate" THEN info ELSE Info(token)
          /\ CASE asked = "stop" -> Show("/")
               [] asked = "migrate" -> Show("create-node-migration-file-success")
               [] asked = "reload" -> UNCHANGED page /\ wait' = Noticed(info')
    /\ UNCHANGED <<tableVars, checked, loaded, nodeVars, startVars, halted, restore, overlap,
                   refilled, refused, retired, boots, env, storage, store, kept>>

AutoUnlock ==
    /\ Here("settings/auto-unlock")
    /\ Authorised(token) /\ Serving
    /\ \E p \in Passwords : SetAutoUnlockPassword(IF info.auto THEN None ELSE p)
    /\ UNCHANGED <<page, wait, storage, store, asked, kept>>
    /\ info' = Info(token)'

(* UnlinkAlbyAccount, of the account settings, where it may lead on to     *)
(* another account, and of AuthCodeForm.                                   *)
UnlinkAlbyAccount ==
    /\ Here("settings/alby-account") \/ ((Here("alby/auth") \/ Here("setup/auth")) /\ info.account)
    /\ Authorised(token) /\ Serving
    /\ UnlinkAccount
    /\ UNCHANGED <<storage, store, asked, kept>>
    /\ info' = Info(token)'
    /\ \E p \in {"/"} \cup (IF page = "settings/alby-account" THEN {"alby/auth"} ELSE {}) : Show(p)

(* DeveloperSettings: a token for the second client.                       *)
DeveloperSettings ==
    /\ Here("settings/developer") /\ Serving
    /\ \E p \in Passwords : UnlockHandler(p)
    /\ apiToken' = loaded
    /\ UNCHANGED <<page, wait, info, storage, store, asked, errand>>

(* Preferences nothing here depends on: what is left of a change is that   *)
(* info is fetched again.                                                  *)
Preference(p) ==
    /\ Here(p)
    /\ Authorised(token) /\ Serving
    /\ info' = Info(token)
    /\ UNCHANGED <<hubVars, page, wait, storage, store, asked, kept>>

Settings == Preference("settings")
NodeSettings == Preference("settings/node")
NodeAlias == Preference("wallet/node-alias")

(* Backup: the recovery phrase is shown to whoever knows the password.     *)
Backup ==
    /\ Here("settings/backup") /\ wait = "no"
    /\ Authorised(token) /\ Serving
    /\ \E p \in Passwords : CheckUnlockPassword(p) /\ RememberCheck(p)
    /\ wait' = "mnemonic"
    /\ UNCHANGED <<tableVars, loaded, nodeVars, startVars, call, halted, restore, overlap, refused, retired,
                   boots, env, page, info, storage, store, asked, kept>>

(* MnemonicDialog: the phrase is written down, the reminder is put off.    *)
MnemonicDialog ==
    /\ Here("settings/backup") /\ wait = "mnemonic"
    /\ Authorised(token) /\ Serving /\ ~halted
    /\ info' = Info(token)
    /\ Show("/")
    /\ UNCHANGED <<hubVars, storage, store, asked, kept>>

(***************************************************************************)
(* The second client.                                                      *)
(***************************************************************************)
OtherClient ==
    /\ apiToken # 0 /\ Serving
    /\ \/ \E p \in Passwords : StartHandler(p)
       \/ Authorised(apiToken) /\ StopHandler(Other)
       \/ /\ call[Other].op \in {"done", "failed"}
          /\ call' = [call EXCEPT ![Other] = Idle]
          /\ UNCHANGED <<tableVars, checked, loaded, nodeVars, startVars, halted, restore, overlap,
                         refilled, refused, retired, boots, env>>
    /\ UNCHANGED tabVars

Service ==
    /\ HubSteps \/ Restart \/ (ErrandTable[errand].expires /\ FetchUserToken)
    /\ UNCHANGED tabVars

Wizard ==
    \/ Intro \/ Welcome \/ ConnectAlbyAccount \/ AuthCodeForm
    \/ SetupAdvanced \/ SetupPassword \/ ImportMnemonic \/ SetupNode
    \/ LDKForm \/ BarkForm \/ LNDForm \/ CLNForm \/ PhoenixdForm \/ CashuForm \/ PresetNodeForm
    \/ SetupSecurity \/ FinishSetup \/ FinishStarts \/ SetupTimesOut \/ SetupBack \/ RestoreNode

InSettings ==
    \/ Menu \/ Shutdown \/ ResetRoutingData \/ MigrateLDKStorage \/ ChangeUnlockPassword \/ MigrateNode \/ Answered
    \/ AutoUnlock \/ UnlinkAlbyAccount \/ DeveloperSettings
    \/ Settings \/ NodeSettings \/ NodeAlias \/ Backup \/ MnemonicDialog

Next == Redirect \/ UseInfo \/ Wizard \/ Start \/ Unlock \/ InSettings \/ OtherClient \/ Service

Init ==
    /\ errand \in Errands
    /\ env = Environment(errand)
    /\ failures = MaxFailures - ErrandTable[errand].starts
    /\ boots = IF ErrandTable[errand].dies THEN 0 ELSE MaxBoots
    /\ IF ErrandTable[errand].nodes # {} THEN HubInit ELSE HubInUse(HasAccount(errand))
    /\ apiToken = IF ErrandTable[errand].shared THEN loaded ELSE 0
    /\ TabInit

(* Requests are served and goroutines run; SWR polls and effects fire      *)
(* while the tab is open.  Nobody has to press anything.                   *)
Progress == StartSteps /\ UNCHANGED tabVars
Fairness == WF_vars(Progress) /\ WF_vars(UseInfo) /\ WF_vars(Redirect)

Spec == Init /\ [][Next]_vars /\ Fairness

(***************************************************************************)
(* Properties.                                                             *)
(***************************************************************************)

(* Once the setup is complete one password opens all that is encrypted: no *)
(* failed start, retried setup, change of password or restart in between   *)
(* leaves a row of user_configs under another password than the one that   *)
(* is checked, unless a password is checked while it is being changed      *)
(* (get caches the old row until the transaction commits).  The JWT secret *)
(* alone may be left behind, and only when an earlier start was refused    *)
(* for want of an Alby session: startHandler had saved it by then, and a   *)
(* repeated setup with another password does not encrypt it anew.          *)
LeftBehind(k) == k = "jwt" /\ refused
KeysOpen ==
    row.started /\ ~refilled =>
        \A k \in Keys : entry[k] \in {None, entry["check"]} \/ LeftBehind(k)

(* Whatever page is opened (to the redirects all inner pages are alike),   *)
(* and however old the answer to /api/info and the routes remembered in    *)
(* localStorage are, the redirects come to rest: DefaultRedirect,         *)
(* HomeRedirect, SetupRedirect and StartRedirect never send the user back  *)
(* and forth.                                                              *)
FollowTwice(l) == Followed(Followed(l))
RedirectsSettle ==
    \A p \in {page, "home"} \cup OuterPages :
        LET l == FollowTwice(FollowTwice(Followed([Location EXCEPT !.page = p])))
        IN  Followed(l).page = l.page

(* A change of password ends every session for good: a JWT secret that was *)
(* in use before it is never accepted again, not after a restart and not   *)
(* when a start of the second client loads the secret meanwhile.           *)
OldTokensStayOut == loaded = 0 \/ loaded > retired

(* When CreateBackup closes the database the node is off and nothing of it *)
(* is left running, unless a start was under way at the same time.         *)
HaltedMeansStopped == halted /\ ~overlap => ~node /\ launched = 0

(* The hub keeps to its life cycle: the detailed specification, with its   *)
(* locks, goroutines and stale screens, implements HubLifecycle.           *)
Lifecycle == INSTANCE HubLifecycle
    WITH password <- entry["check"], done <- row.started, running <- node, changing <- Changing
KeepsLifecycle == Lifecycle!Spec

(* Whoever presses start is told: the start screen does not go on waiting  *)
(* for a start that has succeeded or failed.  Only a hub that was stopped  *)
(* again, or that died, before the screen asked leaves nothing to be told. *)
StartIsAnswered ==
    (page = "start" /\ wait = "starting")
        ~> \/ page # "start" \/ wait # "starting"
           \/ ~node /\ start.at = None /\ ~startupError
=============================================================================
