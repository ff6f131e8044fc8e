-------------------------- MODULE HubServiceProofs --------------------------
(***************************************************************************)
(* More proofs about HubScreens, for any passwords, number of sessions,    *)
(* failed starts and restarts: one password opens all that is encrypted,   *)
(* and a migration closes the database of a hub whose node is off (both    *)
(* are about the service alone, whatever the screens ask of it), every     *)
(* variable of the hub and its screens keeps its type, and the redirects   *)
(* of the screens come to rest.                                            *)
(***************************************************************************)
EXTENDS HubScreensProofs

(***************************************************************************)
(* The operations of the service, as the screens and the second client use *)
(* them.                                                                   *)
(***************************************************************************)
AnswerTaken(c) ==
    /\ call[c].op \in {"done", "failed"}
    /\ call' = [call EXCEPT ![c] = Idle]
    /\ UNCHANGED <<tableVars, checked, loaded, nodeVars, startVars, halted, restore, overlap,
                   refilled, refused, retired, boots, env>>

PasswordChecked(p) ==
    /\ CheckUnlockPassword(p) /\ RememberCheck(p)
    /\ UNCHANGED <<tableVars, loaded, nodeVars, startVars, call, halted, restore, overlap, refused,
                   retired, boots, env>>

AccountChanges == (\E same \in BOOLEAN : CallbackHandler(same)) \/ FetchUserToken \/ UnlinkAccount

Operation ==
    \/ \E p \in Passwords, b \in Maybe(Backends), m \in BOOLEAN : SetupAccepted(b) /\ Setup(p, b, m)
    \/ \E p \in Maybe(Passwords) : StartHandler(p)
    \/ \E p \in Maybe(Passwords) : SetAutoUnlockPassword(p)
    \/ \E p \in Passwords : PasswordChecked(p) \/ RestoreBackup(p)
    \/ \E p \in Passwords : row.started /\ BackupHandler(Tab, p)
    \/ \E old, new \in Passwords : row.started /\ ChangePasswordHandler(Tab, old, new)
    \/ \E c \in Callers : StopHandler(c) \/ AnswerTaken(c)
    \/ AccountChanges \/ HubSteps \/ Restart
    \/ UNCHANGED hubVars

(***************************************************************************)
(* The inductive invariant of KeysOpen.                                    *)
(***************************************************************************)

(* What is cached as right is the password that is set, and while it is    *)
(* being changed nothing is cached.  A start past its check has that       *)
(* password; between its check and its launch no node is on, so that no    *)
(* change can begin.                                                       *)
CacheIsRight ==
    /\ None \notin checked
    /\ refilled => row.started
    /\ ~refilled => checked \subseteq {entry["check"]} /\ (Changing => checked = {})
    /\ ~refilled /\ start.at = "keys" => start.with = entry["check"] /\ ~Changing
    /\ start.at \in {"keys", "launch"} => ~node

(* Before the hub is set up only a start of the wizard holds the lock, and *)
(* it has a secret and the password that was set up last.                  *)
SetupIsAlone ==
    ~row.started =>
        /\ lock # "free" => lock = "start" /\ start.at # None
        /\ start.at # None => loaded # 0
        /\ start.at \in {"check", "keys"} => start.with = entry["check"] /\ start.with # None
        /\ secret = 0 <=> entry["jwt"] = None

(* Before the hub is set up, and unless a start was refused for want of an *)
(* Alby session, the JWT secret is under the password of the Nostr key, or *)
(* under that of the start that is about to make one.                      *)
SecretGoesWithKey ==
    ~row.started /\ ~refused =>
        /\ entry["nostr"] # None => entry["jwt"] = entry["nostr"]
        /\ entry["nostr"] = None /\ loaded # 0 =>
              start.at \in {"check", "keys"} /\ entry["jwt"] = start.with

(* From the launch on everything is under the one password.                *)
AllOpen ==
    (row.started \/ start.at \in {"launch", "mark"}) /\ ~refilled =>
        \A k \in Keys : entry[k] \in {None, entry["check"]} \/ LeftBehind(k)

KeysInv == CacheIsRight /\ SetupIsAlone /\ SecretGoesWithKey /\ AllOpen

(***************************************************************************)
(* The inductive invariant of HaltedMeansStopped.                          *)
(***************************************************************************)

(* Goroutines of launchLNBackend: besides those that are canceled or are   *)
(* shutting a node down there is that of the start that has launched, and  *)
(* that of the last start that ended, as long as it is not canceled.  A    *)
(* node has one that is not yet shutting another node down.                *)
InStart == IF start.at \in {"mark", "relays"} THEN 1 ELSE 0
ToCancel == IF cancel = "live" THEN 1 ELSE 0
NodeIsCounted ==
    /\ {launched, doomed, closing} \subseteq Nat
    /\ doomed + closing + InStart + ToCancel <= launched
    /\ node => closing < launched

(* A migration without a start in its way: nothing is started while it is  *)
(* under way or once it is done, and it archives what has stopped.         *)
MigrationIsAlone ==
    ~overlap =>
        /\ call[Tab].op = "backup" \/ halted => start.at = None
        /\ (call[Tab].op = "backup" /\ call[Tab].at = "archive") \/ halted => launched = 0

StopInv == NodeIsCounted /\ MigrationIsAlone

ServiceInv == Inv /\ KeysInv /\ StopInv

USE HubAssumption, ClientsAssumption

(* Every step is one of these operations, as far as the service goes.      *)
LEMMA StepsAreOperations ==
    ASSUME Inv, [Next]_vars
    PROVE  Operation
<1>1. CASE Redirect \/ UseInfo \/ UNCHANGED vars
  BY <1>1 DEF Redirect, UseInfo, vars, Operation
<1>2. CASE Wizard
  <2>1. CASE \/ Intro \/ Welcome \/ ConnectAlbyAccount \/ SetupAdvanced \/ SetupPassword \/ ImportMnemonic
             \/ SetupNode \/ SetupSecurity \/ SetupTimesOut \/ SetupBack
    BY <2>1 DEF Intro, Welcome, ConnectAlbyAccount, SetupAdvanced, SetupPassword, ImportMnemonic, SetupNode,
                SetupSecurity, SetupTimesOut, SetupBack, Operation
  <2>2. CASE LDKForm \/ BarkForm \/ LNDForm \/ CLNForm \/ PhoenixdForm \/ CashuForm \/ PresetNodeForm
    BY <2>2 DEF LDKForm, BarkForm, LNDForm, CLNForm, PhoenixdForm, CashuForm, PresetNodeForm, NodeForm,
                Operation
  <2>3. CASE AuthCodeForm
    BY <2>3 DEF AuthCodeForm, AccountChanges, Operation
  <2>4. CASE FinishSetup
    <3>1. store.password # None => store.password \in Passwords
      BY DEF Inv, TabInv, StoreType, Maybe
    <3>2. store.backend \in Maybe(Backends) /\ store.mnemonic \in BOOLEAN
      BY DEF Inv, TabInv, StoreType
    <3> QED
      BY <2>4, <3>1, <3>2 DEF FinishSetup, Operation
  <2>5. CASE FinishStarts
    <3>1. store.password \in Maybe(Passwords)
      BY DEF Inv, TabInv, StoreType
    <3> QED
      BY <2>5, <3>1 DEF FinishStarts, Operation
  <2>6. CASE RestoreNode
    BY <2>6 DEF RestoreNode, Operation
  <2> QED
    BY <1>2, <2>1, <2>2, <2>3, <2>4, <2>5, <2>6 DEF Wizard
<1>3. CASE Start
  BY <1>3 DEF Start, Operation, Maybe
<1>4. CASE Unlock \/ DeveloperSettings \/ Backup
  <2>1. PICK p \in Passwords : PasswordChecked(p)
    BY <1>4 DEF Unlock, DeveloperSettings, Backup, UnlockHandler, UnlockAccepted, PasswordChecked
  <2> QED
    BY <2>1 DEF Operation
<1>5. CASE Shutdown \/ ResetRoutingData \/ MigrateLDKStorage
  BY <1>5 DEF Shutdown, ResetRoutingData, MigrateLDKStorage, Operation, Tab
<1>6. CASE ChangeUnlockPassword \/ MigrateNode
  <2>1. row.started
    BY <1>6 DEF ChangeUnlockPassword, MigrateNode, Here, InnerPages, SettingsPages, Inv, TabInv
  <2> QED
    BY <1>6, <2>1 DEF ChangeUnlockPassword, MigrateNode, Operation
<1>7. CASE Answered
  <2>1. AnswerTaken(Tab)
    BY <1>7 DEF Answered, AnswerTaken
  <2> QED
    BY <2>1 DEF Operation, Tab
<1>8. CASE AutoUnlock
  <2>1. PICK p \in Passwords : SetAutoUnlockPassword(IF info.auto THEN None ELSE p)
    BY <1>8 DEF AutoUnlock
  <2>2. (IF info.auto THEN None ELSE p) \in Maybe(Passwords)
    BY DEF Maybe
  <2> QED
    BY <2>1, <2>2 DEF Operation
<1>9. CASE UnlinkAlbyAccount
  BY <1>9 DEF UnlinkAlbyAccount, AccountChanges, Operation
<1>10. CASE Menu \/ Settings \/ NodeSettings \/ NodeAlias \/ MnemonicDialog
  BY <1>10 DEF Menu, Settings, NodeSettings, NodeAlias, Preference, MnemonicDialog, Operation
<1>11. CASE OtherClient
  <2>1. CASE \E p \in Passwords : StartHandler(p)
    BY <2>1 DEF Operation, Maybe
  <2>2. CASE StopHandler(Other) \/ AnswerTaken(Other)
    BY <2>2 DEF Operation, Other
  <2> QED
    BY <1>11, <2>1, <2>2 DEF OtherClient, AnswerTaken
<1>12. CASE Service
  BY <1>12 DEF Service, AccountChanges, Operation
<1> QED
  BY <1>1, <1>2, <1>3, <1>4, <1>5, <1>6, <1>7, <1>8, <1>9, <1>10, <1>11, <1>12 DEF Next, InSettings

(***************************************************************************)
(* One password opens everything.                                          *)
(***************************************************************************)

(* What the invariant of KeysOpen is about.                                *)
keyVars == <<entry, row.started, secret, loaded, checked, node, lock, start, Changing, refilled, refused>>

LEMMA KeysUnchanged ==
    ASSUME KeysInv, UNCHANGED keyVars
    PROVE  KeysInv'
BY DEF KeysInv, CacheIsRight, SetupIsAlone, SecretGoesWithKey, AllOpen, LeftBehind, keyVars

(* A change of password is under way only at a hub that is set up, so that *)
(* before nothing is checked while one is.                                 *)
LEMMA SetUpBeforeChange ==
    ASSUME HubInv, KeysInv
    PROVE  /\ Changing => row.started
           /\ halted => row.started
           /\ ~row.started => ~refilled
BY Changes DEF HubInv, CallsAllowed, KeysInv, CacheIsRight

(* A password that passes the check is the one that is set.                *)
LEMMA CheckIsRight ==
    ASSUME KeysInv, NEW p, CheckUnlockPassword(p)
    PROVE  p # None /\ (~refilled => p = entry["check"])
BY DEF KeysInv, CacheIsRight, CheckUnlockPassword

(* It is cached, which keeps the cache right.                              *)
LEMMA RememberKeeps ==
    ASSUME KeysInv, HubInv, NEW p, CheckUnlockPassword(p), RememberCheck(p),
           UNCHANGED <<entry["check"], row.started, Changing>>
    PROVE  /\ None \notin checked'
           /\ refilled' => row'.started
           /\ ~refilled' => ~refilled /\ ~Changing /\ checked' \subseteq {entry'["check"]}
BY CheckIsRight, SetUpBeforeChange DEF KeysInv, CacheIsRight, RememberCheck

LEMMA PasswordCheckedKeys ==
    ASSUME HubInv, KeysInv, NEW p, CheckUnlockPassword(p), RememberCheck(p),
           UNCHANGED <<entry, row.started, secret, loaded, node, lock, start, Changing, refused>>
    PROVE  KeysInv'
<1>1. CacheIsRight'
  BY RememberKeeps DEF KeysInv, CacheIsRight
<1>2. AllOpen'
  BY RememberKeeps DEF KeysInv, AllOpen, LeftBehind
<1> QED
  BY <1>1, <1>2 DEF KeysInv, SetupIsAlone, SecretGoesWithKey

(* LoadJWTSecret with a password that passes the check.  Of a hub that is  *)
(* set up it may draw a secret; of one that is not, only when nothing has  *)
(* been drawn for its keys.                                                *)
LEMMA LoadKeys ==
    ASSUME HubInv, KeysInv, NEW p, p # None, LoadJWTSecret(p), SecretReadable(p)
    PROVE  /\ \A k \in Keys \ {"jwt"} : entry'[k] = entry[k]
           /\ entry'["jwt"] \in {entry["jwt"], p}
           /\ ~row.started => /\ loaded' # 0
                              /\ secret' = 0 <=> entry'["jwt"] = None
                              /\ loaded # 0 => UNCHANGED <<entry, secret>>
                              /\ loaded = 0 => entry'["jwt"] = p
                              /\ secret # 0 => UNCHANGED entry
<1>1. /\ entry \in [Keys -> Maybe(Passwords)] /\ drawn \in Nat /\ secret \in Nat /\ loaded \in Nat
      /\ halted => row.started
  BY SetUpBeforeChange DEF HubInv, HubTypes, SecretsInOrder
<1>2. CASE loaded = 0 /\ secret = 0
  <2>1. /\ drawn' = drawn + 1 /\ secret' = drawn + 1 /\ loaded' = drawn + 1
        /\ entry' = [entry EXCEPT !["jwt"] = p]
    BY <1>2 DEF LoadJWTSecret
  <2>2. entry'["jwt"] = p /\ \A k \in Keys \ {"jwt"} : entry'[k] = entry[k]
    BY <1>1, <2>1 DEF Keys
  <2>3. secret' # 0 /\ loaded' # 0
    BY <1>1, <2>1
  <2> QED
    BY <1>2, <2>2, <2>3
<1>3. CASE ~(loaded = 0 /\ secret = 0)
  <2>1. loaded' = (IF loaded = 0 THEN secret ELSE loaded) /\ UNCHANGED <<entry, secret>>
    BY <1>3 DEF LoadJWTSecret
  <2>2. ~row.started /\ loaded = 0 => entry["jwt"] = p
    BY <1>1, <1>3 DEF SecretReadable
  <2> QED
    BY <1>3, <2>1, <2>2 DEF KeysInv, SetupIsAlone
<1> QED
  BY <1>2, <1>3

(* The wizard writes the password while nothing else goes on.              *)
LEMMA SetupKeys ==
    ASSUME HubInv, KeysInv, NEW p \in Passwords, NEW b \in Maybe(Backends), NEW m \in BOOLEAN,
           SetupAccepted(b), Setup(p, b, m)
    PROVE  KeysInv'
<1>1. /\ entry' = [entry EXCEPT !["check"] = p, !["mnemonic"] = IF m THEN p ELSE @]
      /\ row' = [row EXCEPT !.backend = IF b = None THEN @ ELSE b] /\ checked' = {}
      /\ UNCHANGED <<secret, loaded, node, lock, start, call, refilled, refused>>
      /\ ~row.started /\ lock = "free"
  BY DEF Setup, SetupAccepted, SetupCompleted, nodeVars, startVars
<1>2. /\ entry'["check"] = p /\ entry'["nostr"] = entry["nostr"] /\ entry'["jwt"] = entry["jwt"]
      /\ row'.started = row.started
  BY <1>1 DEF HubInv, HubTypes, Keys, RowType
<1>3. start.at = None /\ ~Changing /\ ~Changing'
  BY <1>1, SetUpBeforeChange DEF HubInv, LockHeld, Changing
<1> QED
  BY <1>1, <1>2, <1>3 DEF KeysInv, CacheIsRight, SetupIsAlone, SecretGoesWithKey, AllOpen, LeftBehind, None

(* A start begins with the password that was checked, or is refused.       *)
LEMMA StartHandlerKeys ==
    ASSUME HubInv, KeysInv, NEW p \in Maybe(Passwords), StartHandler(p)
    PROVE  KeysInv'
<1>1. /\ CheckUnlockPassword(p) /\ SecretReadable(p) /\ LoadJWTSecret(p) /\ RememberCheck(p)
      /\ UNCHANGED <<row, node, call, refused>>
      /\ \/ lock = "free" /\ lock' = "start" /\ start' = [at |-> "check", with |-> p]
         \/ lock # "free" /\ UNCHANGED <<lock, start>>
  BY DEF StartHandler, StartAccepted, nodeVars
<1>2. UNCHANGED Changing
  BY <1>1 DEF Changing
<1>3. p # None /\ (~refilled => p = entry["check"]) /\ (~row.started => p = entry["check"])
  BY <1>1, CheckIsRight, SetUpBeforeChange
<1>4. /\ \A k \in Keys \ {"jwt"} : entry'[k] = entry[k]
      /\ entry'["jwt"] \in {entry["jwt"], p}
      /\ ~row.started => /\ loaded' # 0
                         /\ secret' = 0 <=> entry'["jwt"] = None
                         /\ loaded # 0 => UNCHANGED <<entry, secret>>
                         /\ loaded = 0 => entry'["jwt"] = p
                         /\ secret # 0 => UNCHANGED entry
  BY <1>1, <1>3, LoadKeys
<1>5. entry'["check"] = entry["check"] /\ entry'["nostr"] = entry["nostr"]
  BY <1>4 DEF Keys
<1>6. /\ None \notin checked'
      /\ refilled' => row'.started
      /\ ~refilled' => ~refilled /\ ~Changing /\ checked' \subseteq {entry'["check"]}
  BY <1>1, <1>2, <1>5, RememberKeeps
<1>7. CacheIsRight'
  BY <1>1, <1>2, <1>5, <1>6 DEF KeysInv, CacheIsRight, None
<1>8. lock = "free" => start.at = None
  BY DEF HubInv, LockHeld
<1>9. SetupIsAlone'
  BY <1>1, <1>3, <1>4, <1>5, <1>8 DEF KeysInv, SetupIsAlone, None
<1>10. SecretGoesWithKey'
  <2> SUFFICES ASSUME ~row'.started, ~refused'
               PROVE  SecretGoesWithKey'
    BY DEF SecretGoesWithKey
  <2>1. ~row.started /\ ~refused
    BY <1>1
  <2>2. CASE lock = "free"
    <3>1. entry["nostr"] # None \/ loaded = 0
      BY <1>8, <2>1, <2>2 DEF KeysInv, SecretGoesWithKey, None
    <3>2. entry["nostr"] # None => UNCHANGED entry
      BY <1>4, <2>1 DEF KeysInv, SecretGoesWithKey, SetupIsAlone
    <3> QED
      BY <1>1, <1>4, <1>5, <2>1, <2>2, <3>1, <3>2 DEF KeysInv, SecretGoesWithKey
  <2>3. CASE lock # "free"
    <3>1. loaded # 0 /\ UNCHANGED <<start, entry>>
      BY <1>1, <1>4, <2>1, <2>3 DEF KeysInv, SetupIsAlone
    <3> QED
      BY <2>1, <3>1 DEF KeysInv, SecretGoesWithKey
  <2> QED
    BY <2>2, <2>3
<1>11. AllOpen'
  <2> SUFFICES ASSUME row'.started \/ start'.at \in {"launch", "mark"}, ~refilled', NEW k \in Keys
               PROVE  entry'[k] \in {None, entry'["check"]} \/ LeftBehind(k)'
    BY DEF AllOpen
  <2>1. ~refilled /\ (row.started \/ start.at \in {"launch", "mark"})
    BY <1>1, <1>6
  <2>2. entry[k] \in {None, entry["check"]} \/ LeftBehind(k)
    BY <2>1 DEF KeysInv, AllOpen
  <2>3. LeftBehind(k) => LeftBehind(k)'
    BY <1>1 DEF LeftBehind
  <2> QED
    BY <1>3, <1>4, <1>5, <2>1, <2>2, <2>3 DEF Keys
<1> QED
  BY <1>7, <1>9, <1>10, <1>11 DEF KeysInv

(* A start that gives up: the wizard may begin anew.                       *)
LEMMA StartGivesUpKeys ==
    ASSUME HubInv, KeysInv, StartFails, UNCHANGED <<secret, loaded, row, node, checked, call, refilled>>,
           refused => refused', UNCHANGED entry["check"],
           (secret = 0 <=> entry'["jwt"] = None) \/ row.started,
           ~row.started /\ ~refused' =>
               /\ entry'["nostr"] # None => entry'["jwt"] = entry'["nostr"]
               /\ entry'["nostr"] = None => loaded = 0,
           row.started /\ ~refilled =>
               \A k \in Keys : entry'[k] \in {None, entry["check"]} \/ LeftBehind(k)
    PROVE  KeysInv'
<1>1. start'.at = None /\ lock' = "free"
  BY FailedStart
<1>2. UNCHANGED Changing
  BY DEF Changing
<1>3. CacheIsRight'
  BY <1>1, <1>2 DEF KeysInv, CacheIsRight, None
<1>4. SetupIsAlone'
  BY <1>1 DEF KeysInv, SetupIsAlone, None
<1>5. SecretGoesWithKey'
  BY <1>1 DEF KeysInv, SecretGoesWithKey
<1>6. AllOpen'
  BY <1>1 DEF KeysInv, AllOpen, LeftBehind, None
<1> QED
  BY <1>3, <1>4, <1>5, <1>6 DEF KeysInv

(* Before the hub is set up, a start that has the account it needs is not  *)
(* refused by the checks: they were made for it, with the same password.   *)
LEMMA SetupStartIsAllowed ==
    ASSUME HubInv, KeysInv, ~row.started, start.at = "check", ~AccountMissing
    PROVE  StartAllowed
<1>1. start.with = entry["check"] /\ start.with # None /\ loaded # 0
  BY DEF KeysInv, SetupIsAlone, None
<1>2. ~node /\ ~halted
  BY DEF HubInv, PasswordIsSet, CallsAllowed
<1> QED
  BY <1>1, <1>2 DEF StartAllowed, CheckUnlockPassword, SecretReadable

LEMMA StartChecksKeys ==
    ASSUME HubInv, KeysInv, StartChecks
    PROVE  KeysInv'
<1>1. start.at = "check" /\ UNCHANGED <<row, node, call>>
  BY DEF StartChecks, nodeVars
<1>2. UNCHANGED Changing
  BY <1>1 DEF Changing
<1>3. CASE /\ StartAllowed /\ LoadJWTSecret(start.with) /\ RememberCheck(start.with)
           /\ start' = [start EXCEPT !.at = "keys"] /\ UNCHANGED <<lock, refused>>
  <2> DEFINE p == start.with
  <2>1. ~node /\ CheckUnlockPassword(p) /\ SecretReadable(p) /\ LoadJWTSecret(p) /\ RememberCheck(p)
    BY <1>3 DEF StartAllowed
  <2>2. start'.at = "keys" /\ start'.with = p
    BY <1>3 DEF HubInv, HubTypes, StartType
  <2> HIDE DEF p
  <2>3. p # None /\ (~refilled => p = entry["check"]) /\ (~row.started => p = entry["check"])
    BY <2>1, CheckIsRight, SetUpBeforeChange
  <2>4. /\ \A k \in Keys \ {"jwt"} : entry'[k] = entry[k]
        /\ entry'["jwt"] \in {entry["jwt"], p}
        /\ ~row.started => /\ loaded' # 0
                           /\ secret' = 0 <=> entry'["jwt"] = None
                           /\ loaded # 0 => UNCHANGED <<entry, secret>>
    BY <2>1, <2>3, LoadKeys
  <2>5. entry'["check"] = entry["check"]
    BY <2>4 DEF Keys
  <2>6. /\ None \notin checked'
        /\ refilled' => row'.started
        /\ ~refilled' => ~refilled /\ ~Changing /\ checked' \subseteq {entry'["check"]}
    BY <1>1, <1>2, <2>1, <2>5, RememberKeeps
  <2>7. CacheIsRight'
    BY <1>1, <1>2, <2>1, <2>2, <2>3, <2>5, <2>6 DEF KeysInv, CacheIsRight
  <2>8. SetupIsAlone'
    BY <1>1, <1>3, <2>2, <2>3, <2>4, <2>5 DEF KeysInv, SetupIsAlone, None
  <2>9. SecretGoesWithKey'
    <3> SUFFICES ASSUME ~row.started, ~refused
                 PROVE  SecretGoesWithKey'
      BY <1>1, <1>3 DEF SecretGoesWithKey
    <3>1. loaded # 0
      BY <1>1 DEF KeysInv, SetupIsAlone, None
    <3> QED
      BY <1>1, <2>2, <2>4, <3>1 DEF KeysInv, SecretGoesWithKey, p
  <2>10. AllOpen'
    <3> SUFFICES ASSUME row.started, ~refilled', NEW k \in Keys
                 PROVE  entry'[k] \in {None, entry'["check"]} \/ LeftBehind(k)'
      BY <1>1, <2>2 DEF AllOpen
    <3>1. entry[k] \in {None, entry["check"]} \/ LeftBehind(k)
      BY <2>6 DEF KeysInv, AllOpen
    <3>2. LeftBehind(k) => LeftBehind(k)'
      BY <1>3 DEF LeftBehind
    <3> QED
      BY <2>3, <2>4, <2>5, <2>6, <3>1, <3>2 DEF Keys
  <2> QED
    BY <2>7, <2>8, <2>9, <2>10 DEF KeysInv
<1>4. CASE /\ ~StartAllowed /\ StartFails
           /\ refused' = (refused \/ (~row.started /\ AccountMissing))
           /\ UNCHANGED <<entry, secret, loaded, checked, refilled>>
  <2>1. row.started \/ refused'
    BY <1>1, <1>4, SetupStartIsAllowed
  <2>2. row.started /\ ~refilled => \A k \in Keys : entry'[k] \in {None, entry["check"]} \/ LeftBehind(k)
    BY <1>4 DEF KeysInv, AllOpen
  <2>3. (secret = 0 <=> entry'["jwt"] = None) \/ row.started
    BY <1>4 DEF KeysInv, SetupIsAlone
  <2> QED
    BY <1>1, <1>4, <2>1, <2>2, <2>3, StartGivesUpKeys
<1> QED
  BY <1>3, <1>4 DEF StartChecks

(* keys.Init: what it makes has the password of the start.                 *)
LEMMA KeysInitKeys ==
    ASSUME HubInv, KeysInv, KeysInit
    PROVE  KeysInv'
<1> DEFINE p == start.with
           opens(k) == entry[k] \in {None, p}
<1>1. /\ start.at = "keys"
      /\ entry' = [entry EXCEPT !["nostr"] = IF @ = None THEN p ELSE @,
                                !["mnemonic"] = IF @ = None /\ opens("nostr") THEN p ELSE @]
      /\ UNCHANGED <<row, secret, checked, loaded, node, call, refilled, refused>>
      /\ \/ opens("nostr") /\ opens("mnemonic") /\ start' = [start EXCEPT !.at = "launch"] /\ UNCHANGED lock
         \/ StartFails
  BY DEF KeysInit, nodeVars
<1>2. /\ entry'["check"] = entry["check"] /\ entry'["jwt"] = entry["jwt"]
      /\ entry'["nostr"] = IF entry["nostr"] = None THEN p ELSE entry["nostr"]
      /\ entry'["mnemonic"] \in {entry["mnemonic"], p}
      /\ opens("nostr") /\ opens("mnemonic") => entry'["nostr"] = p /\ entry'["mnemonic"] = p
  BY <1>1 DEF HubInv, HubTypes, Keys
<1>3. UNCHANGED Changing
  BY <1>1 DEF Changing
<1>4. (~refilled => p = entry["check"]) /\ (~row.started => ~refilled /\ loaded # 0 /\ p # None)
  BY <1>1, SetUpBeforeChange DEF KeysInv, CacheIsRight, SetupIsAlone, None
<1>5. ~row.started /\ ~refused => entry'["nostr"] # None /\ entry'["jwt"] = entry'["nostr"]
  BY <1>1, <1>2, <1>4 DEF KeysInv, SecretGoesWithKey
<1>6. CASE opens("nostr") /\ opens("mnemonic") /\ start' = [start EXCEPT !.at = "launch"] /\ UNCHANGED lock
  <2>1. start'.at = "launch"
    BY <1>6 DEF HubInv, HubTypes, StartType
  <2>2. CacheIsRight'
    BY <1>1, <1>2, <1>3, <2>1 DEF KeysInv, CacheIsRight
  <2>3. SetupIsAlone'
    BY <1>1, <1>2, <1>6, <2>1 DEF KeysInv, SetupIsAlone, None
  <2>4. SecretGoesWithKey'
    BY <1>1, <1>5 DEF SecretGoesWithKey
  <2>5. AllOpen'
    <3> SUFFICES ASSUME ~refilled, NEW k \in Keys
                 PROVE  entry'[k] \in {None, entry["check"]} \/ LeftBehind(k)
      BY <1>1, <1>2 DEF AllOpen, LeftBehind
    <3>1. CASE k # "jwt"
      BY <1>2, <1>4, <1>6, <3>1 DEF Keys
    <3>2. CASE k = "jwt" /\ row.started
      BY <1>2, <3>2 DEF KeysInv, AllOpen
    <3>3. CASE k = "jwt" /\ ~row.started
      BY <1>2, <1>4, <1>5, <1>6, <3>3 DEF LeftBehind
    <3> QED
      BY <3>1, <3>2, <3>3
  <2> QED
    BY <2>2, <2>3, <2>4, <2>5 DEF KeysInv
<1>7. CASE StartFails
  <2>1. row.started /\ ~refilled => \A k \in Keys : entry'[k] \in {None, entry["check"]} \/ LeftBehind(k)
    BY <1>2, <1>4 DEF KeysInv, AllOpen, Keys
  <2>2. (secret = 0 <=> entry'["jwt"] = None) \/ row.started
    BY <1>2 DEF KeysInv, SetupIsAlone
  <2> QED
    BY <1>1, <1>2, <1>5, <1>7, <2>1, <2>2, StartGivesUpKeys
<1> QED
  BY <1>1, <1>6, <1>7

(* The launch, and what comes after it, touches nothing encrypted.         *)
LEMMA LaunchKeys ==
    ASSUME HubInv, KeysInv, LaunchLNBackend
    PROVE  KeysInv'
<1>1. /\ start.at = "launch"
      /\ UNCHANGED <<entry, row, secret, checked, loaded, call, refilled, refused>>
      /\ \/ start' = [start EXCEPT !.at = "mark"] /\ UNCHANGED lock
         \/ StartFails /\ UNCHANGED node
  BY DEF LaunchLNBackend, tableVars
<1>2. UNCHANGED Changing
  BY <1>1 DEF Changing
<1>3. CASE start' = [start EXCEPT !.at = "mark"] /\ UNCHANGED lock
  <2>1. start'.at = "mark"
    BY <1>3 DEF HubInv, HubTypes, StartType
  <2> QED
    BY <1>1, <1>2, <1>3, <2>1 DEF KeysInv, CacheIsRight, SetupIsAlone, SecretGoesWithKey, AllOpen, LeftBehind,
                                  None
<1>4. CASE StartFails /\ UNCHANGED node
  <2>1. ~row.started /\ ~refused => entry["nostr"] # None \/ loaded = 0
    BY <1>1 DEF KeysInv, SecretGoesWithKey
  <2>2. ~row.started /\ ~refused => (entry["nostr"] # None => entry["jwt"] = entry["nostr"])
    BY DEF KeysInv, SecretGoesWithKey
  <2>3. row.started /\ ~refilled => \A k \in Keys : entry[k] \in {None, entry["check"]} \/ LeftBehind(k)
    BY DEF KeysInv, AllOpen
  <2>4. (secret = 0 <=> entry["jwt"] = None) \/ row.started
    BY DEF KeysInv, SetupIsAlone
  <2> QED
    BY <1>1, <1>4, <2>1, <2>2, <2>3, <2>4, StartGivesUpKeys
<1> QED
  BY <1>1, <1>3, <1>4

LEMMA MarkKeys ==
    ASSUME HubInv, KeysInv, MarkStarted
    PROVE  KeysInv'
<1>1. /\ start.at = "mark"
      /\ row' = [row EXCEPT !.started = TRUE]
      /\ start' = [start EXCEPT !.at = "relays"]
      /\ UNCHANGED <<entry, checked, call, refilled, refused>>
  BY DEF MarkStarted
<1>2. row'.started /\ start'.at = "relays"
  BY <1>1 DEF HubInv, HubTypes, RowType, StartType
<1>3. UNCHANGED Changing
  BY <1>1 DEF Changing
<1> QED
  BY <1>1, <1>2, <1>3 DEF KeysInv, CacheIsRight, SetupIsAlone, SecretGoesWithKey, AllOpen, LeftBehind

LEMMA StartEndsKeys ==
    ASSUME HubInv, KeysInv, StartEnds
    PROVE  KeysInv'
<1>1. /\ start.at = "relays"
      /\ UNCHANGED <<entry, row, secret, checked, loaded, node, call, refilled, refused>>
      /\ start' = NotStarting /\ lock' = "free"
  BY DEF StartEnds, StartFails, tableVars
<1>2. UNCHANGED Changing
  BY <1>1 DEF Changing
<1>3. start'.at = None
  BY <1>1 DEF NotStarting
<1> QED
  BY <1>1, <1>2, <1>3 DEF KeysInv, CacheIsRight, SetupIsAlone, SecretGoesWithKey, AllOpen, LeftBehind, None

(* The node goes off; nothing of the keys depends on its being on.         *)
LEMMA NodeStopsKeys ==
    ASSUME KeysInv, StopLNClient \/ LNClientStopped
    PROVE  KeysInv'
<1>1. /\ UNCHANGED <<entry, row, secret, checked, loaded, lock, start, call, refilled, refused>>
      /\ node' => node
  BY DEF StopLNClient, LNClientStopped, tableVars, startVars
<1>2. UNCHANGED Changing
  BY <1>1 DEF Changing
<1> QED
  BY <1>1, <1>2 DEF KeysInv, CacheIsRight, SetupIsAlone, SecretGoesWithKey, AllOpen, LeftBehind

(* Requests that go on without touching keys.  The lock is taken only by   *)
(* who stops the node, of a hub that is set up.                            *)
LEMMA CallKeys ==
    ASSUME HubInv, HubInv', KeysInv, NEW c \in Callers,
           \/ StopHandler(c) \/ StopStep(c) \/ StopReturns(c) \/ AnswerTaken(c)
           \/ BackupStopped(c) \/ BackupArchives(c)
    PROVE  KeysInv'
<1>1. /\ UNCHANGED <<entry, row.started, secret, checked, loaded, node, start, refilled, refused>>
      /\ \/ UNCHANGED lock
         \/ lock = "free" /\ lock' = c /\ node
         \/ lock' = "free" /\ lock = c
  <2>1. CASE StopHandler(c) \/ AnswerTaken(c) \/ BackupStopped(c)
    BY <2>1 DEF StopHandler, AnswerTaken, BackupStopped, tableVars, nodeVars, startVars
  <2>2. CASE StopStep(c)
    BY <2>2 DEF StopStep, StopBegins, tableVars
  <2>3. CASE StopReturns(c)
    BY <2>3 DEF StopReturns, tableVars, nodeVars, HubInv, LockHeld
  <2>4. CASE BackupArchives(c)
    BY <2>4 DEF BackupArchives, nodeVars, startVars, HubInv, HubTypes, RowType
  <2> QED
    BY <2>1, <2>2, <2>3, <2>4
<1>2. \E r : /\ call' = [call EXCEPT ![c] = r]
            /\ ~(call[c].op = "change" /\ call[c].at = "commit")
            /\ ~(r.op = "change" /\ r.at = "commit")
  <2>1. CASE StopHandler(c)
    <3> DEFINE r == [Idle EXCEPT !.op = "stop", !.at = "stop"]
    <3>1. call' = [call EXCEPT ![c] = r] /\ ~(call[c].op = "change" /\ call[c].at = "commit")
      BY <2>1 DEF StopHandler, Idle
    <3>2. ~(r.op = "change" /\ r.at = "commit")
      BY DEF Idle, HubInv, HubTypes, CallType
    <3> QED
      BY <3>1, <3>2
  <2>2. CASE AnswerTaken(c)
    <3> DEFINE r == Idle
    <3>1. call' = [call EXCEPT ![c] = r] /\ ~(call[c].op = "change" /\ call[c].at = "commit")
      BY <2>2 DEF AnswerTaken, Idle
    <3>2. ~(r.op = "change" /\ r.at = "commit")
      BY DEF Idle, HubInv, HubTypes, CallType
    <3> QED
      BY <3>1, <3>2
  <2>3. CASE StopStep(c)
    <3>1. \/ call' = [call EXCEPT ![c] = [@ EXCEPT !.at = "wait"]]
          \/ call' = [call EXCEPT ![c] = [Idle EXCEPT !.op = "failed"]]
      BY <2>3 DEF StopStep, StopBegins, Finish
    <3>2. /\ call[c].at # "commit" /\ [call[c] EXCEPT !.at = "wait"].at # "commit"
          /\ [Idle EXCEPT !.op = "failed"].op # "change"
      BY <2>3 DEF StopStep, Idle, HubInv, HubTypes, CallType
    <3> QED
      BY <3>1, <3>2
  <2>4. CASE StopReturns(c)
    <3> DEFINE r == [Idle EXCEPT !.op = "done"]
    <3>1. call' = [call EXCEPT ![c] = r] /\ ~(call[c].op = "change" /\ call[c].at = "commit")
      BY <2>4 DEF StopReturns, Finish
    <3>2. ~(r.op = "change" /\ r.at = "commit")
      BY DEF Idle, HubInv, HubTypes, CallType
    <3> QED
      BY <3>1, <3>2
  <2>5. CASE BackupStopped(c)
    <3> DEFINE r == [call[c] EXCEPT !.at = "archive"]
    <3>1. call' = [call EXCEPT ![c] = r] /\ ~(call[c].op = "change" /\ call[c].at = "commit")
      BY <2>5 DEF BackupStopped, Finish
    <3>2. ~(r.op = "change" /\ r.at = "commit")
      BY DEF Idle, HubInv, HubTypes, CallType
    <3> QED
      BY <3>1, <3>2
  <2>6. CASE BackupArchives(c)
    <3> DEFINE r == [Idle EXCEPT !.op = "done"]
    <3>1. call' = [call EXCEPT ![c] = r] /\ ~(call[c].op = "change" /\ call[c].at = "commit")
      BY <2>6 DEF BackupArchives, Finish
    <3>2. ~(r.op = "change" /\ r.at = "commit")
      BY DEF Idle, HubInv, HubTypes, CallType
    <3> QED
      BY <3>1, <3>2
  <2> QED
    BY <2>1, <2>2, <2>3, <2>4, <2>5, <2>6
<1>3. /\ \A d \in Callers : d # c => call'[d] = call[d]
      /\ ~(call[c].op = "change" /\ call[c].at = "commit")
      /\ ~(call'[c].op = "change" /\ call'[c].at = "commit")
  BY <1>2 DEF HubInv, HubTypes
<1>4. Changing' <=> Changing
  BY <1>3 DEF Changing
<1>5. ~row.started => UNCHANGED lock
  <2>1. lock = "free" => start.at = None
    BY DEF HubInv, LockHeld
  <2>2. ~row.started => ~(lock = "free" /\ node)
    BY <2>1 DEF HubInv, PasswordIsSet, None
  <2>3. lock = c => row.started
    BY DEF KeysInv, SetupIsAlone, Tab, Other
  <2> QED
    BY <1>1, <2>2, <2>3
<1> QED
  BY <1>1, <1>4, <1>5 DEF KeysInv, CacheIsRight, SetupIsAlone, SecretGoesWithKey, AllOpen, LeftBehind

(* A change begins with nothing cached and no start between check and      *)
(* launch; its commit puts all under the new password and drops the secret.*)
LEMMA ChangeHandlerKeys ==
    ASSUME HubInv, KeysInv, NEW old \in Passwords, NEW new \in Passwords, row.started,
           ChangePasswordHandler(Tab, old, new)
    PROVE  KeysInv'
<1>1. /\ node /\ checked' = {}
      /\ UNCHANGED <<entry, row, secret, loaded, node, lock, start, refilled, refused>>
  BY DEF ChangePasswordHandler, ChangeAccepted, tableVars, nodeVars, startVars
<1> QED
  BY <1>1 DEF KeysInv, CacheIsRight, SetupIsAlone, SecretGoesWithKey, AllOpen, LeftBehind

LEMMA ChangeCommitsKeys ==
    ASSUME HubInv, HubInv', KeysInv, NEW c \in Callers, ChangeCommits(c)
    PROVE  KeysInv'
<1>1. c = Tab /\ call[c].op = "change" /\ call[c].at = "commit" /\ Changing /\ row.started
      /\ call[c].new \in Passwords /\ entry["check"] # None
  BY DEF ChangeCommits, HubInv, CallsAllowed, PasswordIsSet, Changing, Tab, Other
<1>2. /\ UNCHANGED <<row, checked, loaded, node, lock, start, refilled, refused>>
      /\ \/ entry' = [k \in Keys |-> IF k = "jwt" \/ entry[k] = None THEN None ELSE call[c].new]
         \/ UNCHANGED entry
  BY DEF ChangeCommits, nodeVars, startVars
<1>3. CacheIsRight'
  BY <1>1, <1>2 DEF KeysInv, CacheIsRight
<1>4. AllOpen'
  <2>1. CASE entry' = [k \in Keys |-> IF k = "jwt" \/ entry[k] = None THEN None ELSE call[c].new]
    BY <1>1, <2>1 DEF AllOpen, Keys
  <2>2. CASE UNCHANGED entry
    BY <1>2, <2>2 DEF KeysInv, AllOpen, LeftBehind
  <2> QED
    BY <1>2, <2>1, <2>2
<1> QED
  BY <1>1, <1>2, <1>3, <1>4 DEF KeysInv, SetupIsAlone, SecretGoesWithKey

LEMMA ChangeResetsKeys ==
    ASSUME HubInv, KeysInv, NEW c \in Callers, ChangeResets(c)
    PROVE  KeysInv'
<1>1. /\ call[c].op = "change" /\ call[c].at = "reset" /\ row.started
      /\ UNCHANGED <<entry, row, checked, node, lock, start, refilled, refused>>
      /\ call' = [call EXCEPT ![c] = [@ EXCEPT !.at = "stop"]]
  BY DEF ChangeResets, HubInv, CallsAllowed, Tab, Other, tableVars, nodeVars, startVars
<1>2. Changing' => Changing
  BY <1>1 DEF Changing, HubInv, HubTypes, CallType
<1> QED
  BY <1>1, <1>2 DEF KeysInv, CacheIsRight, SetupIsAlone, SecretGoesWithKey, AllOpen, LeftBehind

(* A hub comes up with its table, or with that of a backup.                *)
LEMMA RestartKeys ==
    ASSUME HubInv, HubInv', KeysInv, Restart
    PROVE  KeysInv'
<1>1. /\ entry' = IF restore = None THEN entry ELSE [k \in Keys |-> IF k = "jwt" THEN None ELSE restore]
      /\ secret' = IF restore = None THEN secret ELSE 0
      /\ row' = IF restore = None THEN row ELSE [FreshRow EXCEPT !.backend = "LDK", !.started = TRUE]
      /\ checked' = {} /\ loaded' = 0 /\ node' = FALSE
      /\ call' = [c \in Callers |-> IF call[c].op = "idle" THEN Idle ELSE [Idle EXCEPT !.op = "failed"]]
      /\ lock' = IF row'.auto # None /\ row'.started THEN "boot" ELSE "free"
      /\ start' = IF row'.auto # None /\ row'.started THEN [at |-> "check", with |-> row'.auto] ELSE NotStarting
      /\ UNCHANGED <<refilled, refused>>
  BY DEF Restart
<1>2. /\ restore # None => row'.started /\ entry'["check"] = restore
      /\ restore = None => UNCHANGED <<row, entry, secret>>
  BY <1>1 DEF FreshRow, Keys
<1>3. start'.at \in {None, "check"} /\ (~row'.started => start'.at = None /\ lock' = "free")
  BY <1>1 DEF NotStarting
<1>4. ~Changing'
  BY <1>1 DEF Changing, Idle
<1>5. CacheIsRight'
  BY <1>1, <1>2, <1>3, <1>4 DEF KeysInv, CacheIsRight, None
<1>6. AllOpen'
  <2>1. CASE restore = None
    BY <1>1, <1>2, <1>3, <2>1 DEF KeysInv, AllOpen, LeftBehind, None
  <2>2. CASE restore # None
    BY <1>1, <1>2, <2>2 DEF AllOpen, Keys
  <2> QED
    BY <2>1, <2>2
<1> QED
  BY <1>1, <1>2, <1>3, <1>5, <1>6 DEF KeysInv, SetupIsAlone, SecretGoesWithKey, None

LEMMA OperationKeys ==
    ASSUME HubInv, HubInv', KeysInv, Operation
    PROVE  KeysInv'
<1>1. CASE \E p \in Passwords, b \in Maybe(Backends), m \in BOOLEAN : SetupAccepted(b) /\ Setup(p, b, m)
  BY <1>1, SetupKeys
<1>2. CASE \E p \in Maybe(Passwords) : StartHandler(p)
  BY <1>2, StartHandlerKeys
<1>3. ASSUME NEW p \in Maybe(Passwords), SetAutoUnlockPassword(p)
      PROVE  KeysInv'
  <2>1. UNCHANGED <<entry, row.started, secret, loaded, node, lock, start, Changing, refused>>
    BY <1>3 DEF SetAutoUnlockPassword, nodeVars, startVars, HubInv, HubTypes, RowType, Changing
  <2>2. CASE p = None /\ UNCHANGED <<checked, refilled>>
    BY <2>1, <2>2, KeysUnchanged DEF keyVars
  <2>3. CASE CheckUnlockPassword(p) /\ RememberCheck(p)
    BY <2>1, <2>3, PasswordCheckedKeys
  <2> QED
    BY <1>3, <2>2, <2>3 DEF SetAutoUnlockPassword, AutoUnlockAccepted
<1>4. ASSUME NEW p \in Passwords, PasswordChecked(p) \/ BackupHandler(Tab, p)
      PROVE  KeysInv'
  <2>1. /\ CheckUnlockPassword(p) /\ RememberCheck(p)
        /\ UNCHANGED <<entry, row, secret, loaded, node, lock, start, refused>>
    BY <1>4 DEF PasswordChecked, BackupHandler, BackupAccepted, tableVars, nodeVars, startVars
  <2>2. UNCHANGED Changing
    <3>1. CASE PasswordChecked(p)
      BY <3>1 DEF PasswordChecked, Changing
    <3>2. CASE BackupHandler(Tab, p)
      <4> DEFINE r == [Idle EXCEPT !.op = "backup", !.old = p, !.at = IF cancel = "none" THEN "archive" ELSE "wait"]
      <4>1. call[Tab].op = "idle" /\ call' = [call EXCEPT ![Tab] = r] /\ r.op = "backup"
        BY <3>2 DEF BackupHandler, Idle
      <4> HIDE DEF r
      <4>2. call'[Tab].op = "backup"
        BY <4>1 DEF HubInv, HubTypes, Tab
      <4>3. ~Changing /\ ~Changing'
        BY <4>1, <4>2 DEF HubInv, CallsAllowed, Changing, Tab, Other
      <4> QED
        BY <4>3 DEF Changing
    <3> QED
      BY <1>4, <3>1, <3>2
  <2> QED
    BY <2>1, <2>2, PasswordCheckedKeys
<1>5. ASSUME NEW p \in Passwords, RestoreBackup(p)
      PROVE  KeysInv'
  BY <1>5, KeysUnchanged DEF RestoreBackup, tableVars, nodeVars, startVars, keyVars, Changing
<1>6. CASE \E old, new \in Passwords : row.started /\ ChangePasswordHandler(Tab, old, new)
  BY <1>6, ChangeHandlerKeys
<1>7. CASE \E c \in Callers : StopHandler(c) \/ AnswerTaken(c)
  BY <1>7, CallKeys
<1>8. CASE AccountChanges
  <2>1. UNCHANGED <<entry, row.started, secret, loaded, checked, node, lock, start, Changing, refilled, refused>>
    BY <1>8 DEF AccountChanges, CallbackHandler, FetchUserToken, UnlinkAccount, nodeVars, startVars, HubInv,
                HubTypes, RowType, Changing
  <2> QED
    BY <2>1, KeysUnchanged DEF keyVars
<1>9. CASE HubSteps
  <2>1. CASE StartSteps
    BY <2>1, StartChecksKeys, KeysInitKeys, LaunchKeys, MarkKeys, StartEndsKeys DEF StartSteps
  <2>2. CASE StopLNClient \/ LNClientStopped
    BY <2>2, NodeStopsKeys
  <2>3. ASSUME NEW c \in Callers,
               \/ StopStep(c) \/ StopReturns(c) \/ ChangeCommits(c) \/ ChangeResets(c)
               \/ BackupStopped(c) \/ BackupArchives(c)
        PROVE  KeysInv'
    BY <2>3, CallKeys, ChangeCommitsKeys, ChangeResetsKeys
  <2> QED
    BY <1>9, <2>1, <2>2, <2>3 DEF HubSteps
<1>10. CASE Restart
  BY <1>10, RestartKeys
<1>11. CASE UNCHANGED hubVars
  BY <1>11, KeysUnchanged DEF hubVars, tableVars, nodeVars, startVars, keyVars, Changing
<1> QED
  BY <1>1, <1>2, <1>3, <1>4, <1>5, <1>6, <1>7, <1>8, <1>9, <1>10, <1>11 DEF Operation

LEMMA InitKeys == Init => KeysInv
<1> SUFFICES ASSUME Init PROVE KeysInv
  OBVIOUS
<1>1. start.at = None /\ ~refilled /\ lock = "free" /\ call = [c \in Callers |-> Idle]
  BY DEF Init, HubInit, HubInUse, NotStarting
<1>2. ~Changing
  BY <1>1 DEF Changing, Idle
<1>3. CASE HubInit
  BY <1>1, <1>3 DEF HubInit, EmptyTable, FreshRow, KeysInv, CacheIsRight, SetupIsAlone, SecretGoesWithKey,
                    AllOpen, Keys, None
<1>4. CASE HubInUse(HasAccount(errand))
  <2>1. PICK p \in Passwords : entry = [k \in Keys |-> p] /\ checked = {p}
    BY <1>4 DEF HubInUse
  <2>2. row.started
    BY <1>4 DEF HubInUse, FreshRow
  <2> QED
    BY <1>1, <1>2, <2>1, <2>2 DEF KeysInv, CacheIsRight, SetupIsAlone, SecretGoesWithKey, AllOpen, Keys, None
<1> QED
  BY <1>3, <1>4 DEF Init

(***************************************************************************)
(* A migration stops the node before it closes the database.               *)
(***************************************************************************)
stopVars == <<node, launched, doomed, closing, cancel, start, call[Tab], halted, overlap>>

LEMMA StopUnchanged ==
    ASSUME StopInv, UNCHANGED stopVars
    PROVE  StopInv'
BY DEF StopInv, NodeIsCounted, MigrationIsAlone, InStart, ToCancel, stopVars

(* A start that begins, when no migration is under way.                    *)
LEMMA StartHandlerStop ==
    ASSUME HubInv, StopInv, NEW p, StartHandler(p)
    PROVE  StopInv'
<1>1. /\ UNCHANGED <<node, launched, doomed, closing, cancel, call, halted>>
      /\ \/ /\ lock = "free" /\ start' = [at |-> "check", with |-> p]
            /\ overlap' = (overlap \/ halted \/ \E c \in Callers : call[c].op = "backup")
         \/ UNCHANGED <<start, overlap>>
  BY DEF StartHandler, nodeVars
<1>2. CASE UNCHANGED <<start, overlap>>
  BY <1>1, <1>2, StopUnchanged DEF stopVars
<1>3. CASE /\ lock = "free" /\ start' = [at |-> "check", with |-> p]
           /\ overlap' = (overlap \/ halted \/ \E c \in Callers : call[c].op = "backup")
  <2>1. ~overlap' => call[Tab].op # "backup" /\ ~halted
    BY <1>3 DEF Tab
  <2> QED
    BY <1>1, <1>3, <2>1 DEF StopInv, NodeIsCounted, MigrationIsAlone, InStart, ToCancel
<1> QED
  BY <1>1, <1>2, <1>3

(* A start that goes on, with a node or without.                           *)
LEMMA StartStepsStop ==
    ASSUME HubInv, StopInv, StartSteps
    PROVE  StopInv'
<1>1. start.at # None /\ UNCHANGED <<closing, call, halted, overlap>>
  BY DEF StartSteps, StartChecks, KeysInit, LaunchLNBackend, MarkStarted, StartEnds, nodeVars, None
<1>2. overlap \/ ~(call[Tab].op = "backup" \/ halted)
  BY <1>1 DEF StopInv, MigrationIsAlone
<1>3. NodeIsCounted'
  <2>1. StartFails => start'.at = None
    BY FailedStart
  <2>2. start \in StartType
    BY DEF HubInv, HubTypes
  <2>3. CASE StartChecks \/ KeysInit
    <3>1. UNCHANGED <<node, launched, doomed, closing, cancel>> /\ start.at \in {"check", "keys"}
      BY <2>3 DEF StartChecks, KeysInit, nodeVars
    <3>2. start'.at \in {None, "keys", "launch"}
      BY <2>1, <2>2, <2>3 DEF StartChecks, KeysInit, StartType
    <3> QED
      BY <3>1, <3>2 DEF StopInv, NodeIsCounted, InStart, ToCancel, None
  <2>4. CASE MarkStarted
    BY <2>2, <2>4 DEF MarkStarted, StartType, nodeVars, StopInv, NodeIsCounted, InStart, ToCancel
  <2>5. CASE LaunchLNBackend
    <3>1. launched' = launched + 1 /\ start.at = "launch" /\ UNCHANGED <<closing, cancel>>
      BY <2>5 DEF LaunchLNBackend
    <3>2. CASE node' = TRUE /\ start' = [start EXCEPT !.at = "mark"] /\ UNCHANGED doomed
      BY <2>2, <3>1, <3>2 DEF StartType, StopInv, NodeIsCounted, InStart, ToCancel
    <3>3. CASE doomed' = doomed + 1 /\ StartFails /\ UNCHANGED node
      BY <2>1, <3>1, <3>3 DEF StopInv, NodeIsCounted, InStart, ToCancel, None
    <3> QED
      BY <2>5, <3>2, <3>3 DEF LaunchLNBackend
  <2>6. CASE StartEnds
    <3>1. start.at = "relays" /\ UNCHANGED <<node, launched, closing>>
      BY <2>6 DEF StartEnds
    <3>2. CASE cancel' = "live" /\ start' = NotStarting /\ UNCHANGED doomed
      BY <3>1, <3>2 DEF NotStarting, StopInv, NodeIsCounted, InStart, ToCancel, None
    <3>3. CASE doomed' = doomed + 1 /\ StartFails /\ UNCHANGED cancel
      BY <2>1, <3>1, <3>3 DEF StopInv, NodeIsCounted, InStart, ToCancel, None
    <3> QED
      BY <2>6, <3>2, <3>3 DEF StartEnds
  <2> QED
    BY <2>3, <2>4, <2>5, <2>6 DEF StartSteps
<1> QED
  BY <1>1, <1>2, <1>3 DEF StopInv, MigrationIsAlone

(* StopApp cancels a goroutine that was not canceled before.               *)
LEMMA CancelCounts ==
    ASSUME NodeIsCounted, CancelApp \/ UNCHANGED <<doomed, cancel>>, UNCHANGED <<node, launched, closing, start>>
    PROVE  NodeIsCounted'
BY DEF NodeIsCounted, CancelApp, InStart, ToCancel

(* The goroutines that are canceled end, with the node or without.         *)
LEMMA NodeStops ==
    ASSUME StopInv, StopLNClient \/ LNClientStopped
    PROVE  StopInv'
<1>1. UNCHANGED <<cancel, start, call, halted, overlap>>
  BY DEF StopLNClient, LNClientStopped, startVars
<1>2. CASE StopLNClient
  <2>1. /\ doomed > 0 /\ node' = FALSE /\ doomed' = doomed - 1
        /\ \/ closing' = closing + 1 /\ UNCHANGED launched
           \/ launched' = launched - 1 /\ UNCHANGED closing
    BY <1>2 DEF StopLNClient
  <2> QED
    BY <1>1, <2>1 DEF StopInv, NodeIsCounted, MigrationIsAlone, InStart, ToCancel
<1>3. CASE LNClientStopped
  <2>1. closing > 0 /\ closing' = closing - 1 /\ launched' = launched - 1 /\ UNCHANGED <<node, doomed>>
    BY <1>3 DEF LNClientStopped
  <2> QED
    BY <1>1, <2>1 DEF StopInv, NodeIsCounted, MigrationIsAlone, InStart, ToCancel
<1> QED
  BY <1>2, <1>3

(* A migration that begins waits for the node, or overtakes a start.       *)
LEMMA BackupHandlerStop ==
    ASSUME HubInv, StopInv, NEW p, BackupHandler(Tab, p)
    PROVE  StopInv'
<1> DEFINE r == [Idle EXCEPT !.op = "backup", !.old = p, !.at = IF cancel = "none" THEN "archive" ELSE "wait"]
<1>1. /\ CancelApp /\ UNCHANGED <<node, launched, closing, start, halted>>
      /\ call' = [call EXCEPT ![Tab] = r]
      /\ overlap' = (overlap \/ start.at # None \/ cancel = "none")
  BY DEF BackupHandler, startVars
<1>2. r.at = (IF cancel = "none" THEN "archive" ELSE "wait")
  BY DEF Idle
<1> HIDE DEF r
<1>3. call'[Tab] = r
  BY <1>1 DEF HubInv, HubTypes, Tab
<1>4. NodeIsCounted'
  BY <1>1, CancelCounts DEF StopInv
<1> QED
  BY <1>1, <1>2, <1>3, <1>4 DEF StopInv, MigrationIsAlone

(* The steps of requests.                                                  *)
LEMMA CallStop ==
    ASSUME HubInv, StopInv, NEW c \in Callers,
           \/ StopHandler(c) \/ StopStep(c) \/ StopReturns(c) \/ AnswerTaken(c)
           \/ ChangeCommits(c) \/ ChangeResets(c) \/ BackupStopped(c) \/ BackupArchives(c)
    PROVE  StopInv'
<1>1. /\ UNCHANGED <<node, launched, closing, start, overlap>>
      /\ CancelApp \/ UNCHANGED <<doomed, cancel>>
  <2>1. CASE StopHandler(c) \/ StopReturns(c) \/ AnswerTaken(c) \/ ChangeCommits(c)
    BY <2>1 DEF StopHandler, StopReturns, AnswerTaken, ChangeCommits, nodeVars, startVars
  <2>2. CASE ChangeResets(c) \/ BackupStopped(c) \/ BackupArchives(c)
    BY <2>2 DEF ChangeResets, BackupStopped, BackupArchives, nodeVars, startVars
  <2>3. CASE StopStep(c)
    BY <2>3 DEF StopStep, StopBegins
  <2> QED
    BY <2>1, <2>2, <2>3
<1>2. NodeIsCounted'
  BY <1>1, CancelCounts DEF StopInv
<1>3. /\ call'[Tab].op = "backup" => /\ call[Tab].op = "backup"
                                     /\ call'[Tab].at = "archive" => launched = 0 \/ UNCHANGED call[Tab]
      /\ halted' => halted \/ (call[Tab].op = "backup" /\ call[Tab].at = "archive")
  <2> USE DEF HubInv, HubTypes, CallType, Idle, Finish
  <2>1. CASE StopHandler(c)
    BY <2>1 DEF StopHandler, startVars
  <2>2. CASE StopReturns(c)
    BY <2>2 DEF StopReturns
  <2>3. CASE AnswerTaken(c)
    BY <2>3 DEF AnswerTaken
  <2>4. CASE ChangeCommits(c) \/ ChangeResets(c)
    BY <2>4 DEF ChangeCommits, ChangeResets
  <2>5. CASE StopStep(c)
    BY <2>5 DEF StopStep, StopBegins
  <2>6. CASE BackupStopped(c)
    BY <2>6 DEF BackupStopped, Stopped
  <2>7. CASE BackupArchives(c)
    BY <2>7 DEF BackupArchives, CallsAllowed, Tab, Other
  <2> QED
    BY <2>1, <2>2, <2>3, <2>4, <2>5, <2>6, <2>7
<1> QED
  BY <1>1, <1>2, <1>3 DEF StopInv, MigrationIsAlone

LEMMA RestartStop ==
    ASSUME HubInv, StopInv, Restart
    PROVE  StopInv'
<1>1. /\ node' = FALSE /\ launched' = 0 /\ doomed' = 0 /\ closing' = 0 /\ cancel' = "none" /\ halted' = FALSE
      /\ start' = IF row'.auto # None /\ row'.started THEN [at |-> "check", with |-> row'.auto] ELSE NotStarting
      /\ call' = [c \in Callers |-> IF call[c].op = "idle" THEN Idle ELSE [Idle EXCEPT !.op = "failed"]]
  BY DEF Restart
<1>2. start'.at \in {None, "check"} /\ call'[Tab].op # "backup"
  BY <1>1 DEF NotStarting, Idle, Tab
<1> QED
  BY <1>1, <1>2 DEF StopInv, NodeIsCounted, MigrationIsAlone, InStart, ToCancel, None

LEMMA OperationStop ==
    ASSUME HubInv, StopInv, Operation
    PROVE  StopInv'
<1>1. ASSUME NEW p \in Passwords, NEW b \in Maybe(Backends), NEW m \in BOOLEAN, Setup(p, b, m)
      PROVE  StopInv'
  BY <1>1, StopUnchanged DEF Setup, nodeVars, startVars, stopVars
<1>2. CASE \E p \in Maybe(Passwords) : StartHandler(p)
  BY <1>2, StartHandlerStop
<1>3. ASSUME NEW p \in Maybe(Passwords), SetAutoUnlockPassword(p) \/ PasswordChecked(p) \/ RestoreBackup(p)
      PROVE  StopInv'
  BY <1>3, StopUnchanged DEF SetAutoUnlockPassword, PasswordChecked, RestoreBackup, nodeVars, startVars, stopVars
<1>4. CASE \E p \in Passwords : row.started /\ BackupHandler(Tab, p)
  BY <1>4, BackupHandlerStop
<1>5. ASSUME NEW old \in Passwords, NEW new \in Passwords, ChangePasswordHandler(Tab, old, new)
      PROVE  StopInv'
  <2>1. call'[Tab].op = "change" /\ UNCHANGED <<node, launched, doomed, closing, cancel, start, halted, overlap>>
    BY <1>5 DEF ChangePasswordHandler, nodeVars, startVars, HubInv, HubTypes, Tab
  <2> QED
    BY <2>1 DEF StopInv, NodeIsCounted, MigrationIsAlone, InStart, ToCancel
<1>6. CASE \E c \in Callers : StopHandler(c) \/ AnswerTaken(c)
  BY <1>6, CallStop
<1>7. CASE AccountChanges
  BY <1>7, StopUnchanged DEF AccountChanges, CallbackHandler, FetchUserToken, UnlinkAccount, nodeVars, startVars,
                             stopVars
<1>8. CASE HubSteps
  BY <1>8, StartStepsStop, NodeStops, CallStop DEF HubSteps
<1>9. CASE Restart
  BY <1>9, RestartStop
<1>10. CASE UNCHANGED hubVars
  BY <1>10, StopUnchanged DEF hubVars, nodeVars, startVars, stopVars
<1> QED
  BY <1>1, <1>2, <1>3, <1>4, <1>5, <1>6, <1>7, <1>8, <1>9, <1>10 DEF Operation, Maybe

LEMMA InitStop == Init => StopInv
<1> SUFFICES ASSUME Init PROVE StopInv
  OBVIOUS
<1>1. /\ start.at = None /\ ~halted /\ doomed = 0 /\ closing = 0 /\ call[Tab].op = "idle"
      /\ \/ launched = 0 /\ node = FALSE /\ cancel = "none"
         \/ launched = 1 /\ node = TRUE /\ cancel = "live"
  BY DEF Init, HubInit, HubInUse, NotStarting, Idle, Tab
<1> QED
  BY <1>1 DEF StopInv, NodeIsCounted, MigrationIsAlone, InStart, ToCancel, None

(***************************************************************************)
(* The types of what the other invariants do not need: the counters within *)
(* their bounds, what is cached, and the screens.                          *)
(***************************************************************************)

(* A start that holds the lock has its place among the failed ones.        *)
CountTypes ==
    /\ drawn \in 0..MaxSecrets /\ checked \subseteq Passwords
    /\ cancel \in {"none", "live", "stale"}
    /\ lock \in {"free", "start", "boot"} \cup Callers
    /\ failures \in Nat /\ failures + (IF lock = "start" THEN 1 ELSE 0) <= MaxFailures
    /\ startupError \in BOOLEAN /\ {overlap, refilled, refused} \subseteq BOOLEAN
    /\ boots \in 0..MaxBoots

LEMMA CountUnchanged ==
    ASSUME CountTypes, UNCHANGED <<drawn, cancel, lock, failures, startupError, overlap, refused, boots>>,
           checked' \subseteq checked \cup Passwords, refilled' \in BOOLEAN
    PROVE  CountTypes' /\ drawn <= drawn'
BY DEF CountTypes

LEMMA RememberTyped ==
    ASSUME KeysInv, HubInv, CountTypes, NEW p, CheckUnlockPassword(p), RememberCheck(p)
    PROVE  p \in Passwords /\ checked' \subseteq checked \cup Passwords /\ refilled' \in BOOLEAN
<1>1. p \in Passwords
  <2>1. p # None
    BY CheckIsRight
  <2>2. entry["check"] \in Maybe(Passwords)
    BY DEF HubInv, HubTypes, Keys
  <2> QED
    BY <2>1, <2>2 DEF CheckUnlockPassword, CountTypes, Maybe
<1> QED
  BY <1>1 DEF RememberCheck, CountTypes, Changing

LEMMA DrawnTyped ==
    ASSUME CountTypes, NEW p, LoadJWTSecret(p)
    PROVE  drawn' \in 0..MaxSecrets /\ drawn <= drawn'
BY DEF CountTypes, LoadJWTSecret

(* A start that fails takes the place it has kept.                         *)
LEMMA FailsTyped ==
    ASSUME CountTypes, StartFails
    PROVE  /\ lock' = "free" /\ startupError' \in BOOLEAN
           /\ failures' \in Nat /\ failures' <= MaxFailures
<1>1. failures \in Nat /\ MaxFailures \in Nat /\ failures + (IF lock = "start" THEN 1 ELSE 0) <= MaxFailures
  BY DEF CountTypes
<1>2. CASE lock = "boot" /\ UNCHANGED <<failures, startupError>>
  BY <1>1, <1>2 DEF CountTypes, StartFails
<1>3. CASE lock = "start" /\ failures' = failures + 1 /\ startupError' = TRUE
  <2>1. failures + 1 <= MaxFailures
    BY <1>1, <1>3
  <2> QED
    BY <1>1, <1>3, <2>1 DEF StartFails
<1> QED
  BY <1>2, <1>3 DEF StartFails

LEMMA StartHandlerTyped ==
    ASSUME HubInv, KeysInv, CountTypes, NEW p, StartHandler(p)
    PROVE  CountTypes' /\ drawn <= drawn'
<1>1. /\ drawn' \in 0..MaxSecrets /\ drawn <= drawn'
      /\ checked' \subseteq Passwords /\ refilled' \in BOOLEAN
  BY DrawnTyped, RememberTyped DEF StartHandler, StartAccepted, CountTypes
<1>2. lock' \in {"free", "start", "boot"} \cup Callers /\ startupError' \in BOOLEAN /\ overlap' \in BOOLEAN
  BY DEF StartHandler, CountTypes, HubInv, HubTypes
<1>3. failures' \in Nat /\ failures' + (IF lock' = "start" THEN 1 ELSE 0) <= MaxFailures
  BY DEF StartHandler, CountTypes
<1> QED
  BY <1>1, <1>2, <1>3 DEF StartHandler, CountTypes, nodeVars

LEMMA StartStepsTyped ==
    ASSUME HubInv, KeysInv, CountTypes, StartSteps
    PROVE  CountTypes' /\ drawn <= drawn'
<1>1. CASE StartChecks
  <2>1. CASE /\ StartAllowed /\ LoadJWTSecret(start.with) /\ RememberCheck(start.with)
             /\ UNCHANGED <<lock, failures, startupError, refused>>
    <3>1. /\ drawn' \in 0..MaxSecrets /\ drawn <= drawn'
          /\ checked' \subseteq Passwords /\ refilled' \in BOOLEAN
      BY <2>1, DrawnTyped, RememberTyped DEF StartAllowed, CountTypes
    <3> QED
      BY <1>1, <2>1, <3>1 DEF StartChecks, CountTypes, nodeVars
  <2>2. CASE /\ StartFails /\ refused' = (refused \/ (~row.started /\ AccountMissing))
             /\ UNCHANGED <<entry, secret, drawn, loaded, checked, refilled>>
    BY <1>1, <2>2, FailsTyped DEF StartChecks, CountTypes, nodeVars
  <2> QED
    BY <1>1, <2>1, <2>2 DEF StartChecks
<1>2. CASE KeysInit
  <2>1. CASE StartFails
    BY <1>2, <2>1, FailsTyped DEF KeysInit, CountTypes, nodeVars
  <2>2. CASE UNCHANGED <<lock, failures, startupError>>
    BY <1>2, <2>2 DEF KeysInit, CountTypes, nodeVars
  <2> QED
    BY <1>2, <2>1, <2>2 DEF KeysInit
<1>3. CASE LaunchLNBackend
  <2>1. CASE StartFails
    BY <1>3, <2>1, FailsTyped DEF LaunchLNBackend, CountTypes, tableVars
  <2>2. CASE UNCHANGED <<lock, failures, startupError>>
    BY <1>3, <2>2 DEF LaunchLNBackend, CountTypes, tableVars
  <2> QED
    BY <1>3, <2>1, <2>2 DEF LaunchLNBackend
<1>4. CASE MarkStarted
  BY <1>4 DEF MarkStarted, CountTypes, nodeVars
<1>5. CASE StartEnds
  <2>1. CASE StartFails /\ UNCHANGED cancel
    BY <1>5, <2>1, FailsTyped DEF StartEnds, CountTypes, tableVars
  <2>2. CASE cancel' = "live" /\ lock' = "free" /\ UNCHANGED <<failures, startupError>>
    BY <1>5, <2>2 DEF StartEnds, CountTypes, tableVars
  <2> QED
    BY <1>5, <2>1, <2>2 DEF StartEnds
<1> QED
  BY <1>1, <1>2, <1>3, <1>4, <1>5 DEF StartSteps

LEMMA CallTyped ==
    ASSUME HubInv, CountTypes, NEW c \in Callers,
           \/ StopHandler(c) \/ AnswerTaken(c) \/ StopStep(c) \/ StopReturns(c)
           \/ ChangeCommits(c) \/ ChangeResets(c) \/ BackupStopped(c) \/ BackupArchives(c)
    PROVE  CountTypes' /\ drawn <= drawn'
<1>1. CASE StopHandler(c) \/ AnswerTaken(c) \/ ChangeResets(c) \/ BackupStopped(c)
  BY <1>1, CountUnchanged DEF StopHandler, AnswerTaken, ChangeResets, BackupStopped, CountTypes,
                              tableVars, nodeVars, startVars
<1>2. CASE ChangeCommits(c) \/ BackupArchives(c)
  BY <1>2, CountUnchanged DEF ChangeCommits, BackupArchives, CountTypes, nodeVars, startVars
<1>3. CASE StopStep(c)
  <2>1. /\ lock' \in {lock, c} /\ (lock' # lock => lock = "free") /\ cancel' \in {cancel, "stale"}
        /\ UNCHANGED <<drawn, failures, startupError, overlap, refused, boots, checked, refilled>>
    BY <1>3 DEF StopStep, StopBegins, CancelApp, tableVars
  <2>2. c # "start"
    BY DEF Tab, Other
  <2> QED
    BY <2>1, <2>2 DEF CountTypes
<1>4. CASE StopReturns(c)
  BY <1>4 DEF StopReturns, CountTypes, tableVars, nodeVars
<1> QED
  BY <1>1, <1>2, <1>3, <1>4

LEMMA OperationTyped ==
    ASSUME HubInv, KeysInv, CountTypes, Operation
    PROVE  CountTypes' /\ drawn <= drawn'
<1>1. CASE \E p \in Passwords, b \in Maybe(Backends), m \in BOOLEAN : SetupAccepted(b) /\ Setup(p, b, m)
  BY <1>1, CountUnchanged DEF Setup, nodeVars, startVars, CountTypes
<1>2. CASE \E p \in Maybe(Passwords) : StartHandler(p)
  BY <1>2, StartHandlerTyped
<1>3. ASSUME NEW p \in Maybe(Passwords), SetAutoUnlockPassword(p)
      PROVE  CountTypes' /\ drawn <= drawn'
  <2>1. checked' \subseteq checked \cup Passwords /\ refilled' \in BOOLEAN
    BY <1>3, RememberTyped DEF SetAutoUnlockPassword, AutoUnlockAccepted, CountTypes
  <2> QED
    BY <1>3, <2>1, CountUnchanged DEF SetAutoUnlockPassword, nodeVars, startVars
<1>4. ASSUME NEW p \in Passwords, PasswordChecked(p)
      PROVE  CountTypes' /\ drawn <= drawn'
  BY <1>4, RememberTyped, CountUnchanged DEF PasswordChecked, tableVars, nodeVars, startVars
<1>5. ASSUME NEW p \in Passwords, BackupHandler(Tab, p)
      PROVE  CountTypes' /\ drawn <= drawn'
  <2>1. checked' \subseteq Passwords /\ refilled' \in BOOLEAN
    BY <1>5, RememberTyped DEF BackupHandler, BackupAccepted, CountTypes
  <2>2. cancel' \in {cancel, "stale"} /\ overlap' \in BOOLEAN
    BY <1>5 DEF BackupHandler, CancelApp, CountTypes
  <2> QED
    BY <1>5, <2>1, <2>2 DEF BackupHandler, CountTypes, tableVars, startVars
<1>6. CASE \/ \E p \in Passwords : RestoreBackup(p)
           \/ \E old, new \in Passwords : ChangePasswordHandler(Tab, old, new)
           \/ AccountChanges
  <2> DEFINE Same == /\ UNCHANGED <<drawn, cancel, lock, failures, startupError, overlap, refused, boots, refilled>>
                     /\ checked' \subseteq checked
  <2>1. ASSUME NEW p, RestoreBackup(p)
        PROVE  Same
    BY <2>1 DEF RestoreBackup, tableVars, nodeVars, startVars
  <2>2. ASSUME NEW old, NEW new, ChangePasswordHandler(Tab, old, new)
        PROVE  Same
    BY <2>2 DEF ChangePasswordHandler, tableVars, nodeVars, startVars
  <2>3. ASSUME AccountChanges
        PROVE  Same
    <3>1. ASSUME NEW same, CallbackHandler(same)
          PROVE  Same
      BY <3>1 DEF CallbackHandler, nodeVars, startVars
    <3>2. ASSUME FetchUserToken \/ UnlinkAccount
          PROVE  Same
      BY <3>2 DEF FetchUserToken, UnlinkAccount, nodeVars, startVars
    <3> QED
      BY <2>3, <3>1, <3>2 DEF AccountChanges
  <2>4. Same
    BY <1>6, <2>1, <2>2, <2>3
  <2> QED
    BY <2>4 DEF CountTypes
<1>7. CASE \E c \in Callers : StopHandler(c) \/ AnswerTaken(c)
  BY <1>7, CallTyped
<1>8. CASE HubSteps
  <2>1. CASE StopLNClient \/ LNClientStopped
    BY <2>1, CountUnchanged DEF StopLNClient, LNClientStopped, tableVars, startVars, CountTypes
  <2>2. ASSUME NEW c \in Callers,
               \/ StopStep(c) \/ StopReturns(c) \/ ChangeCommits(c) \/ ChangeResets(c)
               \/ BackupStopped(c) \/ BackupArchives(c)
        PROVE  CountTypes' /\ drawn <= drawn'
    BY <2>2, CallTyped
  <2> QED
    BY <1>8, <2>1, <2>2, StartStepsTyped DEF HubSteps
<1>9. CASE Restart
  <2>1. /\ UNCHANGED <<drawn, failures, refilled, refused>> /\ checked' = {} /\ cancel' = "none"
        /\ lock' \in {"free", "boot"} /\ startupError' = FALSE /\ overlap' = FALSE
        /\ boots < MaxBoots /\ boots' = boots + 1
    BY <1>9 DEF Restart
  <2>2. failures' \in Nat /\ failures' + (IF lock' = "start" THEN 1 ELSE 0) <= MaxFailures
    <3>1. failures \in Nat /\ failures <= MaxFailures /\ MaxFailures \in Nat
      BY DEF CountTypes
    <3> QED
      BY <2>1, <3>1
  <2>3. boots' \in 0..MaxBoots /\ drawn' \in 0..MaxSecrets /\ drawn <= drawn'
    BY <2>1 DEF CountTypes
  <2>4. {overlap', refilled', refused'} \subseteq BOOLEAN /\ startupError' \in BOOLEAN
    BY <2>1 DEF CountTypes
  <2> QED
    BY <2>1, <2>2, <2>3, <2>4 DEF CountTypes
<1>10. CASE UNCHANGED hubVars
  BY <1>10, CountUnchanged DEF hubVars, tableVars, nodeVars, startVars, CountTypes
<1> QED
  BY <1>1, <1>2, <1>3, <1>4, <1>5, <1>6, <1>7, <1>8, <1>9, <1>10 DEF Operation

LEMMA CountsTyped ==
    ASSUME ServiceInv, CountTypes
    PROVE  HubTypeOK
<1>1. HubInv /\ NodeIsCounted
  BY DEF ServiceInv, Inv, StopInv
<1>2. launched \in Nat /\ doomed \in 0..launched /\ closing \in 0..(launched - doomed)
  BY <1>1 DEF NodeIsCounted, InStart, ToCancel
<1>3. checked \in SUBSET Passwords /\ failures \in 0..MaxFailures
  BY DEF CountTypes
<1> QED
  BY <1>1, <1>2, <1>3 DEF HubTypeOK, HubInv, HubTypes, SecretsInOrder, CountTypes, RowType, StartType,
                          CallType

(***************************************************************************)
(* The types of the screens.                                               *)
(***************************************************************************)
WaitType == {"no", "start", "starting", "failed", "restored", "mnemonic"}
InfoType == [halted : BOOLEAN, completed : BOOLEAN, running : BOOLEAN, unlocked : BOOLEAN,
             auto : BOOLEAN, account : BOOLEAN, connected : BOOLEAN,
             backend : Maybe(Backends), failures : 0..MaxFailures]

ScreenTypes ==
    /\ page \in Pages /\ wait \in WaitType /\ info \in InfoType
    /\ {token, apiToken} \subseteq 0..drawn
    /\ returnTo \in Maybe(InnerPages)
    /\ errand \in Errands

(* What a screen has to take care of: a token it is given is a secret of   *)
(* the hub.                                                                *)
Moves ==
    /\ page' \in Pages /\ wait' \in WaitType /\ info' \in InfoType
    /\ token' \in {token, loaded, loaded'} /\ apiToken' \in {apiToken, loaded}
    /\ returnTo' \in Maybe(InnerPages)
    /\ UNCHANGED errand

LEMMA MovesTyped ==
    ASSUME HubInv, HubInv', ScreenTypes, CountTypes, CountTypes', drawn <= drawn', Moves
    PROVE  ScreenTypes'
<1>1. /\ loaded \in 0..drawn /\ loaded' \in 0..drawn' /\ {token, apiToken} \subseteq 0..drawn
      /\ drawn \in Nat /\ drawn' \in Nat
  BY DEF HubInv, SecretsInOrder, ScreenTypes, CountTypes
<1>2. {token', apiToken'} \subseteq 0..drawn'
  BY <1>1 DEF Moves
<1> QED
  BY <1>2 DEF Moves, ScreenTypes

LEMMA PagesIn ==
    /\ InnerPages \subseteq Pages /\ SetupPages \subseteq Pages /\ OuterPages \subseteq Pages
    /\ PasswordPages \subseteq SetupPages /\ NodePages \subseteq SetupPages
    /\ {"setup/alby", "setup/auth", "advanced", "import-mnemonic", "node", "security",
        "node-restore", "finish"} \subseteq SetupPages
    /\ \A b \in Backends : NodePage[b] \in Pages
    /\ None \notin InnerPages /\ None \notin PasswordPages \cup {"advanced"}
<1>1. /\ InnerPages \subseteq Pages /\ SetupPages \subseteq Pages /\ OuterPages \subseteq Pages
  BY DEF Pages
<1>2. /\ PasswordPages \subseteq SetupPages /\ NodePages \subseteq SetupPages
      /\ {"setup/alby", "setup/auth", "advanced", "import-mnemonic", "node", "security",
          "node-restore", "finish"} \subseteq SetupPages
  BY DEF SetupPages
<1>3. \A b \in Backends : NodePage[b] \in NodePages
  BY DEF NodePage, NodePages, Backends, HasMnemonic
<1>4. None \notin InnerPages /\ None \notin PasswordPages \cup {"advanced"}
  BY DEF None, InnerPages, SettingsPages, PasswordPages
<1> QED
  BY <1>1, <1>2, <1>3, <1>4

LEMMA ErrandPages == \A e \in Errands : ErrandTable[e].pages \subseteq Pages
<1> DEFINE Opened == {"node-restore", "settings/change-unlock-password", "settings/node-migrate",
                      "settings/developer", "settings/auto-unlock", "settings/alby-account",
                      "alby/account", "settings", "settings/node", "wallet/node-alias",
                      "settings/backup", "settings/debug-tools"}
<1>1. /\ ErrandTable["setup"].pages \subseteq Opened /\ ErrandTable["othernode"].pages \subseteq Opened
      /\ ErrandTable["restore"].pages \subseteq Opened /\ ErrandTable["cloud"].pages \subseteq Opened
      /\ ErrandTable["password"].pages \subseteq Opened /\ ErrandTable["migrate"].pages \subseteq Opened
      /\ ErrandTable["developer"].pages \subseteq Opened /\ ErrandTable["auto"].pages \subseteq Opened
      /\ ErrandTable["account"].pages \subseteq Opened
      /\ ErrandTable["preferences"].pages \subseteq Opened
      /\ ErrandTable["repair"].pages \subseteq Opened
  BY DEF ErrandTable, Plain
<1>2. DOMAIN ErrandTable = {"setup", "othernode", "restore", "cloud", "password", "migrate", "developer",
                            "auto", "account", "preferences", "repair"}
  BY DEF ErrandTable
<1>3. Opened \subseteq Pages
  BY DEF Pages, InnerPages, SettingsPages, SetupPages, OuterPages
<1> HIDE DEF Opened
<1>4. \A e \in DOMAIN ErrandTable : ErrandTable[e].pages \subseteq Opened
  BY <1>1, <1>2
<1> QED
  BY <1>3, <1>4

(* What /api/info answers.                                                 *)
LEMMA InfoTyped ==
    ASSUME HubInv, CountTypes, NEW t
    PROVE  Info(t) \in InfoType
<1>1. /\ row \in RowType /\ node \in BOOLEAN /\ halted \in BOOLEAN /\ startupError \in BOOLEAN
      /\ failures \in Nat /\ failures <= MaxFailures
  BY DEF HubInv, HubTypes, CountTypes
<1>2. (IF startupError THEN failures ELSE 0) \in 0..MaxFailures
  BY <1>1
<1>3. /\ row.started \in BOOLEAN /\ row.backend \in Maybe(Backends)
      /\ row.account \in BOOLEAN /\ row.connected \in BOOLEAN
  BY <1>1 DEF RowType
<1>4. None \in Maybe(Backends) /\ 0 \in 0..MaxFailures
  BY DEF Maybe
<1> QED
  BY <1>1, <1>2, <1>3, <1>4 DEF Info, InfoType, SetupCompleted

LEMMA NewInfoTyped ==
    ASSUME HubInv', CountTypes'
    PROVE  Info(token)' \in InfoType
<1>1. /\ row' \in RowType /\ node' \in BOOLEAN /\ halted' \in BOOLEAN /\ startupError' \in BOOLEAN
      /\ failures' \in Nat /\ failures' <= MaxFailures
  BY DEF HubInv, HubTypes, CountTypes
<1>2. (IF startupError' THEN failures' ELSE 0) \in 0..MaxFailures
  BY <1>1
<1>3. /\ row'.started \in BOOLEAN /\ row'.backend \in Maybe(Backends)
      /\ row'.account \in BOOLEAN /\ row'.connected \in BOOLEAN
  BY <1>1 DEF RowType
<1>4. None \in Maybe(Backends) /\ 0 \in 0..MaxFailures
  BY DEF Maybe
<1> QED
  BY <1>1, <1>2, <1>3, <1>4 DEF Info, InfoType, SetupCompleted

(***************************************************************************)
(* The redirects come to rest.                                             *)
(***************************************************************************)
Places == [page : Pages, returnTo : Maybe(InnerPages),
           setupReturnTo : Maybe(PasswordPages \cup {"advanced"})]

(* Where a page sends the user.                                            *)
LEMMA Targets ==
    ASSUME info \in InfoType, NEW l \in Places
    PROVE  /\ Followed(l) \in Places
           /\ l.page = "/" => /\ Followed(l).page = HomeRedirect(info, l.returnTo, l.setupReturnTo)
                              /\ Followed(l).page # "/"
           /\ l.page # "/" /\ Followed(l).page \notin {l.page, "/"} =>
                 l.page = "start" /\ Followed(l).page = StartRedirect(info)
           /\ l.page # "/" /\ Followed(l).page = l.page => Followed(l) = l
<1> DEFINE to == Target(l.page, info, l.returnTo, l.setupReturnTo)
<1>1. /\ l.page \in Pages /\ l.returnTo \in Maybe(InnerPages)
      /\ l.setupReturnTo \in Maybe(PasswordPages \cup {"advanced"})
      /\ l = [page |-> l.page, returnTo |-> l.returnTo, setupReturnTo |-> l.setupReturnTo]
  BY DEF Places
<1>2. CASE l.page = "/"
  <2>1. to = HomeRedirect(info, l.returnTo, l.setupReturnTo)
    BY <1>2 DEF Target, InnerPages, SettingsPages, SetupPages, PasswordPages, NodePages
  <2>2. to \in Pages /\ to # "/"
    <3>1. \/ to \in {"create-node-migration-file-success", "start", "unlock", "alby/auth", "welcome", "intro"}
          \/ to = "home"
          \/ to = l.setupReturnTo /\ l.setupReturnTo # None
          \/ to = l.returnTo /\ l.returnTo # None
      BY <2>1 DEF HomeRedirect, InfoType
    <3>2. {"create-node-migration-file-success", "start", "unlock", "alby/auth", "welcome", "intro"}
             \subseteq OuterPages
      BY DEF OuterPages
    <3>3. "home" \in InnerPages /\ "/" \notin InnerPages /\ "/" \notin PasswordPages \cup {"advanced"}
      BY DEF InnerPages, SettingsPages, PasswordPages
    <3>4. "advanced" \in SetupPages
      BY PagesIn
    <3> QED
      BY <1>1, <3>1, <3>2, <3>3, <3>4, PagesIn DEF Maybe
  <2> QED
    BY <1>1, <1>2, <2>1, <2>2 DEF Followed, Places, Maybe
<1>3. CASE l.page # "/"
  <2>1. to \in {l.page, "/"} \/ (l.page = "start" /\ to = StartRedirect(info))
    BY <1>3 DEF Target, DefaultRedirect, SetupRedirect, UnlockRedirect, WelcomeRedirect
  <2>2. to \in Pages
    BY <1>1, <2>1 DEF StartRedirect, Pages, OuterPages, InfoType
  <2>3. /\ Followed(l).page = to /\ Followed(l).setupReturnTo = l.setupReturnTo
        /\ Followed(l).returnTo = IF l.page \in InnerPages /\ to = "/" THEN l.page ELSE l.returnTo
    BY <1>3 DEF Followed
  <2>4. Followed(l) = [page |-> to, returnTo |-> Followed(l).returnTo, setupReturnTo |-> l.setupReturnTo]
    BY <1>3 DEF Followed
  <2> HIDE DEF to
  <2> QED
    BY <1>1, <1>3, <2>1, <2>2, <2>3, <2>4 DEF Places, Maybe
<1> QED
  BY <1>2, <1>3

(* The pages no redirect leaves.                                           *)
Rests(l) == Followed(l) = l

LEMMA RestsAt ==
    ASSUME info \in InfoType, NEW l \in Places,
           \/ l.page \in {"create-node-migration-file-success", "alby/auth"}
           \/ l.page = "unlock" /\ info.running
           \/ l.page \in {"welcome", "intro"} /\ ~info.completed
           \/ l.page \in InnerPages /\ info.running /\ info.unlocked /\ AlbyReady(info)
           \/ l.page \in SetupPages /\ ~(info.completed /\ info.running)
    PROVE  Rests(l)
<1>1. Target(l.page, info, l.returnTo, l.setupReturnTo) = l.page /\ l.page # "/"
  BY DEF Target, DefaultRedirect, SetupRedirect, UnlockRedirect, WelcomeRedirect, InnerPages, SettingsPages,
         SetupPages, PasswordPages, NodePages
<1> QED
  BY <1>1, Targets DEF Followed, Rests

(* From the start page, when the node is not on.                           *)
LEMMA RestsFromStart ==
    ASSUME info \in InfoType, NEW l \in Places, l.page = "start", Followed(l).page # "/"
    PROVE  Rests(Followed(l))
<1>1. Followed(l).page = StartRedirect(info) /\ Followed(l) \in Places
  BY Targets DEF Followed, Target, InnerPages, SettingsPages, SetupPages, PasswordPages, NodePages
<1>2. CASE Followed(l).page = "start"
  <2>1. Followed(l) = l
    BY <1>2, Targets
  <2> QED
    BY <2>1 DEF Rests
<1>3. CASE Followed(l).page \in {"create-node-migration-file-success", "alby/auth"}
  BY <1>1, <1>3, RestsAt
<1> QED
  BY <1>1, <1>2, <1>3 DEF StartRedirect, InfoType

(* From the home page, once the route of the setup is forgotten.           *)
LEMMA RestsFromHome ==
    ASSUME info \in InfoType, NEW l \in Places, l.page = "/",
           info.halted \/ l.setupReturnTo = None
    PROVE  Rests(Followed(Followed(l)))
<1> DEFINE m == Followed(l)
<1>1. m \in Places /\ m.page = HomeRedirect(info, l.returnTo, l.setupReturnTo)
  BY Targets
<1>2. ASSUME Rests(m)
      PROVE  Rests(Followed(m))
  BY <1>2 DEF Rests
<1>3. CASE info.halted
  <2>1. m.page = "create-node-migration-file-success"
    BY <1>1, <1>3 DEF HomeRedirect
  <2> QED
    BY <1>1, <1>2, <2>1, RestsAt
<1>4. CASE ~info.halted /\ info.completed /\ ~info.running
  <2>1. m.page = "start"
    BY <1>1, <1>4 DEF HomeRedirect
  <2>2. Followed(m).page # "/"
    BY <1>4, <2>1 DEF Followed, Target, StartRedirect, InnerPages, SettingsPages, SetupPages, PasswordPages,
                      NodePages
  <2> QED
    BY <1>1, <2>1, <2>2, RestsFromStart
<1>5. CASE ~info.halted /\ info.completed /\ info.running
  <2>1. \/ m.page = "unlock" \/ m.page = "alby/auth"
        \/ m.page \in InnerPages /\ info.unlocked /\ AlbyReady(info)
    <3>1. l.returnTo \in Maybe(InnerPages)
      BY DEF Places
    <3> QED
      BY <1>1, <1>5, <3>1 DEF HomeRedirect, InnerPages, Maybe, InfoType
  <2> QED
    BY <1>1, <1>2, <1>5, <2>1, RestsAt
<1>6. CASE ~info.halted /\ ~info.completed
  <2>1. m.page \in {"welcome", "intro"}
    BY <1>1, <1>6 DEF HomeRedirect, InfoType
  <2> QED
    BY <1>1, <1>2, <1>6, <2>1, RestsAt
<1> QED
  BY <1>3, <1>4, <1>5, <1>6 DEF InfoType

(* From the home page, whatever is remembered: the route of the setup may  *)
(* lead back home once, where it is then forgotten.                        *)
LEMMA RestsFromHomeAgain ==
    ASSUME info \in InfoType, NEW l \in Places, l.page = "/"
    PROVE  Rests(FollowTwice(FollowTwice(l)))
<1>1. ASSUME NEW m \in Places, Rests(m)
      PROVE  Rests(Followed(m)) /\ Rests(FollowTwice(m))
  BY <1>1 DEF Rests, FollowTwice
<1>2. ASSUME NEW m \in Places
      PROVE  FollowTwice(m) \in Places /\ Followed(m) \in Places
  BY <1>2, Targets DEF FollowTwice
<1>3. CASE info.halted \/ l.setupReturnTo = None
  <2>1. Rests(FollowTwice(l))
    BY <1>3, RestsFromHome DEF FollowTwice
  <2> QED
    BY <1>1, <1>2, <2>1
<1>4. CASE ~info.halted /\ l.setupReturnTo # None
  <2> DEFINE m == Followed(l)
  <2>1. /\ m \in Places /\ m.page \in PasswordPages \cup {"advanced"} /\ m.setupReturnTo = None
    <3>1. m.page = l.setupReturnTo /\ m \in Places
      BY <1>4, Targets DEF HomeRedirect, InfoType
    <3>2. m.setupReturnTo = None
      BY <1>4 DEF Followed
    <3> QED
      BY <1>4, <3>1, <3>2 DEF Places, Maybe
  <2>2. m.page \in SetupPages \ (InnerPages \cup {"/", "start", "unlock", "welcome", "intro"})
    BY <2>1 DEF SetupPages, PasswordPages, InnerPages, SettingsPages
  <2>3. CASE ~(info.completed /\ info.running)
    <3>1. Rests(m)
      BY <2>1, <2>2, <2>3, RestsAt
    <3>2. FollowTwice(l) = m
      BY <3>1 DEF FollowTwice, Rests
    <3> QED
      BY <1>1, <2>1, <3>1, <3>2
  <2>4. CASE info.completed /\ info.running
    <3>1. Followed(m).page = "/" /\ Followed(m).setupReturnTo = None /\ Followed(m) \in Places
      <4>1. Target(m.page, info, m.returnTo, m.setupReturnTo) = "/"
        BY <2>2, <2>4 DEF Target, SetupRedirect
      <4> QED
        BY <2>1, <2>2, <4>1, Targets DEF Followed
    <3>2. Rests(Followed(Followed(Followed(m))))
      BY <3>1, RestsFromHome
    <3> QED
      BY <3>2 DEF FollowTwice
  <2> QED
    BY <2>3, <2>4
<1> QED
  BY <1>3, <1>4 DEF InfoType

LEMMA RedirectsRest ==
    ASSUME ScreenTypes, TabInv
    PROVE  RedirectsSettle
<1>1. info \in InfoType /\ \A p \in {page, "home"} \cup OuterPages : p \in Pages
  BY PagesIn DEF ScreenTypes, InnerPages
<1>2. ASSUME NEW p \in Pages, NEW l, l = [Location EXCEPT !.page = p]
      PROVE  Rests(FollowTwice(FollowTwice(Followed(l))))
  <2>1. l \in Places /\ l.page = p
    BY <1>2 DEF Location, Places, ScreenTypes, TabInv
  <2>2. Followed(l) \in Places
    BY <1>1, <2>1, Targets
  <2>3. CASE Followed(l).page = "/"
    BY <1>1, <2>2, <2>3, RestsFromHomeAgain
  <2>4. CASE Followed(l).page # "/" /\ Rests(Followed(l))
    BY <2>4 DEF Rests, FollowTwice
  <2>5. CASE Followed(l).page # "/" /\ p # "/"
    <3>1. CASE Followed(l).page = p
      <4>1. Followed(l) = l
        BY <1>1, <2>1, <2>5, <3>1, Targets
      <4> QED
        BY <4>1 DEF Rests, FollowTwice
    <3>2. CASE Followed(l).page # p
      <4>1. l.page = "start"
        BY <1>1, <2>1, <2>5, <3>2, Targets
      <4> QED
        BY <1>1, <2>1, <2>4, <2>5, <4>1, RestsFromStart
    <3> QED
      BY <3>1, <3>2
  <2>6. CASE p = "/"
    <3>1. Rests(FollowTwice(FollowTwice(l)))
      BY <1>1, <2>1, <2>6, RestsFromHomeAgain
    <3>2. FollowTwice(FollowTwice(Followed(l))) = Followed(FollowTwice(FollowTwice(l)))
      BY DEF FollowTwice
    <3> QED
      BY <3>1, <3>2 DEF Rests
  <2> QED
    BY <2>3, <2>5, <2>6
<1>3. ASSUME NEW p \in {page, "home"} \cup OuterPages
      PROVE  LET l == FollowTwice(FollowTwice(Followed([Location EXCEPT !.page = p])))
             IN  Followed(l).page = l.page
  <2>1. Rests(FollowTwice(FollowTwice(Followed([Location EXCEPT !.page = p]))))
    BY <1>1, <1>2
  <2> QED
    BY <2>1 DEF Rests
<1> QED
  BY <1>3 DEF RedirectsSettle

(***************************************************************************)
(* The screens keep their types.                                           *)
(***************************************************************************)
LEMMA PageNames ==
    {"/", "intro", "welcome", "start", "unlock", "alby/account", "alby/auth", "home", "advanced",
     "create-node-migration-file-success", "setup/alby", "setup/auth", "import-mnemonic", "node",
     "security", "finish", "password", "password?node=ldk", "password?node=preset",
     "password?wallet=import", "node/ldk", "node/preset", "node-restore"} \subseteq Pages
BY DEF Pages, OuterPages, InnerPages, SettingsPages, SetupPages, PasswordPages, NodePages

(* A screen that shows page p and leaves the rest alone.                   *)
LEMMA Shows ==
    ASSUME ScreenTypes, page' \in Pages, wait' \in WaitType,
           UNCHANGED <<info, token, returnTo, kept>>
    PROVE  Moves
BY DEF ScreenTypes, Moves, kept

LEMMA SetupPasswordMoves ==
    ASSUME ScreenTypes, SetupPassword
    PROVE  Moves
<1>1. page \in PasswordPages /\ wait' = "no" /\ UNCHANGED <<info, token, returnTo, kept>>
  BY DEF SetupPassword, Here, Show, storage
<1>2. page' = CASE page = "password?wallet=import" -> "import-mnemonic"
                [] page = "password?node=ldk" -> "node/ldk"
                [] page = "password?node=preset" -> "node/preset"
                [] page = "password" -> "node"
  BY DEF SetupPassword, Show
<1>3. page' \in {"import-mnemonic", "node/ldk", "node/preset", "node"}
  BY <1>1, <1>2 DEF PasswordPages
<1> QED
  BY <1>1, <1>3, PageNames, Shows DEF WaitType

LEMMA FormMoves ==
    ASSUME ScreenTypes,
           \/ Intro \/ ConnectAlbyAccount \/ SetupAdvanced \/ SetupPassword \/ ImportMnemonic \/ SetupNode
           \/ LDKForm \/ BarkForm \/ LNDForm \/ CLNForm \/ PhoenixdForm \/ CashuForm \/ PresetNodeForm
           \/ SetupSecurity \/ SetupTimesOut \/ SetupBack \/ Welcome
    PROVE  Moves
<1> USE DEF Show, storage, WaitType
<1>1. CASE Intro \/ ConnectAlbyAccount \/ ImportMnemonic \/ SetupSecurity
  BY <1>1, PageNames, Shows DEF Intro, ConnectAlbyAccount, ImportMnemonic, SetupSecurity
<1>2. CASE SetupAdvanced
  BY <1>2, PageNames, Shows DEF SetupAdvanced
<1>3. CASE SetupPassword
  BY <1>3, SetupPasswordMoves
<1>4. CASE SetupNode
  <2>1. \E b \in Backends : page' = NodePage[b]
    BY <1>4 DEF SetupNode, Backends
  <2> QED
    BY <1>4, <2>1, PagesIn, Shows DEF SetupNode
<1>5. ASSUME NEW p, NEW b, NEW m, NodeForm(p, b, m)
      PROVE  Moves
  BY <1>5, PageNames, Shows DEF NodeForm
<1>6. CASE LDKForm \/ BarkForm \/ LNDForm \/ CLNForm \/ PhoenixdForm \/ CashuForm \/ PresetNodeForm
  BY <1>5, <1>6 DEF LDKForm, BarkForm, LNDForm, CLNForm, PhoenixdForm, CashuForm, PresetNodeForm
<1>7. CASE SetupTimesOut
  BY <1>7, Shows DEF SetupTimesOut, ScreenTypes
<1>8. CASE SetupBack
  <2>1. page' \in {"security", "advanced", "password?node=ldk", "welcome"}
    BY <1>8 DEF SetupBack
  <2> QED
    BY <1>8, <2>1, PageNames, Shows DEF SetupBack
<1>9. CASE Welcome
  <2>1. page' \in {"password?node=preset", "password?node=ldk", "advanced", "alby/auth", "setup/alby"}
    BY <1>9 DEF Welcome
  <2> QED
    BY <1>9, <2>1, PageNames, Shows DEF Welcome
<1> QED
  BY <1>1, <1>2, <1>3, <1>4, <1>6, <1>7, <1>8, <1>9

(* The pages of the setup that talk to the hub, and the start.             *)
LEMMA SetupMoves ==
    ASSUME HubInv', CountTypes', ScreenTypes,
           AuthCodeForm \/ FinishSetup \/ FinishStarts \/ RestoreNode \/ Start
    PROVE  Moves
<1> USE DEF Show, storage, kept, WaitType
<1>1. CASE AuthCodeForm
  <2>1. info' = Info(token)' /\ page' \in {page, "/"} /\ wait' \in {wait, "no"}
    BY <1>1 DEF AuthCodeForm
  <2> QED
    BY <1>1, <2>1, NewInfoTyped, PageNames DEF AuthCodeForm, ScreenTypes, Moves
<1>2. CASE FinishSetup
  BY <1>2, Shows DEF FinishSetup, ScreenTypes
<1>3. CASE FinishStarts
  BY <1>3 DEF FinishStarts, ScreenTypes, Moves
<1>4. CASE RestoreNode
  BY <1>4, PageNames, Shows DEF RestoreNode, ScreenTypes
<1>5. CASE Start
  BY <1>5 DEF Start, ScreenTypes, Moves
<1> QED
  BY <1>1, <1>2, <1>3, <1>4, <1>5

LEMMA NoticedTyped == ASSUME ScreenTypes, NEW i PROVE Noticed(i) \in WaitType
BY DEF Noticed, ScreenTypes, WaitType

LEMMA SettingsMoves ==
    ASSUME Inv, HubInv, HubInv', CountTypes, CountTypes', ScreenTypes, InSettings
    PROVE  Moves
<1> USE DEF Show, storage, kept
<1>1. CASE Menu
  <2>1. page' \in {"home"} \cup ErrandTable[errand].pages
    BY <1>1 DEF Menu
  <2>2. page' \in Pages
    BY <2>1, ErrandPages, PageNames DEF ScreenTypes
  <2> QED
    BY <1>1, <2>2, Shows DEF Menu, WaitType
<1>2. CASE Shutdown \/ ResetRoutingData \/ MigrateLDKStorage \/ ChangeUnlockPassword \/ MigrateNode
  <2>1. UNCHANGED <<page, wait, info, storage, kept>>
    BY <1>2 DEF Shutdown, ResetRoutingData, MigrateLDKStorage, ChangeUnlockPassword, MigrateNode
  <2> QED
    BY <2>1, Shows DEF ScreenTypes
<1>3. CASE Answered
  <2>1. UNCHANGED <<storage, kept>> /\ info' \in {info, Info(token)}
    BY <1>3 DEF Answered
  <2>2. \/ UNCHANGED <<page, wait>>
        \/ UNCHANGED page /\ wait' = Noticed(info')
        \/ page' \in {"/", "create-node-migration-file-success"} /\ wait' = "no"
    <3>1. CASE call[Tab].op = "failed"
      BY <1>3, <3>1 DEF Answered
    <3>2. CASE call[Tab].op = "done"
      <4>1. asked \in AskedType \ {None}
        BY <1>3 DEF Answered, Inv, TabInv
      <4> QED
        BY <1>3, <3>2, <4>1 DEF Answered, AskedType
    <3> QED
      BY <1>3, <3>1, <3>2 DEF Answered
  <2> QED
    BY <2>1, <2>2, InfoTyped, NoticedTyped, PageNames DEF ScreenTypes, Moves, WaitType
<1>4. CASE AutoUnlock
  BY <1>4, NewInfoTyped DEF AutoUnlock, ScreenTypes, Moves
<1>5. CASE UnlinkAlbyAccount
  <2>1. info' = Info(token)' /\ page' \in {"/", "alby/auth"} /\ wait' = "no" /\ UNCHANGED <<storage, kept>>
    BY <1>5 DEF UnlinkAlbyAccount
  <2> QED
    BY <2>1, NewInfoTyped, PageNames DEF ScreenTypes, Moves, WaitType
<1>6. CASE DeveloperSettings
  BY <1>6 DEF DeveloperSettings, ScreenTypes, Moves
<1>7. CASE Settings \/ NodeSettings \/ NodeAlias
  BY <1>7, InfoTyped DEF Settings, NodeSettings, NodeAlias, Preference, ScreenTypes, Moves
<1>8. CASE Backup
  BY <1>8, Shows DEF Backup, ScreenTypes, WaitType
<1>9. CASE MnemonicDialog
  BY <1>9, InfoTyped, PageNames DEF MnemonicDialog, ScreenTypes, Moves, WaitType
<1> QED
  BY <1>1, <1>2, <1>3, <1>4, <1>5, <1>6, <1>7, <1>8, <1>9 DEF InSettings

LEMMA ScreenMoves ==
    ASSUME Inv, Inv', CountTypes, CountTypes', ScreenTypes, [Next]_vars
    PROVE  Moves
<1>1. HubInv /\ HubInv'
  BY DEF Inv
<1>2. CASE Redirect
  <2>1. Location \in Places
    BY DEF Location, Places, ScreenTypes, Inv, TabInv
  <2>2. Followed(Location) \in Places
    BY <2>1, Targets DEF ScreenTypes
  <2>3. page' \in Pages /\ returnTo' \in Maybe(InnerPages)
    BY <1>2, <2>2 DEF Redirect, Places
  <2> QED
    BY <1>2, <2>3 DEF Redirect, ScreenTypes, Moves, kept, WaitType
<1>3. CASE UseInfo
  BY <1>1, <1>3, InfoTyped, NoticedTyped DEF UseInfo, ScreenTypes, Moves, storage, kept
<1>4. CASE Wizard \/ Start
  BY <1>1, <1>4, FormMoves, SetupMoves DEF Wizard
<1>5. CASE Unlock
  <2>1. info' = Info(token')
    BY <1>5 DEF Unlock
  <2> QED
    BY <1>1, <1>5, <2>1, InfoTyped, PageNames DEF Unlock, Show, ScreenTypes, Moves, kept, WaitType
<1>6. CASE InSettings
  BY <1>1, <1>6, SettingsMoves
<1>7. CASE OtherClient \/ Service \/ UNCHANGED vars
  <2>1. UNCHANGED tabVars
    BY <1>7 DEF OtherClient, Service, vars
  <2> QED
    BY <2>1 DEF tabVars, storage, kept, ScreenTypes, Moves
<1> QED
  BY <1>2, <1>3, <1>4, <1>5, <1>6, <1>7 DEF Next

(***************************************************************************)
(* The invariant of the types.                                             *)
(***************************************************************************)
TypesInv == CountTypes /\ ScreenTypes

LEMMA InitTypes == Init => TypesInv
<1> SUFFICES ASSUME Init PROVE TypesInv
  OBVIOUS
<1>1. /\ cancel \in {"none", "live"} /\ lock = "free" /\ startupError = FALSE
      /\ ~overlap /\ ~refilled /\ ~refused /\ drawn \in {0, 1} /\ loaded = drawn
      /\ overlap = FALSE /\ refilled = FALSE /\ refused = FALSE
  BY DEF Init, HubInit, HubInUse
<1>2. checked \subseteq Passwords
  <2>1. CASE HubInit
    BY <2>1 DEF HubInit
  <2>2. CASE HubInUse(HasAccount(errand))
    <3>1. (CHOOSE q \in Passwords : TRUE) \in Passwords
      OBVIOUS
    <3> QED
      BY <2>2, <3>1 DEF HubInUse
  <2> QED
    BY <2>1, <2>2 DEF Init
<1>3. failures \in Nat /\ failures <= MaxFailures
  <2>1. \A e \in DOMAIN ErrandTable : ErrandTable[e].starts \in {1, MaxFailures}
    <3>1. /\ ErrandTable["setup"].starts = MaxFailures /\ ErrandTable["othernode"].starts = 1
          /\ ErrandTable["restore"].starts = 1 /\ ErrandTable["cloud"].starts = MaxFailures
          /\ ErrandTable["password"].starts = 1 /\ ErrandTable["migrate"].starts = 1
          /\ ErrandTable["developer"].starts = 1 /\ ErrandTable["auto"].starts = MaxFailures
          /\ ErrandTable["account"].starts = 1 /\ ErrandTable["preferences"].starts = 1
          /\ ErrandTable["repair"].starts = 1
      BY DEF ErrandTable, Plain
    <3>2. DOMAIN ErrandTable = {"setup", "othernode", "restore", "cloud", "password", "migrate",
                                "developer", "auto", "account", "preferences", "repair"}
      BY DEF ErrandTable
    <3> QED
      BY <3>1, <3>2
  <2>2. failures = MaxFailures - ErrandTable[errand].starts /\ errand \in DOMAIN ErrandTable
    BY DEF Init
  <2> QED
    BY <2>1, <2>2
<1>4. boots \in 0..MaxBoots
  BY DEF Init
<1>5. CountTypes
  <2>1. drawn \in 0..MaxSecrets
    BY <1>1
  <2>2. failures + (IF lock = "start" THEN 1 ELSE 0) <= MaxFailures
    BY <1>1, <1>3
  <2> QED
    BY <1>1, <1>2, <1>3, <1>4, <2>1, <2>2 DEF CountTypes
<1>6. info = Info(token) /\ HubInv
  BY InitInv DEF Init, TabInit, Inv
<1>7. info \in InfoType
  BY <1>5, <1>6, InfoTyped
<1>8. page = "/" /\ wait = "no" /\ token = loaded /\ apiToken \in {0, loaded} /\ returnTo = None
  BY DEF Init, TabInit
<1>9. {token, apiToken} \subseteq 0..drawn
  BY <1>1, <1>8
<1> QED
  BY <1>5, <1>7, <1>8, <1>9, PageNames DEF TypesInv, ScreenTypes, WaitType, Maybe, Init


(***************************************************************************)
(* The theorems.                                                           *)
(***************************************************************************)
LEMMA ServiceInvariant == Spec => []ServiceInv
<1>1. Init => ServiceInv
  BY InitInv, InitKeys, InitStop DEF ServiceInv
<1>2. ServiceInv /\ [Next]_vars => ServiceInv'
  <2> SUFFICES ASSUME ServiceInv, [Next]_vars PROVE ServiceInv'
    OBVIOUS
  <2>1. Inv' /\ Operation
    BY NextStep, StepsAreOperations DEF ServiceInv, ScreenStep
  <2>2. KeysInv' /\ StopInv'
    BY <2>1, OperationKeys, OperationStop DEF ServiceInv, Inv
  <2> QED
    BY <2>1, <2>2 DEF ServiceInv
<1> QED
  BY <1>1, <1>2, PTL DEF Spec

(* One password opens all that is encrypted (KeysOpen), whatever setups,   *)
(* failed starts, changes of password, restores and restarts came before:  *)
(* what Setup, LoadJWTSecret, keys.Init and ChangeUnlockPassword write is  *)
(* under the password that passes the check when the hub has been set up.  *)
(* The exceptions are those KeysOpen names: a password checked in the      *)
(* middle of a change, and the JWT secret after a start that was refused.  *)
THEOREM OnePasswordOpensAll == Spec => []KeysOpen
<1>1. ServiceInv => KeysOpen
  BY DEF ServiceInv, KeysInv, AllOpen, KeysOpen
<1> QED
  BY ServiceInvariant, <1>1, PTL

(* CreateBackup closes the database of a hub whose node is off and has     *)
(* left no goroutine (HaltedMeansStopped), whatever was launched, canceled *)
(* and shut down before, unless a start was under way or had left a node.  *)
THEOREM MigrationFindsHubStopped == Spec => []HaltedMeansStopped
<1>1. ServiceInv => HaltedMeansStopped
  BY DEF ServiceInv, StopInv, NodeIsCounted, MigrationIsAlone, HaltedMeansStopped
<1> QED
  BY ServiceInvariant, <1>1, PTL

LEMMA TypesInvariant == Spec => [](ServiceInv /\ TypesInv)
<1>1. Init => TypesInv
  BY InitTypes
<1>2. ServiceInv /\ ServiceInv' /\ TypesInv /\ [Next]_vars => TypesInv'
  <2> SUFFICES ASSUME ServiceInv, ServiceInv', TypesInv, [Next]_vars PROVE TypesInv'
    OBVIOUS
  <2>1. Inv /\ Inv' /\ HubInv /\ HubInv' /\ KeysInv
    BY DEF ServiceInv, Inv
  <2>2. CountTypes' /\ drawn <= drawn'
    BY <2>1, StepsAreOperations, OperationTyped DEF TypesInv
  <2>3. Moves
    BY <2>1, <2>2, ScreenMoves DEF TypesInv
  <2> QED
    BY <2>1, <2>2, <2>3, MovesTyped DEF TypesInv
<1> QED
  BY <1>1, <1>2, ServiceInvariant, PTL DEF Spec

(* The hub and its screens are type correct (TypeOK): in particular the    *)
(* wait group never counts fewer goroutines than are canceled or shutting  *)
(* down, no tab holds a token of a secret never drawn, and no redirect or  *)
(* remembered route leads to a page that is none.                          *)
THEOREM ScreensTypeCorrect == Spec => []TypeOK
<1>1. ServiceInv /\ TypesInv => TypeOK
  <2> SUFFICES ASSUME ServiceInv, TypesInv PROVE TypeOK
    OBVIOUS
  <2>1. HubTypeOK
    BY CountsTyped DEF TypesInv
  <2>2. TabTypeOK
    BY DEF TypesInv, ServiceInv, Inv, TabInv, ScreenTypes, TabTypeOK, WaitType, InfoType, StoreType, AskedType
  <2> QED
    BY <2>1, <2>2 DEF TypeOK
<1> QED
  BY TypesInvariant, <1>1, PTL

(* The redirects come to rest (RedirectsSettle): whatever page is opened,  *)
(* whatever /api/info last answered and whatever routes localStorage       *)
(* remembers, five redirects reach a page that DefaultRedirect,            *)
(* HomeRedirect, SetupRedirect and StartRedirect leave alone.              *)
THEOREM RedirectsComeToRest == Spec => []RedirectsSettle
<1>1. ServiceInv /\ TypesInv => RedirectsSettle
  BY RedirectsRest DEF ServiceInv, Inv, TypesInv
<1> QED
  BY TypesInvariant, <1>1, PTL

=============================================================================
