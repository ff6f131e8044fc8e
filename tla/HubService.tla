----------------------------- MODULE HubService -----------------------------
(***************************************************************************)
(* The life of the hub process: setting it up, starting and stopping its   *)
(* node, its unlock password and what is encrypted with it, the sessions   *)
(* (JWT tokens), the migration file, and restarts (api/api.go,             *)
(* api/backup.go, config/config.go, service/start.go, service/stop.go,     *)
(* http/http_service.go).                                                  *)
(*                                                                         *)
(* A value that is encrypted is, here, the password it is encrypted with;  *)
(* a JWT secret is a number, drawn in order; a token is the secret it is   *)
(* signed with.  Requests that do their work in one go are one step,       *)
(* requests that wait or that others can overtake are steps of a Caller.   *)
(***************************************************************************)
EXTENDS Naturals, FiniteSets

CONSTANTS
    Passwords,      \* passwords users type
    Callers,        \* clients with a request of several steps under way
    MaxSecrets,     \* bound on the JWT secrets ever drawn
    MaxFailures,    \* bound on the failed starts of a process
    MaxBoots        \* bound on restarts of the process

None == "none"
HasMnemonic == {"LDK", "CASHU", "BARK"}
Backends == HasMnemonic \cup {"LND", "CLN", "PHOENIX"}
Maybe(S) == S \cup {None}

ASSUME HubAssumption ==
    /\ None \notin Passwords /\ Passwords # {}
    /\ {MaxSecrets, MaxFailures} \subseteq Nat \ {0} /\ MaxBoots \in Nat

VARIABLES
    env,        \* the environment: LN_BACKEND_TYPE if set, and whether it is Alby Cloud's
    entry,      \* encrypted rows of user_configs: the password each is encrypted with
    row,        \* the other rows: LNBackendType, NodeLastStartTime, ...
    secret,     \* the JWT secret in the table, 0 if there is none
    drawn,      \* how many secrets were drawn so far
    checked,    \* cfg.cache: the passwords the password check is cached as right for
    loaded,     \* cfg.jwtSecret, 0 if there is none
    node,       \* svc.lnClient: is there one
    launched,   \* svc.wg: goroutines of launchLNBackend that have not returned
    doomed,     \* those of them whose context is canceled
    closing,    \* those of them that are shutting a node down
    cancel,     \* svc.appCancelFn: "none", "live" or that of an earlier start, "stale"
    lock,       \* startMutex: who holds it
    start,      \* the StartApp call under way
    failures,   \* api.startupErrorTime: failed starts so far
    startupError, \* api.startupError: is there one
    call,       \* the requests of several steps
    halted,     \* api.nodeMigrationFileCreated
    restore,    \* the restore directory: the password of what it holds
    overlap,    \* a migration began in the middle of a start or after a failed one, or was overtaken by one
    refilled,   \* a password was checked while the passwords were being changed
    refused,    \* before the setup was complete a start was refused for want of an Alby session
    retired,    \* the last secret a change of password has put out of use
    boots       \* restarts so far

tableVars == <<entry, row, secret, drawn>>
nodeVars == <<node, launched, doomed, closing, cancel>>
startVars == <<lock, start, failures, startupError>>
hubVars == <<env, tableVars, checked, loaded, nodeVars, startVars, call, halted, restore, overlap,
             refilled, refused, retired, boots>>

Keys == {"check", "nostr", "mnemonic", "jwt"}
EmptyTable == [k \in Keys |-> None]
FreshRow == [backend |-> env.preset, started |-> FALSE, auto |-> None,
             account |-> FALSE, connected |-> FALSE]
Idle == [op |-> "idle", at |-> None, old |-> None, new |-> None]
NotStarting == [at |-> None, with |-> None]

HubTypeOK ==
    /\ env \in [preset : Maybe(Backends), hosted : BOOLEAN]
    /\ entry \in [Keys -> Maybe(Passwords)]
    /\ row \in [backend : Maybe(Backends), started : BOOLEAN, auto : Maybe(Passwords),
                account : BOOLEAN, connected : BOOLEAN]
    /\ secret \in 0..drawn /\ loaded \in 0..drawn /\ retired \in 0..drawn
    /\ drawn \in 0..MaxSecrets
    /\ checked \in SUBSET Passwords
    /\ node \in BOOLEAN
    /\ launched \in Nat /\ doomed \in 0..launched /\ closing \in 0..(launched - doomed)
    /\ cancel \in {"none", "live", "stale"}
    /\ lock \in {"free", "start", "boot"} \cup Callers
    /\ start \in [at : {None, "check", "keys", "launch", "mark", "relays"}, with : Maybe(Passwords)]
    /\ failures \in 0..MaxFailures
    /\ startupError \in BOOLEAN
    /\ call \in [Callers -> [op : {"idle", "stop", "change", "backup", "done", "failed"},
                             at : {None, "commit", "reset", "stop", "wait", "archive"},
                             old : Maybe(Passwords), new : Maybe(Passwords)]]
    /\ halted \in BOOLEAN /\ {overlap, refilled, refused} \subseteq BOOLEAN
    /\ restore \in Maybe(Passwords)
    /\ boots \in 0..MaxBoots

HubInit ==
    /\ entry = EmptyTable /\ row = FreshRow /\ secret = 0 /\ drawn = 0
    /\ checked = {} /\ loaded = 0
    /\ node = FALSE /\ launched = 0 /\ doomed = 0 /\ closing = 0 /\ cancel = "none"
    /\ lock = "free" /\ start = NotStarting /\ startupError = FALSE
    /\ call = [c \in Callers |-> Idle]
    /\ halted = FALSE /\ restore = None
    /\ overlap = FALSE /\ refilled = FALSE /\ refused = FALSE /\ retired = 0

(* A hub that was set up and started some time ago, with one password.     *)
HubInUse(account) ==
    /\ LET p == CHOOSE q \in Passwords : TRUE
       IN  entry = [k \in Keys |-> p] /\ checked = {p}
    /\ row = [FreshRow EXCEPT !.backend = "LDK", !.started = TRUE,
                             !.account = account, !.connected = account]
    /\ secret = 1 /\ drawn = 1 /\ loaded = 1
    /\ node = TRUE /\ launched = 1 /\ doomed = 0 /\ closing = 0 /\ cancel = "live"
    /\ lock = "free" /\ start = NotStarting /\ startupError = FALSE
    /\ call = [c \in Callers |-> Idle]
    /\ halted = FALSE /\ restore = None
    /\ overlap = FALSE /\ refilled = FALSE /\ refused = FALSE /\ retired = 0

(***************************************************************************)
(* Configuration.                                                          *)
(***************************************************************************)

(* CheckUnlockPassword: what is cached is not looked up again, not even    *)
(* when the database is closed.  While no password is set none is right.   *)
CheckUnlockPassword(p) == p \in checked \/ (~halted /\ p # None /\ entry["check"] = p)

(* Between the first row a change of password rewrites and its commit,     *)
(* other connections read, and cache, what was there before.               *)
Changing == \E c \in Callers : call[c].op = "change" /\ call[c].at = "commit"

(* The effect of a right CheckUnlockPassword on the cache.                 *)
RememberCheck(p) ==
    /\ checked' = checked \cup {p}
    /\ refilled' = (refilled \/ Changing)

(* LoadJWTSecret, for a password that passes the check: the secret that    *)
(* will be in memory, whether it is a new one, and whether the one in the  *)
(* table can be read at all.                                               *)
SecretReadable(p) == loaded # 0 \/ (~halted /\ (secret = 0 \/ entry["jwt"] = p))
LoadJWTSecret(p) ==
    IF loaded = 0 /\ secret = 0
    THEN /\ drawn < MaxSecrets
         /\ drawn' = drawn + 1 /\ secret' = drawn + 1 /\ loaded' = drawn + 1
         /\ entry' = [entry EXCEPT !["jwt"] = p]
    ELSE /\ loaded' = IF loaded = 0 THEN secret ELSE loaded
         /\ UNCHANGED <<entry, drawn, secret>>

SetupCompleted == row.started

(* What the server answers to GET /api/info for a token: GetInfo and       *)
(* infoHandler.  A hub whose migration file was made answers from memory.  *)
Info(token) ==
    IF halted
    THEN [halted |-> TRUE, completed |-> TRUE, running |-> FALSE, backend |-> None, auto |-> FALSE,
          account |-> FALSE, connected |-> FALSE, failures |-> 0,
          unlocked |-> token # 0 /\ token = loaded]
    ELSE [halted |-> FALSE, completed |-> SetupCompleted, running |-> node, backend |-> row.backend,
          auto |-> row.auto # None, account |-> row.account, connected |-> row.connected,
          failures |-> IF startupError THEN failures ELSE 0,
          unlocked |-> token # 0 /\ token = loaded]

(* A request that needs a session.                                         *)
Authorised(token) == token # 0 /\ token = loaded

(* The server answers once NewService has returned.                        *)
Serving == lock # "boot"

(***************************************************************************)
(* Setup, start, stop.                                                     *)
(***************************************************************************)

(* Variant: a hub that is set up can be set up again.                      *)
SetupAcceptedAgain(backend) == lock = "free" /\ ~halted

SetupAccepted(backend) ==
    lock = "free" /\ ~halted /\ ~SetupCompleted /\ ~(env.hosted /\ backend \in {"BARK", "CASHU"})

(* Setup: only values that are there are written.                          *)
Setup(p, backend, mnemonic) ==
    /\ entry' = [entry EXCEPT !["check"] = p, !["mnemonic"] = IF mnemonic THEN p ELSE @]
    /\ row' = [row EXCEPT !.backend = IF backend = None THEN @ ELSE backend]
    /\ checked' = {}
    /\ UNCHANGED <<secret, drawn, loaded, nodeVars, startVars, call, halted, restore, overlap,
                   refilled, refused, retired, boots, env>>

StartAccepted(p) == CheckUnlockPassword(p) /\ SecretReadable(p)

(* startHandler answers with a token and leaves the start to a goroutine,  *)
(* which gives up at once when startMutex is taken.                        *)
StartHandler(p) ==
    /\ StartAccepted(p)
    /\ failures + (IF lock = "start" THEN 1 ELSE 0) < MaxFailures
    /\ LoadJWTSecret(p)
    /\ RememberCheck(p)
    /\ \/ /\ lock = "free"
          /\ lock' = "start"
          /\ start' = [at |-> "check", with |-> p]
          /\ startupError' = FALSE
          /\ overlap' = (overlap \/ halted \/ \E c \in Callers : call[c].op = "backup")
          /\ UNCHANGED failures
       \/ /\ lock # "free"
          /\ failures' = failures + 1 /\ startupError' = TRUE
          /\ UNCHANGED <<lock, start, overlap>>
    /\ UNCHANGED <<row, nodeVars, call, halted, restore, refused, retired, boots, env>>

(* StartApp returns an error; at boot nobody keeps it.                     *)
StartFails ==
    /\ start' = NotStarting /\ lock' = "free"
    /\ \/ lock = "boot" /\ UNCHANGED <<failures, startupError>>
       \/ /\ lock = "start"
          /\ failures' = failures + 1 /\ startupError' = TRUE

AccountMissing == row.account /\ ~row.connected

StartAllowed ==
    /\ ~AccountMissing
    /\ ~node
    /\ entry["check"] # None
    /\ CheckUnlockPassword(start.with)
    /\ SecretReadable(start.with)

(* StartApp up to LoadJWTSecret.                                           *)
StartChecks ==
    /\ start.at = "check"
    /\ \/ /\ StartAllowed
          /\ LoadJWTSecret(start.with)
          /\ RememberCheck(start.with)
          /\ start' = [start EXCEPT !.at = "keys"]
          /\ UNCHANGED <<lock, failures, startupError, refused>>
       \/ /\ ~StartAllowed
          /\ StartFails
          /\ refused' = (refused \/ (~row.started /\ AccountMissing))
          /\ UNCHANGED <<entry, secret, drawn, loaded, checked, refilled>>
    /\ UNCHANGED <<row, nodeVars, call, halted, restore, overlap, retired, boots, env>>

(* Variant: a key that cannot be decrypted is no reason to stop.           *)
KeysInitAnyway ==
    /\ start.at = "keys"
    /\ entry' = [entry EXCEPT !["nostr"] = IF @ = None THEN start.with ELSE @,
                              !["mnemonic"] = IF @ = None THEN start.with ELSE @]
    /\ start' = [start EXCEPT !.at = "launch"]
    /\ UNCHANGED <<lock, failures, startupError, row, secret, drawn, checked, loaded, nodeVars, call,
                   halted, restore, overlap, refilled, refused, retired, boots, env>>

(* keys.Init: what is missing is generated and saved; what a different     *)
(* password encrypts is an error.  Of a hub that was halted the table is   *)
(* closed, but these values are in the cache.                              *)
KeysInit ==
    LET p == start.with
        opens(k) == entry[k] \in {None, p}
    IN  /\ start.at = "keys"
        /\ entry' = [entry EXCEPT !["nostr"] = IF @ = None THEN p ELSE @,
                                  !["mnemonic"] = IF @ = None /\ opens("nostr") THEN p ELSE @]
        /\ \/ /\ opens("nostr") /\ opens("mnemonic")
              /\ start' = [start EXCEPT !.at = "launch"]
              /\ UNCHANGED <<lock, failures, startupError>>
           \/ /\ ~(opens("nostr") /\ opens("mnemonic"))
              /\ StartFails
        /\ UNCHANGED <<row, secret, drawn, checked, loaded, nodeVars, call, halted, restore,
                       overlap, refilled, refused, retired, boots, env>>

(* launchLNBackend: the goroutine that will stop the node is there before  *)
(* the node is; a launch that fails cancels the context it waits for.      *)
LaunchLNBackend ==
    /\ start.at = "launch"
    /\ launched' = launched + 1
    /\ \/ /\ row.backend # None
          /\ node' = TRUE
          /\ start' = [start EXCEPT !.at = "mark"]
          /\ UNCHANGED <<doomed, lock, failures, startupError>>
       \/ /\ doomed' = doomed + 1
          /\ StartFails
          /\ UNCHANGED node
    /\ UNCHANGED <<tableVars, closing, cancel, checked, loaded, call, halted, restore, overlap,
                   refilled, refused, retired, boots, env>>

(* NodeLastStartTime is what makes the setup complete.  A closed database  *)
(* takes no note of it, which is only logged.                              *)
MarkStarted ==
    /\ start.at = "mark"
    /\ row' = [row EXCEPT !.started = TRUE]
    /\ start' = [start EXCEPT !.at = "relays"]
    /\ UNCHANGED <<entry, secret, drawn, checked, loaded, nodeVars, lock, failures, startupError,
                   call, halted, restore, overlap, refilled, refused, retired, boots, env>>

(* startNostr returns and the start is over: only now can it be stopped.   *)
(* Its only errors are those of a configuration without a usable relay,    *)
(* which cancels what was launched.                                        *)
StartEnds ==
    /\ start.at = "relays"
    /\ \/ /\ cancel' = "live"
          /\ start' = NotStarting /\ lock' = "free"
          /\ UNCHANGED <<doomed, failures, startupError>>
       \/ /\ doomed' = doomed + 1
          /\ StartFails
          /\ UNCHANGED cancel
    /\ UNCHANGED <<tableVars, checked, loaded, node, launched, closing, call, halted, restore,
                   overlap, refilled, refused, retired, boots, env>>

StartSteps == StartChecks \/ KeysInit \/ LaunchLNBackend \/ MarkStarted \/ StartEnds

(* Variant: the goroutine counts itself as returned before the node has    *)
(* been shut down, and again after.                                        *)
StopLNClientEarly ==
    /\ doomed > 0
    /\ node' = FALSE
    /\ doomed' = doomed - 1 /\ launched' = launched - 1
    /\ closing' = IF node THEN closing + 1 ELSE closing
    /\ UNCHANGED <<tableVars, cancel, checked, loaded, startVars, call, halted, restore, overlap,
                   refilled, refused, retired, boots, env>>

(* The goroutine of a launch whose context is canceled: stopLNClient.  It  *)
(* takes the node that is there, whosever it is, and shuts it down.        *)
StopLNClient ==
    /\ doomed > 0
    /\ node' = FALSE
    /\ doomed' = doomed - 1
    /\ IF node THEN closing' = closing + 1 /\ UNCHANGED launched
               ELSE launched' = launched - 1 /\ UNCHANGED closing
    /\ UNCHANGED <<tableVars, cancel, checked, loaded, startVars, call, halted, restore, overlap,
                   refilled, refused, retired, boots, env>>

LNClientStopped ==
    /\ closing > 0
    /\ closing' = closing - 1 /\ launched' = launched - 1
    /\ UNCHANGED <<tableVars, node, doomed, cancel, checked, loaded, startVars, call, halted, restore,
                   overlap, refilled, refused, retired, boots, env>>

(* StopApp, first half: cancel the context of the last start that ended.   *)
(* Before a start has ended there is nothing to cancel or to wait for.     *)
CancelApp ==
    /\ doomed' = IF cancel = "live" THEN doomed + 1 ELSE doomed
    /\ cancel' = IF cancel = "live" THEN "stale" ELSE cancel

Finish(c, outcome) == call' = [call EXCEPT ![c] = [Idle EXCEPT !.op = outcome]]

(* Stop, as a request or as the last thing a change of password, a reset   *)
(* of the router or a move of LDK's storage does.                          *)
StopBegins(c) ==
    \/ /\ lock = "free" /\ node
       /\ lock' = c
       /\ CancelApp
       /\ call' = [call EXCEPT ![c] = [@ EXCEPT !.at = "wait"]]
    \/ /\ ~(lock = "free" /\ node)
       /\ Finish(c, "failed")
       /\ UNCHANGED <<lock, doomed, cancel>>

(* ResetRouter and MigrateStorage need a node before they stop it.         *)
StopHandler(c) ==
    /\ call[c] = Idle
    /\ call' = [call EXCEPT ![c] = [Idle EXCEPT !.op = "stop", !.at = "stop"]]
    /\ UNCHANGED <<tableVars, checked, loaded, nodeVars, startVars, halted, restore, overlap,
                   refilled, refused, retired, boots, env>>

StopStep(c) ==
    /\ call[c].at = "stop"
    /\ StopBegins(c)
    /\ UNCHANGED <<tableVars, checked, loaded, node, launched, closing, start, failures, startupError,
                   halted, restore, overlap, refilled, refused, retired, boots, env>>

(* Variant: nothing is waited for.                                         *)
StoppedAtOnce == TRUE

(* StopApp, second half: svc.wg.Wait.                                      *)
Stopped == launched = 0

StopReturns(c) ==
    /\ call[c].at = "wait" /\ call[c].op \in {"stop", "change"}
    /\ Stopped
    /\ lock' = "free"
    /\ Finish(c, "done")
    /\ UNCHANGED <<tableVars, checked, loaded, nodeVars, start, failures, startupError, halted,
                   restore, overlap, refilled, refused, retired, boots, env>>

(***************************************************************************)
(* The unlock password.                                                    *)
(***************************************************************************)

ChangeAccepted(old) == node /\ row.auto = None /\ CheckUnlockPassword(old)

(* ChangeUnlockPassword up to the commit: the rows are rewritten in a      *)
(* transaction, and the cache of each is dropped as it is.                 *)
ChangePasswordHandler(c, old, new) ==
    /\ call[c] = Idle
    /\ ~Changing
    /\ drawn < MaxSecrets
    /\ ChangeAccepted(old)
    /\ checked' = {}
    /\ call' = [call EXCEPT ![c] = [op |-> "change", at |-> "commit", old |-> old, new |-> new]]
    /\ UNCHANGED <<tableVars, loaded, nodeVars, startVars, halted, restore, overlap, refilled, refused,
                   retired, boots, env>>

(* Variant: the JWT secret is encrypted anew, as everything else is.       *)
ChangeCommitsSecret(c) ==
    /\ call[c].op = "change" /\ call[c].at = "commit"
    /\ ~halted /\ \A k \in Keys : entry[k] \in {None, call[c].old}
    /\ entry' = [k \in Keys |-> IF entry[k] = None THEN None ELSE call[c].new]
    /\ call' = [call EXCEPT ![c] = [@ EXCEPT !.at = "reset"]]
    /\ UNCHANGED <<row, secret, drawn, checked, loaded, nodeVars, startVars, halted, restore, overlap,
                   refilled, refused, retired, boots, env>>

(* The commit: everything under the new password and no JWT secret in the  *)
(* table.  A row the old password does not open fails the transaction, and *)
(* so does a closed database.  A second change waits for the first.        *)
ChangeCommits(c) ==
    /\ call[c].op = "change" /\ call[c].at = "commit"
    /\ \/ /\ ~halted /\ \A k \in Keys : entry[k] \in {None, call[c].old}
          /\ entry' = [k \in Keys |-> IF k = "jwt" \/ entry[k] = None THEN None ELSE call[c].new]
          /\ secret' = 0
          /\ call' = [call EXCEPT ![c] = [@ EXCEPT !.at = "reset"]]
       \/ /\ halted \/ \E k \in Keys : entry[k] \notin {None, call[c].old}
          /\ Finish(c, "failed")
          /\ UNCHANGED <<entry, secret>>
    /\ UNCHANGED <<row, drawn, checked, loaded, nodeVars, startVars, halted, restore, overlap,
                   refilled, refused, retired, boots, env>>

(* The secret in memory goes too: every session ends.  Then the node is    *)
(* stopped.                                                                *)
ChangeResets(c) ==
    /\ call[c].op = "change" /\ call[c].at = "reset"
    /\ loaded' = 0
    /\ retired' = drawn
    /\ call' = [call EXCEPT ![c] = [@ EXCEPT !.at = "stop"]]
    /\ UNCHANGED <<tableVars, checked, nodeVars, startVars, halted, restore, overlap, refilled, refused,
                   boots, env>>

UnlockAccepted(p) == CheckUnlockPassword(p) /\ node /\ loaded # 0

(* unlockHandler: a token for whoever knows the password.                  *)
UnlockHandler(p) ==
    /\ UnlockAccepted(p)
    /\ RememberCheck(p)
    /\ UNCHANGED <<tableVars, loaded, nodeVars, startVars, call, halted, restore, overlap, refused,
                   retired, boots, env>>

AutoUnlockAccepted(p) == node /\ ~halted /\ (p = None \/ CheckUnlockPassword(p))

(* SetAutoUnlockPassword: the password in the clear, or none.              *)
SetAutoUnlockPassword(p) ==
    /\ AutoUnlockAccepted(p)
    /\ row' = [row EXCEPT !.auto = p]
    /\ IF p = None THEN UNCHANGED <<checked, refilled>> ELSE RememberCheck(p)
    /\ UNCHANGED <<entry, secret, drawn, loaded, nodeVars, startVars, call, halted, restore,
                   overlap, refused, retired, boots, env>>

(***************************************************************************)
(* The Alby account.                                                       *)
(***************************************************************************)

(* CallbackHandler: the first account to log in is remembered; of another  *)
(* one the token is dropped again.                                         *)
CallbackHandler(same) ==
    /\ ~halted
    /\ row' = [row EXCEPT !.account = TRUE, !.connected = row.account => same]
    /\ UNCHANGED <<entry, secret, drawn, checked, loaded, nodeVars, startVars, call, halted,
                   restore, overlap, refilled, refused, retired, boots, env>>

(* fetchUserToken: the access token has expired, and refreshing it fails   *)
(* for a while or for good.                                                *)
FetchUserToken ==
    /\ row.account /\ ~halted
    /\ row' = [row EXCEPT !.connected = ~row.connected]
    /\ UNCHANGED <<entry, secret, drawn, checked, loaded, nodeVars, startVars, call, halted,
                   restore, overlap, refilled, refused, retired, boots, env>>

UnlinkAccount ==
    /\ ~halted
    /\ row' = [row EXCEPT !.account = FALSE, !.connected = FALSE]
    /\ UNCHANGED <<entry, secret, drawn, checked, loaded, nodeVars, startVars, call, halted,
                   restore, overlap, refilled, refused, retired, boots, env>>

(***************************************************************************)
(* Migration and restore.                                                  *)
(***************************************************************************)

BackupAccepted(p) == CheckUnlockPassword(p) /\ row.auto = None /\ node

(* CreateBackup up to StopApp, which it calls without holding startMutex.  *)
BackupHandler(c, p) ==
    /\ call[c] = Idle
    /\ BackupAccepted(p)
    /\ RememberCheck(p)
    /\ CancelApp
    /\ call' = [call EXCEPT ![c] = [Idle EXCEPT !.op = "backup", !.old = p,
                                        !.at = IF cancel = "none" THEN "archive" ELSE "wait"]]
    /\ overlap' = (overlap \/ start.at # None \/ cancel = "none")
    /\ UNCHANGED <<tableVars, loaded, node, launched, closing, startVars, halted, restore, refused,
                   retired, boots, env>>

BackupStopped(c) ==
    /\ call[c].op = "backup" /\ call[c].at = "wait"
    /\ Stopped
    /\ call' = [call EXCEPT ![c] = [@ EXCEPT !.at = "archive"]]
    /\ UNCHANGED <<tableVars, checked, loaded, nodeVars, startVars, halted, restore, overlap,
                   refilled, refused, retired, boots, env>>

(* The OAuth token is removed, the database closed and all of it archived. *)
BackupArchives(c) ==
    /\ call[c].op = "backup" /\ call[c].at = "archive"
    /\ row' = [row EXCEPT !.connected = FALSE]
    /\ halted' = TRUE
    /\ Finish(c, "done")
    /\ UNCHANGED <<entry, secret, drawn, checked, loaded, nodeVars, startVars, restore, overlap,
                   refilled, refused, retired, boots, env>>

(* RestoreBackup: the archive is put where the next boot finds it.         *)
RestoreBackup(p) ==
    /\ ~halted /\ ~SetupCompleted /\ restore = None
    /\ restore' = p
    /\ UNCHANGED <<tableVars, checked, loaded, nodeVars, startVars, call, halted, overlap,
                   refilled, refused, retired, boots, env>>

(* The process ends, at any point, and starts again: finishRestoreNode,    *)
(* then StartApp when there is a password to unlock the hub with.          *)
Restart ==
    /\ boots < MaxBoots
    /\ boots' = boots + 1
    /\ entry' = IF restore = None THEN entry
                ELSE [k \in Keys |-> IF k = "jwt" THEN None ELSE restore]
    /\ secret' = IF restore = None THEN secret ELSE 0
    /\ row' = IF restore = None THEN row
              ELSE [FreshRow EXCEPT !.backend = "LDK", !.started = TRUE]
    /\ restore' = None
    /\ checked' = {} /\ loaded' = 0
    /\ node' = FALSE /\ launched' = 0 /\ doomed' = 0 /\ closing' = 0 /\ cancel' = "none"
    /\ startupError' = FALSE
    /\ call' = [c \in Callers |-> IF call[c].op = "idle" THEN Idle ELSE [Idle EXCEPT !.op = "failed"]]
    /\ halted' = FALSE /\ overlap' = FALSE
    /\ LET unlock == row'.auto # None /\ row'.started
       IN  /\ lock' = IF unlock THEN "boot" ELSE "free"
           /\ start' = IF unlock THEN [at |-> "check", with |-> row'.auto] ELSE NotStarting
    /\ UNCHANGED <<env, drawn, failures, refilled, refused, retired>>

HubSteps ==
    \/ StartSteps
    \/ StopLNClient \/ LNClientStopped
    \/ \E c \in Callers : \/ StopStep(c) \/ StopReturns(c)
                          \/ ChangeCommits(c) \/ ChangeResets(c)
                          \/ BackupStopped(c) \/ BackupArchives(c)
=============================================================================
