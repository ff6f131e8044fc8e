-------------------------- MODULE HubScreensProofs --------------------------
(***************************************************************************)
(* Proofs about HubScreens, for any passwords, number of sessions, failed  *)
(* starts and restarts: the hub implements its life cycle, and a session   *)
(* that a change of password has ended stays ended.                        *)
(***************************************************************************)
EXTENDS HubScreens, TLAPS

(***************************************************************************)
(* The inductive invariant.                                                *)
(***************************************************************************)
CallType == [op : {"idle", "stop", "change", "backup", "done", "failed"},
             at : {None, "commit", "reset", "stop", "wait", "archive"},
             old : Maybe(Passwords), new : Maybe(Passwords)]
RowType == [backend : Maybe(Backends), started : BOOLEAN, auto : Maybe(Passwords),
            account : BOOLEAN, connected : BOOLEAN]
StartType == [at : {None, "check", "keys", "launch", "mark", "relays"}, with : Maybe(Passwords)]
StoreType == [password : Maybe(Passwords), backend : Maybe(Backends), mnemonic : BOOLEAN,
              imported : BOOLEAN]
AskedType == {None, "stop", "reload", "migrate"}

HubTypes ==
    /\ env \in [preset : Maybe(Backends), hosted : BOOLEAN]
    /\ entry \in [Keys -> Maybe(Passwords)]
    /\ row \in RowType /\ start \in StartType
    /\ call \in [Callers -> CallType]
    /\ restore \in Maybe(Passwords)
    /\ node \in BOOLEAN /\ halted \in BOOLEAN

(* Who holds startMutex: a start, or the request that is stopping.         *)
LockHeld ==
    /\ start.at # None => lock \in {"start", "boot"}
    /\ \A c \in Callers : call[c].op \in {"stop", "change"} /\ call[c].at = "wait" => lock = c

(* A start that is past its checks, and a hub that is set up, have a       *)
(* password; a node that runs before that was launched just now.           *)
PasswordIsSet ==
    /\ start.at \in {"keys", "launch", "mark", "relays"} \/ row.started => entry["check"] # None
    /\ node /\ ~row.started => start.at = "mark"

(* Only the tab changes the password or makes a backup, and only of a hub  *)
(* that is set up.                                                         *)
CallsAllowed ==
    /\ call[Other].op \notin {"change", "backup"}
    /\ halted \/ call[Tab].op \in {"change", "backup"} => row.started
    /\ call[Tab].op = "change" => call[Tab].new \in Passwords

(* JWT secrets are drawn in order.  None that is used or kept is as old as *)
(* the last one that was retired, and a change of password that has        *)
(* committed leaves none in the table until it has dropped that in memory. *)
SecretsInOrder ==
    /\ drawn \in Nat /\ secret \in 0..drawn /\ loaded \in 0..drawn /\ retired \in 0..drawn
    /\ secret = 0 \/ secret > retired
    /\ loaded = 0 \/ loaded > retired
    /\ call[Tab].op = "change" /\ call[Tab].at \in {"commit", "reset"} => loaded # 0
    /\ call[Tab].op = "change" /\ call[Tab].at = "reset" => secret = 0

HubInv == HubTypes /\ LockHeld /\ PasswordIsSet /\ CallsAllowed /\ SecretsInOrder

(* However old its answers are, the tab takes only a hub that is set up    *)
(* for one, and shows pages of the inside of the hub only then.            *)
TabInv ==
    /\ store \in StoreType /\ asked \in AskedType
    /\ setupReturnTo \in Maybe(PasswordPages \cup {"advanced"})
    /\ info.completed \/ page \in InnerPages => row.started

Inv == HubInv /\ TabInv

(***************************************************************************)
(* What every step of the hub does: it keeps its invariant, takes a step   *)
(* of the abstract life cycle or none, and stays set up.                   *)
(***************************************************************************)
LifeStep == [Lifecycle!Next]_(Lifecycle!vars)
HubStep == HubInv' /\ LifeStep /\ (row.started => row'.started)

USE HubAssumption, ClientsAssumption

(* A step that leaves alone what the life cycle is about.                  *)
LEMMA Stutters ==
    ASSUME UNCHANGED <<entry["check"], row.started, node, Changing>>
    PROVE  LifeStep
BY DEF LifeStep, Lifecycle!vars

(* A password that passes the check is one.                                *)
LEMMA Changes ==
    ASSUME CallsAllowed
    PROVE  Changing <=> call[Tab].op = "change" /\ call[Tab].at = "commit"
BY DEF CallsAllowed, Changing, Tab, Other

LEMMA HubUnchanged ==
    ASSUME HubInv, UNCHANGED hubVars
    PROVE  HubStep
<1>1. HubInv'
  BY DEF HubInv, HubTypes, LockHeld, PasswordIsSet, CallsAllowed, SecretsInOrder, hubVars, tableVars, nodeVars,
         startVars
<1>2. LifeStep
  BY Stutters DEF hubVars, tableVars, nodeVars, startVars, Changing
<1> QED
  BY <1>1, <1>2 DEF HubStep, hubVars, tableVars

(* The setup writes a password only while no node is on.                   *)
LEMMA SetupStep ==
    ASSUME HubInv, NEW p \in Passwords, NEW b \in Maybe(Backends), NEW m \in BOOLEAN,
           SetupAccepted(b), Setup(p, b, m)
    PROVE  HubStep
<1>1. /\ entry' = [entry EXCEPT !["check"] = p, !["mnemonic"] = IF m THEN p ELSE @]
      /\ row' = [row EXCEPT !.backend = IF b = None THEN @ ELSE b]
      /\ UNCHANGED <<secret, drawn, loaded, node, lock, start, call, halted, restore, retired, env>>
      /\ ~row.started /\ lock = "free"
  BY DEF Setup, SetupAccepted, SetupCompleted, nodeVars, startVars
<1>2. entry' \in [Keys -> Maybe(Passwords)] /\ entry'["check"] = p /\ p # None
  BY <1>1 DEF HubInv, HubTypes, Keys, Maybe
<1>3. row' \in RowType /\ row'.started = row.started
  BY <1>1 DEF HubInv, HubTypes, RowType, Maybe
<1>4. HubInv'
  BY <1>1, <1>2, <1>3 DEF HubInv, HubTypes, LockHeld, PasswordIsSet, CallsAllowed, SecretsInOrder
<1>5. ~node /\ start.at = None
  BY <1>1 DEF HubInv, LockHeld, PasswordIsSet, None
<1>6. Lifecycle!Configure
  BY <1>1, <1>2, <1>3, <1>5 DEF Lifecycle!Configure, Changing
<1> QED
  BY <1>3, <1>4, <1>6 DEF HubStep, LifeStep, Lifecycle!Next

(* LoadJWTSecret: the secret in memory is later than the last that was     *)
(* retired.                                                                *)
LEMMA LoadStep ==
    ASSUME HubInv, NEW p \in Maybe(Passwords), LoadJWTSecret(p), UNCHANGED <<retired, call>>
    PROVE  /\ entry' \in [Keys -> Maybe(Passwords)] /\ UNCHANGED entry["check"]
           /\ SecretsInOrder'
<1>1. CASE loaded = 0 /\ secret = 0
  BY <1>1 DEF LoadJWTSecret, HubInv, HubTypes, SecretsInOrder, Keys
<1>2. CASE ~(loaded = 0 /\ secret = 0)
  <2>1. loaded' = (IF loaded = 0 THEN secret ELSE loaded) /\ UNCHANGED <<entry, drawn, secret>>
    BY <1>2 DEF LoadJWTSecret
  <2> QED
    BY <1>2, <2>1 DEF HubInv, HubTypes, SecretsInOrder
<1> QED
  BY <1>1, <1>2

(* StartHandler: a start begins, or is refused since another is under way. *)
LEMMA StartHandlerStep ==
    ASSUME HubInv, NEW p \in Maybe(Passwords), StartHandler(p)
    PROVE  HubStep
<1>1. /\ LoadJWTSecret(p)
      /\ UNCHANGED <<row, node, call, halted, restore, retired, env>>
      /\ \/ lock = "free" /\ lock' = "start" /\ start' = [at |-> "check", with |-> p]
         \/ UNCHANGED <<lock, start>>
  BY DEF StartHandler, nodeVars
<1>2. entry' \in [Keys -> Maybe(Passwords)] /\ UNCHANGED entry["check"] /\ SecretsInOrder'
  BY <1>1, LoadStep
<1>3. start' \in StartType
  BY <1>1 DEF HubInv, HubTypes, StartType
<1>4. HubTypes' /\ CallsAllowed'
  BY <1>1, <1>2, <1>3 DEF HubInv, HubTypes, CallsAllowed
<1>5. LockHeld' /\ PasswordIsSet'
  <2>1. CASE lock = "free" /\ lock' = "start" /\ start' = [at |-> "check", with |-> p]
    <3>1. start.at = None
      BY <2>1 DEF HubInv, LockHeld
    <3> QED
      BY <1>1, <1>2, <2>1, <3>1 DEF HubInv, LockHeld, PasswordIsSet, None, Tab, Other
  <2>2. CASE UNCHANGED <<lock, start>>
    BY <1>1, <1>2, <2>2 DEF HubInv, LockHeld, PasswordIsSet
  <2> QED
    BY <1>1, <2>1, <2>2
<1>6. LifeStep
  BY <1>1, <1>2, Stutters DEF Changing
<1> QED
  BY <1>1, <1>2, <1>4, <1>5, <1>6 DEF HubInv, HubStep

(* A start that fails leaves the lock to others.                           *)
LEMMA FailedStart ==
    ASSUME HubInv, StartFails
    PROVE  start' = NotStarting /\ start' \in StartType /\ lock' = "free" /\ start'.at = None
BY DEF HubInv, HubTypes, StartFails, StartType, NotStarting, Maybe

(* What holds after a step of a start that gives up, whatever it has done  *)
(* before: nothing waits for the lock a start holds.                       *)
LEMMA StartGivesUp ==
    ASSUME HubInv, StartFails, start.at # None, start.at # "mark",
           UNCHANGED <<row, node, call, halted, restore, retired, env>>,
           entry' \in [Keys -> Maybe(Passwords)], UNCHANGED entry["check"], SecretsInOrder'
    PROVE  HubStep
<1>1. start' \in StartType /\ lock' = "free" /\ start'.at = None
  BY FailedStart
<1>2. \A c \in Callers : ~(call[c].op \in {"stop", "change"} /\ call[c].at = "wait")
  BY DEF HubInv, LockHeld, Tab, Other
<1>3. HubInv'
  BY <1>1, <1>2 DEF HubInv, HubTypes, LockHeld, PasswordIsSet, CallsAllowed, None
<1>4. LifeStep
  BY Stutters DEF Changing
<1> QED
  BY <1>3, <1>4 DEF HubStep

LEMMA StartChecksStep ==
    ASSUME HubInv, StartChecks
    PROVE  HubStep
<1>1. /\ start.at = "check"
      /\ UNCHANGED <<row, node, call, halted, restore, retired, env>>
  BY DEF StartChecks, nodeVars
<1>2. CASE /\ StartAllowed /\ LoadJWTSecret(start.with)
           /\ start' = [start EXCEPT !.at = "keys"] /\ UNCHANGED lock
  <2>1. start' \in StartType /\ start'.at = "keys"
    BY <1>2 DEF HubInv, HubTypes, StartType
  <2>2. start.with \in Maybe(Passwords)
    BY DEF HubInv, HubTypes, StartType
  <2>3. entry' \in [Keys -> Maybe(Passwords)] /\ UNCHANGED entry["check"] /\ SecretsInOrder'
    BY <1>1, <1>2, <2>2, LoadStep
  <2>4. entry["check"] # None
    BY <1>2 DEF StartAllowed
  <2>5. HubTypes' /\ CallsAllowed'
    BY <1>1, <2>1, <2>3 DEF HubInv, HubTypes, CallsAllowed
  <2>6. LockHeld' /\ PasswordIsSet'
    BY <1>1, <1>2, <2>1, <2>3, <2>4 DEF HubInv, LockHeld, PasswordIsSet, None
  <2>7. LifeStep
    BY <1>1, <2>3, Stutters DEF Changing
  <2> QED
    BY <1>1, <2>3, <2>5, <2>6, <2>7 DEF HubInv, HubStep
<1>3. CASE StartFails /\ UNCHANGED <<entry, secret, drawn, loaded>>
  <2>1. entry' \in [Keys -> Maybe(Passwords)] /\ UNCHANGED entry["check"] /\ SecretsInOrder'
    BY <1>1, <1>3 DEF HubInv, HubTypes, SecretsInOrder
  <2> QED
    BY <1>1, <1>3, <2>1, StartGivesUp DEF None
<1> QED
  BY <1>2, <1>3 DEF StartChecks

LEMMA KeysInitStep ==
    ASSUME HubInv, KeysInit
    PROVE  HubStep
<1> DEFINE opens(k) == entry[k] \in {None, start.with}
<1>1. /\ start.at = "keys"
      /\ entry' = [entry EXCEPT !["nostr"] = IF @ = None THEN start.with ELSE @,
                                !["mnemonic"] = IF @ = None /\ opens("nostr") THEN start.with ELSE @]
      /\ UNCHANGED <<row, secret, drawn, loaded, node, call, halted, restore, retired, env>>
      /\ \/ start' = [start EXCEPT !.at = "launch"] /\ UNCHANGED lock
         \/ StartFails
  BY DEF KeysInit, nodeVars
<1>2. start.with \in Maybe(Passwords)
  BY DEF HubInv, HubTypes, StartType
<1> HIDE DEF opens
<1>3. entry' \in [Keys -> Maybe(Passwords)] /\ UNCHANGED entry["check"]
  BY <1>1, <1>2 DEF HubInv, HubTypes, Keys
<1>4. SecretsInOrder'
  BY <1>1 DEF HubInv, SecretsInOrder
<1>5. CASE start' = [start EXCEPT !.at = "launch"] /\ UNCHANGED lock
  <2>1. start' \in StartType /\ start'.at = "launch"
    BY <1>5 DEF HubInv, HubTypes, StartType
  <2>2. HubTypes' /\ CallsAllowed'
    BY <1>1, <1>3, <2>1 DEF HubInv, HubTypes, CallsAllowed
  <2>3. LockHeld' /\ PasswordIsSet'
    BY <1>1, <1>3, <1>5, <2>1 DEF HubInv, LockHeld, PasswordIsSet, None
  <2>4. LifeStep
    BY <1>1, <1>3, Stutters DEF Changing
  <2> QED
    BY <1>1, <1>4, <2>2, <2>3, <2>4 DEF HubInv, HubStep
<1>6. CASE StartFails
  BY <1>1, <1>3, <1>4, <1>6, StartGivesUp DEF None
<1> QED
  BY <1>1, <1>5, <1>6

LEMMA LaunchStep ==
    ASSUME HubInv, LaunchLNBackend
    PROVE  HubStep
<1>1. /\ start.at = "launch"
      /\ UNCHANGED <<entry, row, secret, drawn, loaded, call, halted, restore, retired, env>>
      /\ \/ node' = TRUE /\ start' = [start EXCEPT !.at = "mark"] /\ UNCHANGED lock
         \/ StartFails /\ UNCHANGED node
  BY DEF LaunchLNBackend, tableVars
<1>2. SecretsInOrder' /\ entry' \in [Keys -> Maybe(Passwords)]
  BY <1>1 DEF HubInv, HubTypes, SecretsInOrder
<1>3. CASE node' = TRUE /\ start' = [start EXCEPT !.at = "mark"] /\ UNCHANGED lock
  <2>1. start' \in StartType /\ start'.at = "mark"
    BY <1>3 DEF HubInv, HubTypes, StartType
  <2>2. entry["check"] # None
    BY <1>1 DEF HubInv, PasswordIsSet
  <2>3. HubTypes' /\ CallsAllowed'
    BY <1>1, <1>3, <2>1 DEF HubInv, HubTypes, CallsAllowed
  <2>4. LockHeld' /\ PasswordIsSet'
    BY <1>1, <1>3, <2>1, <2>2 DEF HubInv, LockHeld, PasswordIsSet, None
  <2>5. Lifecycle!Run
    BY <1>1, <1>3, <2>2 DEF Lifecycle!Run, Changing
  <2> QED
    BY <1>1, <1>2, <2>3, <2>4, <2>5 DEF HubInv, HubStep, LifeStep, Lifecycle!Next
<1>4. CASE StartFails /\ UNCHANGED node
  BY <1>1, <1>2, <1>4, StartGivesUp DEF None
<1> QED
  BY <1>1, <1>3, <1>4

LEMMA MarkStep ==
    ASSUME HubInv, MarkStarted
    PROVE  HubStep
<1>1. /\ start.at = "mark"
      /\ row' = [row EXCEPT !.started = TRUE]
      /\ start' = [start EXCEPT !.at = "relays"]
      /\ UNCHANGED <<entry, secret, drawn, loaded, node, lock, call, halted, restore, retired, env>>
  BY DEF MarkStarted, nodeVars
<1>2. row' \in RowType /\ row'.started
  BY <1>1 DEF HubInv, HubTypes, RowType
<1>3. start' \in StartType /\ start'.at = "relays"
  BY <1>1 DEF HubInv, HubTypes, StartType
<1>4. entry["check"] # None
  BY <1>1 DEF HubInv, PasswordIsSet
<1>5. HubInv'
  BY <1>1, <1>2, <1>3, <1>4 DEF HubInv, HubTypes, LockHeld, PasswordIsSet, CallsAllowed, SecretsInOrder, None
<1>6. Lifecycle!Complete
  BY <1>1, <1>2, <1>4 DEF Lifecycle!Complete, Changing, HubInv, HubTypes, RowType
<1> QED
  BY <1>2, <1>5, <1>6 DEF HubStep, LifeStep, Lifecycle!Next

LEMMA StartEndsStep ==
    ASSUME HubInv, StartEnds
    PROVE  HubStep
<1>1. /\ start.at = "relays"
      /\ UNCHANGED <<entry, row, secret, drawn, loaded, node, call, halted, restore, retired, env>>
      /\ start' = NotStarting /\ lock' = "free"
  BY DEF StartEnds, StartFails, tableVars
<1>2. start' \in StartType /\ start'.at = None
  BY <1>1 DEF StartType, NotStarting, Maybe
<1>3. \A c \in Callers : ~(call[c].op \in {"stop", "change"} /\ call[c].at = "wait")
  BY <1>1 DEF HubInv, LockHeld, Tab, Other, None
<1>4. HubInv'
  BY <1>1, <1>2, <1>3 DEF HubInv, HubTypes, LockHeld, PasswordIsSet, CallsAllowed, SecretsInOrder, None
<1>5. LifeStep
  BY <1>1, Stutters DEF Changing
<1> QED
  BY <1>1, <1>4, <1>5 DEF HubStep

(***************************************************************************)
(* Stopping.                                                               *)
(***************************************************************************)
LEMMA StopLNClientStep ==
    ASSUME HubInv, StopLNClient
    PROVE  HubStep
<1>1. /\ node' = FALSE
      /\ UNCHANGED <<entry, row, secret, drawn, loaded, lock, start, call, halted, restore, retired, env>>
  BY DEF StopLNClient, tableVars, startVars
<1>2. HubInv'
  BY <1>1 DEF HubInv, HubTypes, LockHeld, PasswordIsSet, CallsAllowed, SecretsInOrder
<1>3. Lifecycle!Stop
  BY <1>1 DEF Lifecycle!Stop, Changing
<1> QED
  BY <1>1, <1>2, <1>3 DEF HubStep, LifeStep, Lifecycle!Next

LEMMA LNClientStoppedStep ==
    ASSUME HubInv, LNClientStopped
    PROVE  HubStep
<1>1. UNCHANGED <<entry, row, secret, drawn, loaded, node, lock, start, call, halted, restore, retired, env>>
  BY DEF LNClientStopped, tableVars, startVars
<1>2. HubInv'
  BY <1>1 DEF HubInv, HubTypes, LockHeld, PasswordIsSet, CallsAllowed, SecretsInOrder
<1> QED
  BY <1>1, <1>2, Stutters DEF HubStep, Changing

(* A request that goes on to a step without danger: what it was allowed to *)
(* do, it still is.                                                        *)
LEMMA CallStep ==
    ASSUME HubInv, NEW c \in Callers, NEW r \in CallType, call' = [call EXCEPT ![c] = r],
           UNCHANGED <<entry, row, secret, drawn, node, restore, env, start, loaded, retired, halted>>,
           LockHeld', CallsAllowed',
           c = Tab /\ r.op = "change" => r.at \notin {"commit", "reset"},
           ~(c = Tab /\ call[c].op = "change" /\ call[c].at = "commit")
    PROVE  HubStep
<1>1. call' \in [Callers -> CallType] /\ (\A d \in Callers : call'[d] = IF d = c THEN r ELSE call[d])
  BY DEF HubInv, HubTypes
<1>2. HubTypes' /\ PasswordIsSet'
  BY <1>1 DEF HubInv, HubTypes, PasswordIsSet
<1>3. SecretsInOrder'
  BY <1>1 DEF HubInv, SecretsInOrder, Tab, Other
<1>4. Changing <=> call[Tab].op = "change" /\ call[Tab].at = "commit"
  BY Changes DEF HubInv
<1>5. Changing' <=> call'[Tab].op = "change" /\ call'[Tab].at = "commit"
  BY DEF CallsAllowed, Changing, Tab, Other
<1>6. UNCHANGED Changing
  BY <1>1, <1>4, <1>5 DEF Changing, Tab, Other
<1>7. LifeStep
  BY <1>6, Stutters
<1> QED
  BY <1>2, <1>3, <1>7 DEF HubInv, HubStep

LEMMA StopHandlerStep ==
    ASSUME HubInv, NEW c \in Callers, StopHandler(c)
    PROVE  HubStep
<1> DEFINE r == [Idle EXCEPT !.op = "stop", !.at = "stop"]
<1>1. /\ call[c] = Idle /\ call' = [call EXCEPT ![c] = r]
      /\ UNCHANGED <<entry, row, secret, drawn, node, restore, env, lock, start, loaded, retired, halted>>
  BY DEF StopHandler, tableVars, nodeVars, startVars
<1>2. r \in CallType /\ r.op = "stop" /\ r.at = "stop"
  BY DEF Idle, CallType, Maybe
<1> HIDE DEF r
<1>3. \A d \in Callers : call'[d] = IF d = c THEN r ELSE call[d]
  BY <1>1 DEF HubInv, HubTypes
<1>4. LockHeld' /\ CallsAllowed'
  BY <1>1, <1>2, <1>3 DEF HubInv, LockHeld, CallsAllowed, Idle, Tab, Other
<1>5. call[c].op = "idle"
  BY <1>1 DEF Idle
<1> QED
  BY <1>1, <1>2, <1>4, <1>5, CallStep

LEMMA StopStepStep ==
    ASSUME HubInv, NEW c \in Callers, StopStep(c)
    PROVE  HubStep
<1>1. /\ call[c].at = "stop"
      /\ UNCHANGED <<entry, row, secret, drawn, node, restore, env, start, loaded, retired, halted>>
      /\ \/ lock = "free" /\ lock' = c /\ call' = [call EXCEPT ![c] = [@ EXCEPT !.at = "wait"]]
         \/ UNCHANGED lock /\ call' = [call EXCEPT ![c] = [Idle EXCEPT !.op = "failed"]]
  BY DEF StopStep, StopBegins, Finish, tableVars
<1>2. CASE lock = "free" /\ lock' = c /\ call' = [call EXCEPT ![c] = [@ EXCEPT !.at = "wait"]]
  <2> DEFINE r == [call[c] EXCEPT !.at = "wait"]
  <2>1. r \in CallType /\ r.at = "wait" /\ r.op = call[c].op /\ r.new = call[c].new
    BY DEF HubInv, HubTypes, CallType
  <2>2. call' = [call EXCEPT ![c] = r]
    BY <1>2
  <2> HIDE DEF r
  <2>3. \A d \in Callers : call'[d] = IF d = c THEN r ELSE call[d]
    BY <2>2 DEF HubInv, HubTypes
  <2>4. LockHeld' /\ CallsAllowed'
    BY <1>1, <1>2, <2>1, <2>3 DEF HubInv, LockHeld, CallsAllowed, Tab, Other
  <2> QED
    BY <1>1, <2>1, <2>2, <2>4, CallStep
<1>3. CASE UNCHANGED lock /\ call' = [call EXCEPT ![c] = [Idle EXCEPT !.op = "failed"]]
  <2> DEFINE r == [Idle EXCEPT !.op = "failed"]
  <2>1. r \in CallType /\ r.op = "failed"
    BY DEF Idle, CallType, Maybe
  <2>2. call' = [call EXCEPT ![c] = r]
    BY <1>3
  <2> HIDE DEF r
  <2>3. \A d \in Callers : call'[d] = IF d = c THEN r ELSE call[d]
    BY <2>2 DEF HubInv, HubTypes
  <2>4. LockHeld' /\ CallsAllowed'
    BY <1>1, <1>3, <2>1, <2>3 DEF HubInv, LockHeld, CallsAllowed, Tab, Other
  <2> QED
    BY <1>1, <2>1, <2>2, <2>4, CallStep
<1> QED
  BY <1>1, <1>2, <1>3

LEMMA StopReturnsStep ==
    ASSUME HubInv, NEW c \in Callers, StopReturns(c)
    PROVE  HubStep
<1> DEFINE r == [Idle EXCEPT !.op = "done"]
<1>1. /\ call[c].at = "wait" /\ call[c].op \in {"stop", "change"} /\ lock' = "free"
      /\ UNCHANGED <<entry, row, secret, drawn, node, restore, env, start, loaded, retired, halted>>
      /\ call' = [call EXCEPT ![c] = r]
  BY DEF StopReturns, Finish, tableVars, nodeVars
<1>2. r \in CallType /\ r.op = "done"
  BY DEF Idle, CallType, Maybe
<1> HIDE DEF r
<1>3. \A d \in Callers : call'[d] = IF d = c THEN r ELSE call[d]
  BY <1>1 DEF HubInv, HubTypes
<1>4. lock = c
  BY <1>1 DEF HubInv, LockHeld
<1>5. start.at = None /\ \A d \in Callers : call[d].op \in {"stop", "change"} /\ call[d].at = "wait" => d = c
  BY <1>4 DEF HubInv, LockHeld, Tab, Other
<1>6. LockHeld' /\ CallsAllowed'
  BY <1>1, <1>2, <1>3, <1>5 DEF HubInv, LockHeld, CallsAllowed, Tab, Other
<1> QED
  BY <1>1, <1>2, <1>6, CallStep

(***************************************************************************)
(* The unlock password, the account, backup and restart.                   *)
(***************************************************************************)
(* A change is asked for by a tab with a session, at a hub that is set up. *)
LEMMA ChangeHandlerStep ==
    ASSUME HubInv, NEW old \in Passwords, NEW new \in Passwords, row.started, Authorised(token),
           ChangePasswordHandler(Tab, old, new)
    PROVE  HubStep
<1> DEFINE r == [op |-> "change", at |-> "commit", old |-> old, new |-> new]
<1>1. /\ node /\ call[Tab] = Idle
      /\ call' = [call EXCEPT ![Tab] = r]
      /\ UNCHANGED <<entry, row, secret, drawn, loaded, node, lock, start, halted, restore, retired, env>>
  BY DEF ChangePasswordHandler, ChangeAccepted, tableVars, nodeVars, startVars
<1>2. r \in CallType /\ r.op = "change" /\ r.at = "commit" /\ r.new = new
  BY DEF CallType, Maybe
<1> HIDE DEF r
<1>3. call'[Tab] = r /\ call'[Other] = call[Other] /\ call' \in [Callers -> CallType]
  BY <1>1, <1>2 DEF HubInv, HubTypes, Tab, Other
<1>4. HubTypes' /\ PasswordIsSet'
  BY <1>1, <1>3 DEF HubInv, HubTypes, PasswordIsSet
<1>5. LockHeld' /\ CallsAllowed'
  BY <1>1, <1>2, <1>3 DEF HubInv, LockHeld, CallsAllowed, Tab, Other
<1>6. SecretsInOrder'
  BY <1>1, <1>2, <1>3 DEF HubInv, SecretsInOrder, Authorised, Tab, Other
<1>7. Changing'
  BY <1>2, <1>3 DEF Changing
<1>8. Lifecycle!AskForChange
  BY <1>1, <1>7 DEF Lifecycle!AskForChange
<1> QED
  BY <1>1, <1>4, <1>5, <1>6, <1>8 DEF HubInv, HubStep, LifeStep, Lifecycle!Next

(* The password of a hub that is set up becomes the new one, or the change *)
(* fails and leaves it.                                                    *)
LEMMA ChangeCommitsStep ==
    ASSUME HubInv, NEW c \in Callers, ChangeCommits(c)
    PROVE  HubStep
<1>1. c = Tab /\ call[Tab].op = "change" /\ call[Tab].at = "commit"
  BY DEF ChangeCommits, HubInv, CallsAllowed, Tab, Other
<1>2. /\ UNCHANGED <<row, drawn, loaded, node, lock, start, halted, restore, retired, env>>
      /\ \/ /\ entry' = [k \in Keys |-> IF k = "jwt" \/ entry[k] = None THEN None ELSE call[Tab].new]
            /\ secret' = 0
            /\ call' = [call EXCEPT ![Tab] = [@ EXCEPT !.at = "reset"]]
         \/ /\ call' = [call EXCEPT ![Tab] = [Idle EXCEPT !.op = "failed"]]
            /\ UNCHANGED <<entry, secret>>
  BY <1>1 DEF ChangeCommits, Finish, nodeVars, startVars
<1>3. row.started /\ entry["check"] # None /\ entry["check"] \in Passwords /\ call[Tab].new \in Passwords
      /\ call[Tab].new # None
  BY <1>1 DEF HubInv, HubTypes, PasswordIsSet, CallsAllowed, Maybe, Keys
<1>4. Changing
  BY <1>1 DEF Changing
<1>5. CASE /\ entry' = [k \in Keys |-> IF k = "jwt" \/ entry[k] = None THEN None ELSE call[Tab].new]
           /\ secret' = 0
           /\ call' = [call EXCEPT ![Tab] = [@ EXCEPT !.at = "reset"]]
  <2> DEFINE r == [call[Tab] EXCEPT !.at = "reset"]
  <2>1. r \in CallType /\ r.op = "change" /\ r.at = "reset" /\ r.new = call[Tab].new
    BY <1>1 DEF HubInv, HubTypes, CallType
  <2>2. call' = [call EXCEPT ![Tab] = r]
    BY <1>5
  <2> HIDE DEF r
  <2>3. call'[Tab] = r /\ call'[Other] = call[Other] /\ call' \in [Callers -> CallType]
    BY <2>1, <2>2 DEF HubInv, HubTypes, Tab, Other
  <2>4. entry' \in [Keys -> Maybe(Passwords)] /\ entry'["check"] = call[Tab].new
    BY <1>3, <1>5 DEF Maybe, Keys
  <2>5. HubTypes' /\ PasswordIsSet'
    BY <1>2, <1>3, <2>3, <2>4 DEF HubInv, HubTypes, PasswordIsSet
  <2>6. LockHeld' /\ CallsAllowed'
    BY <1>2, <1>3, <2>1, <2>3 DEF HubInv, LockHeld, CallsAllowed, Tab, Other
  <2>7. SecretsInOrder'
    BY <1>1, <1>2, <1>5, <2>1, <2>3 DEF HubInv, SecretsInOrder, Tab
  <2>8. ~Changing'
    BY <2>1, <2>3, <2>6 DEF Changing, CallsAllowed, Tab, Other
  <2>9. Lifecycle!ChangePassword
    BY <1>2, <1>3, <1>4, <2>4, <2>8 DEF Lifecycle!ChangePassword
  <2> QED
    BY <1>2, <2>5, <2>6, <2>7, <2>9 DEF HubInv, HubStep, LifeStep, Lifecycle!Next
<1>6. CASE call' = [call EXCEPT ![Tab] = [Idle EXCEPT !.op = "failed"]] /\ UNCHANGED <<entry, secret>>
  <2> DEFINE r == [Idle EXCEPT !.op = "failed"]
  <2>1. r \in CallType /\ r.op = "failed"
    BY DEF Idle, CallType, Maybe
  <2>2. call' = [call EXCEPT ![Tab] = r]
    BY <1>6
  <2> HIDE DEF r
  <2>3. call'[Tab] = r /\ call'[Other] = call[Other] /\ call' \in [Callers -> CallType]
    BY <2>1, <2>2 DEF HubInv, HubTypes, Tab, Other
  <2>4. HubTypes' /\ PasswordIsSet'
    BY <1>2, <1>6, <2>3 DEF HubInv, HubTypes, PasswordIsSet
  <2>5. LockHeld' /\ CallsAllowed'
    BY <1>2, <2>1, <2>3 DEF HubInv, LockHeld, CallsAllowed, Tab, Other
  <2>6. SecretsInOrder'
    BY <1>2, <1>6, <2>1, <2>3 DEF HubInv, SecretsInOrder, Tab
  <2>7. ~Changing'
    BY <2>1, <2>3, <2>5 DEF Changing, CallsAllowed, Tab, Other
  <2>8. Lifecycle!ChangePassword
    BY <1>2, <1>3, <1>4, <1>6, <2>7 DEF Lifecycle!ChangePassword
  <2> QED
    BY <1>2, <2>4, <2>5, <2>6, <2>8 DEF HubInv, HubStep, LifeStep, Lifecycle!Next
<1> QED
  BY <1>2, <1>5, <1>6

(* The secret in memory is dropped after that in the table: none is left   *)
(* that was drawn before.                                                  *)
LEMMA ChangeResetsStep ==
    ASSUME HubInv, NEW c \in Callers, ChangeResets(c)
    PROVE  HubStep
<1> DEFINE r == [call[Tab] EXCEPT !.at = "stop"]
<1>1. c = Tab /\ call[Tab].op = "change" /\ call[Tab].at = "reset"
  BY DEF ChangeResets, HubInv, CallsAllowed, Tab, Other
<1>2. /\ loaded' = 0 /\ retired' = drawn
      /\ call' = [call EXCEPT ![Tab] = r]
      /\ UNCHANGED <<entry, row, secret, drawn, node, lock, start, halted, restore, env>>
  BY <1>1 DEF ChangeResets, tableVars, nodeVars, startVars
<1>3. r \in CallType /\ r.op = "change" /\ r.at = "stop" /\ r.new = call[Tab].new
  BY <1>1 DEF HubInv, HubTypes, CallType
<1> HIDE DEF r
<1>4. call'[Tab] = r /\ call'[Other] = call[Other] /\ call' \in [Callers -> CallType]
  BY <1>2, <1>3 DEF HubInv, HubTypes, Tab, Other
<1>5. HubTypes' /\ PasswordIsSet'
  BY <1>2, <1>4 DEF HubInv, HubTypes, PasswordIsSet
<1>6. LockHeld' /\ CallsAllowed'
  BY <1>1, <1>2, <1>3, <1>4 DEF HubInv, LockHeld, CallsAllowed, Tab, Other
<1>7. SecretsInOrder'
  BY <1>1, <1>2, <1>3, <1>4 DEF HubInv, SecretsInOrder
<1>8. Changing <=> FALSE
  BY <1>1, Changes DEF HubInv
<1>9. Changing' <=> FALSE
  BY <1>3, <1>4, <1>6 DEF Changing, CallsAllowed, Tab, Other
<1>10. UNCHANGED Changing
  BY <1>8, <1>9 DEF Changing
<1> QED
  BY <1>2, <1>5, <1>6, <1>7, <1>10, Stutters DEF HubInv, HubStep

(* Steps that leave everything the invariant is about but the row.         *)
LEMMA RowStep ==
    ASSUME HubInv, row' \in RowType, row'.started = row.started,
           UNCHANGED <<entry, secret, drawn, loaded, node, lock, start, call, halted, restore, retired, env>>
    PROVE  HubStep
<1>1. HubInv'
  BY DEF HubInv, HubTypes, LockHeld, PasswordIsSet, CallsAllowed, SecretsInOrder
<1>2. LifeStep
  BY Stutters DEF Changing
<1> QED
  BY <1>1, <1>2 DEF HubStep

LEMMA UnlockStep ==
    ASSUME HubInv, NEW p \in Passwords, UnlockHandler(p)
    PROVE  HubStep
BY RowStep DEF UnlockHandler, tableVars, nodeVars, startVars, HubInv, HubTypes

LEMMA AutoUnlockStep ==
    ASSUME HubInv, NEW p \in Maybe(Passwords), SetAutoUnlockPassword(p)
    PROVE  HubStep
<1>1. /\ row' = [row EXCEPT !.auto = p]
      /\ UNCHANGED <<entry, secret, drawn, loaded, node, lock, start, call, halted, restore, retired, env>>
  BY DEF SetAutoUnlockPassword, nodeVars, startVars
<1>2. row' \in RowType /\ row'.started = row.started
  BY <1>1 DEF HubInv, HubTypes, RowType
<1> QED
  BY <1>1, <1>2, RowStep

LEMMA AccountStep ==
    ASSUME HubInv, (\E same \in BOOLEAN : CallbackHandler(same)) \/ FetchUserToken \/ UnlinkAccount
    PROVE  HubStep
<1>1. UNCHANGED <<entry, secret, drawn, loaded, node, lock, start, call, halted, restore, retired, env>>
  BY DEF CallbackHandler, FetchUserToken, UnlinkAccount, nodeVars, startVars
<1>2. row' \in RowType /\ row'.started = row.started
  <2>1. CASE \E same \in BOOLEAN : CallbackHandler(same)
    BY <2>1 DEF CallbackHandler, HubInv, HubTypes, RowType
  <2>2. CASE FetchUserToken
    BY <2>2 DEF FetchUserToken, HubInv, HubTypes, RowType
  <2>3. CASE UnlinkAccount
    BY <2>3 DEF UnlinkAccount, HubInv, HubTypes, RowType
  <2> QED
    BY <2>1, <2>2, <2>3
<1> QED
  BY <1>1, <1>2, RowStep

LEMMA BackupHandlerStep ==
    ASSUME HubInv, NEW p \in Passwords, row.started, BackupHandler(Tab, p)
    PROVE  HubStep
<1> DEFINE r == [Idle EXCEPT !.op = "backup", !.old = p, !.at = IF cancel = "none" THEN "archive" ELSE "wait"]
<1>1. /\ call[Tab] = Idle /\ call' = [call EXCEPT ![Tab] = r]
      /\ UNCHANGED <<entry, row, secret, drawn, node, restore, env, lock, start, loaded, retired, halted>>
  BY DEF BackupHandler, tableVars, startVars
<1>2. r \in CallType /\ r.op = "backup"
  BY DEF Idle, CallType, Maybe
<1> HIDE DEF r
<1>3. \A d \in Callers : call'[d] = IF d = Tab THEN r ELSE call[d]
  BY <1>1 DEF HubInv, HubTypes, Tab
<1>4. LockHeld' /\ CallsAllowed'
  BY <1>1, <1>2, <1>3 DEF HubInv, LockHeld, CallsAllowed, Tab, Other
<1>5. call[Tab].op = "idle"
  BY <1>1 DEF Idle
<1> QED
  BY <1>1, <1>2, <1>4, <1>5, CallStep DEF Tab

LEMMA BackupStoppedStep ==
    ASSUME HubInv, NEW c \in Callers, BackupStopped(c)
    PROVE  HubStep
<1> DEFINE r == [call[c] EXCEPT !.at = "archive"]
<1>1. /\ call[c].op = "backup" /\ call' = [call EXCEPT ![c] = r]
      /\ UNCHANGED <<entry, row, secret, drawn, node, restore, env, lock, start, loaded, retired, halted>>
  BY DEF BackupStopped, tableVars, nodeVars, startVars
<1>2. r \in CallType /\ r.op = "backup"
  BY <1>1 DEF HubInv, HubTypes, CallType
<1> HIDE DEF r
<1>3. \A d \in Callers : call'[d] = IF d = c THEN r ELSE call[d]
  BY <1>1 DEF HubInv, HubTypes
<1>4. LockHeld' /\ CallsAllowed'
  BY <1>1, <1>2, <1>3 DEF HubInv, LockHeld, CallsAllowed, Tab, Other
<1> QED
  BY <1>1, <1>2, <1>4, CallStep

(* The database is closed only of a hub that is set up.                    *)
LEMMA BackupArchivesStep ==
    ASSUME HubInv, NEW c \in Callers, BackupArchives(c)
    PROVE  HubStep
<1> DEFINE r == [Idle EXCEPT !.op = "done"]
<1>1. /\ call[c].op = "backup" /\ call' = [call EXCEPT ![c] = r]
      /\ row' = [row EXCEPT !.connected = FALSE] /\ halted' = TRUE
      /\ UNCHANGED <<entry, secret, drawn, node, restore, env, lock, start, loaded, retired>>
  BY DEF BackupArchives, Finish, nodeVars, startVars
<1>2. r \in CallType /\ r.op = "done"
  BY DEF Idle, CallType, Maybe
<1> HIDE DEF r
<1>3. /\ call' \in [Callers -> CallType]
      /\ \A d \in Callers : call'[d] = IF d = c THEN r ELSE call[d]
  BY <1>1, <1>2 DEF HubInv, HubTypes
<1>4. c = Tab /\ row.started
  BY <1>1 DEF HubInv, CallsAllowed, Tab, Other
<1>5. row' \in RowType /\ row'.started
  BY <1>1, <1>4 DEF HubInv, HubTypes, RowType
<1>6. HubTypes' /\ PasswordIsSet'
  BY <1>1, <1>3, <1>4, <1>5 DEF HubInv, HubTypes, PasswordIsSet
<1>7. LockHeld' /\ CallsAllowed'
  BY <1>1, <1>2, <1>3, <1>5 DEF HubInv, LockHeld, CallsAllowed, Tab, Other
<1>8. SecretsInOrder'
  BY <1>1, <1>2, <1>3, <1>4 DEF HubInv, SecretsInOrder, Tab
<1>9. Changing <=> FALSE
  BY <1>1, <1>4, Changes DEF HubInv
<1>10. Changing' <=> FALSE
  BY <1>2, <1>3, <1>4, <1>7 DEF Changing, CallsAllowed, Tab, Other
<1>11. UNCHANGED Changing
  BY <1>9, <1>10 DEF Changing
<1>12. row'.started = row.started
  BY <1>1 DEF HubInv, HubTypes, RowType
<1> QED
  BY <1>1, <1>4, <1>5, <1>6, <1>7, <1>8, <1>11, <1>12, Stutters DEF HubInv, HubStep

LEMMA RestoreStep ==
    ASSUME HubInv, NEW p \in Passwords, RestoreBackup(p)
    PROVE  HubStep
<1>1. /\ restore' = p
      /\ UNCHANGED <<entry, row, secret, drawn, loaded, node, lock, start, call, halted, retired, env>>
  BY DEF RestoreBackup, tableVars, nodeVars, startVars
<1>2. HubInv'
  BY <1>1 DEF HubInv, HubTypes, LockHeld, PasswordIsSet, CallsAllowed, SecretsInOrder, Maybe
<1> QED
  BY <1>1, <1>2, Stutters DEF HubStep, Changing

(* The answer to a request is taken.                                       *)
LEMMA AnswerTakenStep ==
    ASSUME HubInv, NEW c \in Callers, call[c].op \in {"done", "failed"},
           call' = [call EXCEPT ![c] = Idle],
           UNCHANGED <<entry, row, secret, drawn, node, restore, env, lock, start, loaded, retired, halted>>
    PROVE  HubStep
<1>1. Idle \in CallType /\ Idle.op = "idle"
  BY DEF Idle, CallType, Maybe
<1>2. \A d \in Callers : call'[d] = IF d = c THEN Idle ELSE call[d]
  BY DEF HubInv, HubTypes
<1>3. LockHeld' /\ CallsAllowed'
  BY <1>1, <1>2 DEF HubInv, LockHeld, CallsAllowed, Tab, Other
<1> QED
  BY <1>1, <1>3, CallStep

(* The process comes up with its table, or with that of a backup; sessions *)
(* and requests are gone.                                                  *)
LEMMA RestartStep ==
    ASSUME HubInv, Restart
    PROVE  HubStep
<1> DEFINE unlock == row'.auto # None /\ row'.started
<1>1. /\ entry' = IF restore = None THEN entry ELSE [k \in Keys |-> IF k = "jwt" THEN None ELSE restore]
      /\ secret' = IF restore = None THEN secret ELSE 0
      /\ row' = IF restore = None THEN row ELSE [FreshRow EXCEPT !.backend = "LDK", !.started = TRUE]
      /\ restore' = None /\ loaded' = 0 /\ node' = FALSE /\ halted' = FALSE
      /\ call' = [c \in Callers |-> IF call[c].op = "idle" THEN Idle ELSE [Idle EXCEPT !.op = "failed"]]
      /\ lock' = IF unlock THEN "boot" ELSE "free"
      /\ start' = IF unlock THEN [at |-> "check", with |-> row'.auto] ELSE NotStarting
      /\ UNCHANGED <<env, drawn, retired>>
  BY DEF Restart
<1>2. [FreshRow EXCEPT !.backend = "LDK", !.started = TRUE] \in RowType
      /\ [FreshRow EXCEPT !.backend = "LDK", !.started = TRUE].started
  BY DEF FreshRow, RowType, Maybe, Backends, HasMnemonic
<1>3. row' \in RowType /\ (restore = None => row' = row) /\ (restore # None => row'.started)
  BY <1>1, <1>2 DEF HubInv, HubTypes
<1>4. entry' \in [Keys -> Maybe(Passwords)] /\ (restore # None => entry'["check"] = restore)
      /\ (restore = None => entry' = entry)
  BY <1>1 DEF HubInv, HubTypes, Maybe, Keys
<1>5. start' \in StartType /\ start'.at \in {None, "check"} /\ (start'.at # None => lock' = "boot")
  <2>1. CASE unlock
    BY <1>1, <1>3, <2>1 DEF StartType, RowType
  <2>2. CASE ~unlock
    BY <1>1, <2>2 DEF StartType, NotStarting, Maybe
  <2> QED
    BY <2>1, <2>2
<1>6. Idle \in CallType /\ Idle.op = "idle" /\ Idle.at = None
  BY DEF Idle, CallType, Maybe
<1>7. [Idle EXCEPT !.op = "failed"] \in CallType /\ [Idle EXCEPT !.op = "failed"].op = "failed"
      /\ [Idle EXCEPT !.op = "failed"].at = None
  BY DEF Idle, CallType, Maybe
<1>8. call' \in [Callers -> CallType] /\ \A c \in Callers : call'[c].op \in {"idle", "failed"}
  BY <1>1, <1>6, <1>7
<1>9. HubTypes'
  BY <1>1, <1>3, <1>4, <1>5, <1>8 DEF HubInv, HubTypes, Maybe
<1>10. LockHeld' /\ CallsAllowed'
  BY <1>1, <1>5, <1>8 DEF LockHeld, CallsAllowed, Tab, Other
<1>11. PasswordIsSet'
  BY <1>1, <1>3, <1>4, <1>5 DEF HubInv, PasswordIsSet, None
<1>12. SecretsInOrder'
  BY <1>1, <1>8 DEF HubInv, SecretsInOrder, Tab
<1>13. Changing' <=> FALSE
  BY <1>8 DEF Changing
<1>14. Changing' = FALSE
  BY <1>13 DEF Changing
<1>15. row'.started = row.started \/ row'.started = TRUE
  BY <1>3 DEF RowType
<1>16. Lifecycle!Boot
  BY <1>1, <1>3, <1>4, <1>14, <1>15 DEF Lifecycle!Boot, HubInv, HubTypes, Maybe, RowType
<1> QED
  BY <1>3, <1>9, <1>10, <1>11, <1>12, <1>16 DEF HubInv, HubStep, LifeStep, Lifecycle!Next

(* Every step of the service.                                              *)
LEMMA ServiceStep ==
    ASSUME HubInv, Service
    PROVE  HubStep
<1>1. HubSteps \/ Restart \/ FetchUserToken
  BY DEF Service
<1>2. CASE StartSteps
  BY <1>2, StartChecksStep, KeysInitStep, LaunchStep, MarkStep, StartEndsStep DEF StartSteps
<1>3. CASE StopLNClient \/ LNClientStopped
  BY <1>3, StopLNClientStep, LNClientStoppedStep
<1>4. ASSUME NEW c \in Callers,
             \/ StopStep(c) \/ StopReturns(c) \/ ChangeCommits(c) \/ ChangeResets(c)
             \/ BackupStopped(c) \/ BackupArchives(c)
      PROVE  HubStep
  BY <1>4, StopStepStep, StopReturnsStep, ChangeCommitsStep, ChangeResetsStep, BackupStoppedStep,
     BackupArchivesStep
<1>5. CASE Restart \/ FetchUserToken
  BY <1>5, RestartStep, AccountStep
<1> QED
  BY <1>1, <1>2, <1>3, <1>4, <1>5 DEF HubSteps

(***************************************************************************)
(* The tab.                                                                *)
(***************************************************************************)
ScreenStep == Inv' /\ LifeStep

(* What a screen has to take care of.                                      *)
LEMMA TabKept ==
    ASSUME Inv, HubStep, store' \in StoreType, asked' \in AskedType,
           setupReturnTo' \in Maybe(PasswordPages \cup {"advanced"}),
           info'.completed => info.completed \/ row'.started,
           page' \in InnerPages => page \in InnerPages \/ info.completed \/ row.started
    PROVE  ScreenStep
BY DEF Inv, TabInv, HubStep, ScreenStep

(* A screen that does no more than lead on to an outer page.               *)
LEMMA LeadsOn ==
    ASSUME Inv, UNCHANGED hubVars, UNCHANGED <<info, setupReturnTo, asked>>, store' \in StoreType,
           page' \notin InnerPages \/ page' = page \/ page \in InnerPages
    PROVE  ScreenStep
<1>1. HubStep
  BY HubUnchanged DEF Inv
<1> QED
  BY <1>1, TabKept DEF Inv, TabInv

(* /api/info calls a hub complete only when it is, also after a backup.    *)
LEMMA InfoIsTrue ==
    ASSUME HubInv, NEW t
    PROVE  Info(t).completed => row.started
BY DEF HubInv, CallsAllowed, Info, SetupCompleted

LEMMA NewInfoIsTrue ==
    ASSUME HubStep
    PROVE  Info(token)'.completed => row'.started
BY DEF HubStep, HubInv, CallsAllowed, Info, SetupCompleted

LEMMA RedirectStep ==
    ASSUME Inv, Redirect
    PROVE  ScreenStep
<1>1. /\ page' = Target(page, info, returnTo, setupReturnTo)
      /\ setupReturnTo' \in {None, setupReturnTo}
      /\ UNCHANGED <<hubVars, info, store, asked>>
  BY DEF Redirect, Followed, Location
<1>2. page' \in InnerPages => page \in InnerPages \/ info.completed
  <2>1. CASE page = "/"
    <3>1. page' = HomeRedirect(info, returnTo, setupReturnTo)
      BY <1>1, <2>1 DEF Target, InnerPages, SettingsPages, SetupPages, PasswordPages, NodePages
    <3>2. ~info.halted /\ setupReturnTo # None => page' \notin InnerPages
      BY <3>1 DEF HomeRedirect, Inv, TabInv, Maybe, PasswordPages, InnerPages, SettingsPages
    <3>3. info.halted => page' \notin InnerPages
      BY <3>1 DEF HomeRedirect, InnerPages, SettingsPages
    <3>4. ~info.halted /\ setupReturnTo = None /\ ~info.completed => page' \notin InnerPages
      BY <3>1 DEF HomeRedirect, InnerPages, SettingsPages
    <3> QED
      BY <3>2, <3>3, <3>4
  <2>2. CASE page # "/" /\ page \notin InnerPages
    BY <1>1, <2>2 DEF Target, SetupRedirect, StartRedirect, UnlockRedirect, WelcomeRedirect, InnerPages,
                      SettingsPages
  <2> QED
    BY <2>1, <2>2
<1>3. HubStep
  BY <1>1, HubUnchanged DEF Inv
<1>4. setupReturnTo' \in Maybe(PasswordPages \cup {"advanced"})
  BY <1>1 DEF Inv, TabInv, Maybe
<1> QED
  BY <1>1, <1>2, <1>3, <1>4, TabKept DEF Inv, TabInv

LEMMA UseInfoStep ==
    ASSUME Inv, UseInfo
    PROVE  ScreenStep
<1>1. info' = Info(token) /\ UNCHANGED <<hubVars, page, setupReturnTo, store, asked>>
  BY DEF UseInfo, storage
<1>2. HubStep
  BY <1>1, HubUnchanged DEF Inv
<1>3. info'.completed => row'.started
  BY <1>1, <1>2, InfoIsTrue DEF Inv, HubStep
<1> QED
  BY <1>1, <1>2, <1>3, TabKept DEF Inv, TabInv

(* The pages of the setup that ask the hub for nothing.                    *)
LEMMA FormSteps ==
    ASSUME Inv,
           \/ Intro \/ ConnectAlbyAccount \/ SetupAdvanced \/ SetupPassword \/ ImportMnemonic \/ SetupNode
           \/ LDKForm \/ BarkForm \/ LNDForm \/ CLNForm \/ PhoenixdForm \/ CashuForm \/ PresetNodeForm
           \/ SetupSecurity \/ SetupTimesOut \/ SetupBack
    PROVE  ScreenStep
<1> USE DEF Show, storage, InnerPages, SettingsPages
<1>1. CASE Intro \/ ConnectAlbyAccount \/ SetupSecurity \/ SetupTimesOut
  BY <1>1, LeadsOn DEF Intro, ConnectAlbyAccount, SetupSecurity, SetupTimesOut, Inv, TabInv
<1>2. CASE SetupAdvanced
  <2>1. store' \in StoreType
    BY <1>2 DEF SetupAdvanced, Inv, TabInv, StoreType
  <2> QED
    BY <1>2, <2>1, LeadsOn DEF SetupAdvanced
<1>3. CASE SetupPassword
  <2>1. page \in PasswordPages
    BY <1>3 DEF SetupPassword, Here
  <2>2. store' \in StoreType
    BY <1>3 DEF SetupPassword, Inv, TabInv, StoreType, Maybe, Backends, HasMnemonic
  <2>3. page' \notin InnerPages
    BY <1>3, <2>1 DEF SetupPassword, PasswordPages
  <2> QED
    BY <1>3, <2>2, <2>3, LeadsOn DEF SetupPassword
<1>4. CASE ImportMnemonic
  <2>1. store' \in StoreType
    BY <1>4 DEF ImportMnemonic, Inv, TabInv, StoreType
  <2> QED
    BY <1>4, <2>1, LeadsOn DEF ImportMnemonic
<1>5. CASE SetupNode
  <2>1. \E b \in Backends : page' = NodePage[b]
    BY <1>5 DEF SetupNode, Backends
  <2>2. page' \notin InnerPages
    BY <2>1 DEF NodePage, Backends, HasMnemonic
  <2> QED
    BY <1>5, <2>2, LeadsOn DEF SetupNode, Inv, TabInv
<1>6. ASSUME NEW p, NEW b \in Maybe(Backends), NEW m \in BOOLEAN, NodeForm(p, b, m)
      PROVE  ScreenStep
  <2>1. store' \in StoreType
    BY <1>6 DEF NodeForm, Inv, TabInv, StoreType
  <2> QED
    BY <1>6, <2>1, LeadsOn DEF NodeForm
<1>7. CASE LDKForm \/ BarkForm \/ LNDForm \/ CLNForm \/ PhoenixdForm \/ CashuForm
  BY <1>6, <1>7 DEF LDKForm, BarkForm, LNDForm, CLNForm, PhoenixdForm, CashuForm, Maybe, Backends, HasMnemonic
<1>8. CASE PresetNodeForm
  <2>1. store.backend \in Maybe(Backends)
    BY DEF Inv, TabInv, StoreType
  <2>2. (info.backend \in HasMnemonic) \in BOOLEAN
    BY DEF HasMnemonic
  <2>3. NodeForm("node/preset", store.backend, info.backend \in HasMnemonic)
    BY <1>8 DEF PresetNodeForm
  <2> QED
    BY <1>6, <2>1, <2>2, <2>3
<1>9. CASE SetupBack
  BY <1>9, LeadsOn DEF SetupBack, Inv, TabInv
<1> QED
  BY <1>1, <1>2, <1>3, <1>4, <1>5, <1>7, <1>8, <1>9

(* The pages of the setup that talk to the hub.                            *)
LEMMA WelcomeStep ==
    ASSUME Inv, Welcome
    PROVE  ScreenStep
<1> USE DEF Show, InnerPages, SettingsPages
<1>1. UNCHANGED <<hubVars, info, store, asked>>
  BY DEF Welcome
<1>2. page' \notin InnerPages /\ setupReturnTo' \in Maybe(PasswordPages \cup {"advanced"})
  BY DEF Welcome, PasswordPages, Maybe, Inv, TabInv
<1>3. HubStep
  BY <1>1, HubUnchanged DEF Inv
<1> QED
  BY <1>1, <1>2, <1>3, TabKept DEF Inv, TabInv

LEMMA AuthCodeFormStep ==
    ASSUME Inv, AuthCodeForm
    PROVE  ScreenStep
<1>1. /\ UNCHANGED <<setupReturnTo, store, asked>> /\ info' = Info(token)'
      /\ page' \in {page, "/"}
      /\ \E same \in BOOLEAN : CallbackHandler(same)
  BY DEF AuthCodeForm, storage, Show
<1>2. HubStep
  BY <1>1, AccountStep DEF Inv
<1>3. info'.completed => row'.started
  BY <1>1, <1>2, NewInfoIsTrue
<1> QED
  BY <1>1, <1>2, <1>3, TabKept DEF Inv, TabInv, InnerPages, SettingsPages

LEMMA FinishSetupStep ==
    ASSUME Inv, FinishSetup
    PROVE  ScreenStep
<1>1. UNCHANGED <<page, info, setupReturnTo, store, asked>>
  BY DEF FinishSetup, storage
<1>2. HubStep
  <2>1. CASE UNCHANGED hubVars
    BY <2>1, HubUnchanged DEF Inv
  <2>2. CASE /\ store.password # None /\ SetupAccepted(store.backend)
             /\ Setup(store.password, store.backend, store.mnemonic)
    <3>1. store.password \in Passwords /\ store.backend \in Maybe(Backends) /\ store.mnemonic \in BOOLEAN
      BY <2>2 DEF Inv, TabInv, StoreType, Maybe
    <3> QED
      BY <2>2, <3>1, SetupStep DEF Inv
  <2> QED
    BY <2>1, <2>2 DEF FinishSetup
<1> QED
  BY <1>1, <1>2, TabKept DEF Inv, TabInv

LEMMA FinishStartsStep ==
    ASSUME Inv, FinishStarts
    PROVE  ScreenStep
<1>1. UNCHANGED <<page, info, setupReturnTo, store, asked>>
  BY DEF FinishStarts
<1>2. store.password \in Maybe(Passwords)
  BY DEF Inv, TabInv, StoreType
<1>3. HubStep
  BY <1>2, StartHandlerStep, HubUnchanged DEF FinishStarts, Inv
<1> QED
  BY <1>1, <1>3, TabKept DEF Inv, TabInv

LEMMA RestoreNodeStep ==
    ASSUME Inv, RestoreNode
    PROVE  ScreenStep
<1>1. UNCHANGED <<info, setupReturnTo, store, asked>> /\ page' \in {page, "/"}
  BY DEF RestoreNode, storage, Show
<1>2. HubStep
  BY RestoreStep, HubUnchanged DEF RestoreNode, Inv
<1> QED
  BY <1>1, <1>2, TabKept DEF Inv, TabInv, InnerPages, SettingsPages

LEMMA StartStep ==
    ASSUME Inv, Start
    PROVE  ScreenStep
<1>1. UNCHANGED <<page, info, setupReturnTo, store, asked>>
  BY DEF Start
<1>2. HubStep
  BY StartHandlerStep DEF Start, Inv, Maybe
<1> QED
  BY <1>1, <1>2, TabKept DEF Inv, TabInv

LEMMA UnlockScreenStep ==
    ASSUME Inv, Unlock
    PROVE  ScreenStep
<1>1. UNCHANGED <<setupReturnTo, store, asked>> /\ info' = Info(token') /\ page' = "/"
  BY DEF Unlock, Show
<1>2. HubStep
  BY UnlockStep DEF Unlock, Inv
<1>3. info'.completed => row'.started
  <2>1. info'.completed => row.started
    BY <1>1, InfoIsTrue DEF Inv
  <2> QED
    BY <1>2, <2>1 DEF HubStep
<1> QED
  BY <1>1, <1>2, <1>3, TabKept DEF Inv, TabInv, InnerPages, SettingsPages

(* The settings: the hub is set up.                                        *)
LEMMA SettingsRequestSteps ==
    ASSUME Inv, Shutdown \/ ResetRoutingData \/ MigrateLDKStorage \/ ChangeUnlockPassword \/ MigrateNode
    PROVE  ScreenStep
<1>1. UNCHANGED <<page, info, setupReturnTo, store>> /\ asked' \in AskedType
  BY DEF Shutdown, ResetRoutingData, MigrateLDKStorage, ChangeUnlockPassword, MigrateNode, Ask, AskedType,
         storage
<1>2. page \in InnerPages /\ row.started
  BY DEF Shutdown, ResetRoutingData, MigrateLDKStorage, ChangeUnlockPassword, MigrateNode, Here,
         InnerPages, SettingsPages, Inv, TabInv
<1>3. CASE Shutdown \/ ResetRoutingData \/ MigrateLDKStorage
  <2>1. StopHandler(Tab)
    BY <1>3 DEF Shutdown, ResetRoutingData, MigrateLDKStorage
  <2>2. HubStep
    BY <2>1, StopHandlerStep DEF Inv, Tab
  <2> QED
    BY <1>1, <2>2, TabKept DEF Inv, TabInv
<1>4. CASE ChangeUnlockPassword
  <2>1. HubStep
    BY <1>2, <1>4, ChangeHandlerStep DEF ChangeUnlockPassword, Inv
  <2> QED
    BY <1>1, <2>1, TabKept DEF Inv, TabInv
<1>5. CASE MigrateNode
  <2>1. HubStep
    BY <1>2, <1>5, BackupHandlerStep DEF MigrateNode, Inv
  <2> QED
    BY <1>1, <2>1, TabKept DEF Inv, TabInv
<1> QED
  BY <1>3, <1>4, <1>5

LEMMA AnsweredStep ==
    ASSUME Inv, Answered
    PROVE  ScreenStep
<1>1. /\ UNCHANGED <<setupReturnTo, store>> /\ asked' \in AskedType
      /\ call[Tab].op \in {"done", "failed"} /\ call' = [call EXCEPT ![Tab] = Idle]
      /\ UNCHANGED <<entry, row, secret, drawn, node, restore, env, lock, start, loaded, retired, halted>>
      /\ info' \in {info, Info(token)}
  BY DEF Answered, AskedType, storage, tableVars, nodeVars, startVars
<1>2. HubStep
  BY <1>1, AnswerTakenStep DEF Inv, Tab
<1>3. info'.completed => info.completed \/ row'.started
  BY <1>1, InfoIsTrue DEF Inv
<1>4. page' \notin InnerPages \/ page' = page
  BY DEF Answered, Show, InnerPages, SettingsPages, Inv, TabInv, AskedType
<1> QED
  BY <1>1, <1>2, <1>3, <1>4, TabKept DEF Inv, TabInv

LEMMA MenuStep ==
    ASSUME Inv, Menu
    PROVE  ScreenStep
<1>1. page \in InnerPages /\ UNCHANGED <<hubVars, info, setupReturnTo, store, asked>>
  BY DEF Menu, storage
<1> QED
  BY <1>1, LeadsOn DEF Inv, TabInv

LEMMA AutoUnlockScreenStep ==
    ASSUME Inv, AutoUnlock
    PROVE  ScreenStep
<1>1. UNCHANGED <<page, setupReturnTo, store, asked>> /\ info' = Info(token)'
  BY DEF AutoUnlock, storage
<1>2. PICK p \in Passwords : SetAutoUnlockPassword(IF info.auto THEN None ELSE p)
  BY DEF AutoUnlock
<1>3. HubStep
  <2>1. (IF info.auto THEN None ELSE p) \in Maybe(Passwords)
    BY DEF Maybe
  <2> QED
    BY <1>2, <2>1, AutoUnlockStep DEF Inv
<1>4. info'.completed => row'.started
  BY <1>1, <1>3, NewInfoIsTrue
<1> QED
  BY <1>1, <1>3, <1>4, TabKept DEF Inv, TabInv

LEMMA UnlinkStep ==
    ASSUME Inv, UnlinkAlbyAccount
    PROVE  ScreenStep
<1>1. /\ UNCHANGED <<setupReturnTo, store, asked>> /\ info' = Info(token)' /\ UnlinkAccount
      /\ page' \in {"/", "alby/auth"}
  BY DEF UnlinkAlbyAccount, storage, Show
<1>2. HubStep
  BY <1>1, AccountStep DEF Inv
<1>3. info'.completed => row'.started
  BY <1>1, <1>2, NewInfoIsTrue
<1> QED
  BY <1>1, <1>2, <1>3, TabKept DEF Inv, TabInv, InnerPages, SettingsPages

(* Pages whose request changes no more of the hub than what it has cached. *)
LEMMA PasswordCheckSteps ==
    ASSUME Inv, DeveloperSettings \/ Backup
    PROVE  ScreenStep
<1>1. UNCHANGED <<page, info, setupReturnTo, store, asked>>
  BY DEF DeveloperSettings, Backup, storage
<1>2. CASE DeveloperSettings
  <2>1. HubStep
    BY <1>2, UnlockStep DEF DeveloperSettings, Inv
  <2> QED
    BY <1>1, <2>1, TabKept DEF Inv, TabInv
<1>3. CASE Backup
  <2>1. UNCHANGED <<entry, row, secret, drawn, loaded, node, lock, start, call, halted, restore, retired, env>>
    BY <1>3 DEF Backup, tableVars, nodeVars, startVars
  <2>2. HubStep
    BY <2>1, RowStep DEF Inv, HubInv, HubTypes
  <2> QED
    BY <1>1, <2>2, TabKept DEF Inv, TabInv
<1> QED
  BY <1>2, <1>3

LEMMA PreferenceSteps ==
    ASSUME Inv, Settings \/ NodeSettings \/ NodeAlias \/ MnemonicDialog
    PROVE  ScreenStep
<1>1. /\ UNCHANGED <<hubVars, setupReturnTo, store, asked>> /\ info' = Info(token)
      /\ page' \in {page, "/"}
  BY DEF Settings, NodeSettings, NodeAlias, Preference, MnemonicDialog, storage, Show
<1>2. HubStep
  BY <1>1, HubUnchanged DEF Inv
<1>3. info'.completed => row'.started
  BY <1>1, <1>2, InfoIsTrue DEF Inv, HubStep
<1> QED
  BY <1>1, <1>2, <1>3, TabKept DEF Inv, TabInv, InnerPages, SettingsPages

LEMMA OtherClientStep ==
    ASSUME Inv, OtherClient
    PROVE  ScreenStep
<1>1. UNCHANGED <<page, info, setupReturnTo, store, asked>>
  BY DEF OtherClient, tabVars, storage
<1>2. HubStep
  <2>1. CASE \E p \in Passwords : StartHandler(p)
    BY <2>1, StartHandlerStep DEF Inv, Maybe
  <2>2. CASE StopHandler(Other)
    BY <2>2, StopHandlerStep DEF Inv
  <2>3. CASE /\ call[Other].op \in {"done", "failed"}
             /\ call' = [call EXCEPT ![Other] = Idle]
             /\ UNCHANGED <<tableVars, checked, loaded, nodeVars, startVars, halted, restore, overlap,
                            refilled, refused, retired, boots, env>>
    BY <2>3, AnswerTakenStep DEF Inv, tableVars, nodeVars, startVars
  <2> QED
    BY <2>1, <2>2, <2>3 DEF OtherClient
<1> QED
  BY <1>1, <1>2, TabKept DEF Inv, TabInv

(* Every step keeps the invariant and is one of the abstract life cycle.   *)
LEMMA NextStep ==
    ASSUME Inv, [Next]_vars
    PROVE  ScreenStep
<1>1. CASE Redirect \/ UseInfo \/ Start \/ Unlock \/ OtherClient
  BY <1>1, RedirectStep, UseInfoStep, StartStep, UnlockScreenStep, OtherClientStep
<1>2. CASE Wizard
  BY <1>2, FormSteps, WelcomeStep, AuthCodeFormStep, FinishSetupStep, FinishStartsStep, RestoreNodeStep
     DEF Wizard
<1>3. CASE InSettings
  BY <1>3, MenuStep, SettingsRequestSteps, AnsweredStep, AutoUnlockScreenStep, UnlinkStep,
     PasswordCheckSteps, PreferenceSteps DEF InSettings
<1>4. CASE Service
  <2>1. HubStep
    BY <1>4, ServiceStep DEF Inv
  <2>2. UNCHANGED <<page, info, setupReturnTo, store, asked>>
    BY <1>4 DEF Service, tabVars, storage
  <2> QED
    BY <2>1, <2>2, TabKept DEF Inv, TabInv
<1>5. CASE UNCHANGED vars
  <2>1. UNCHANGED <<hubVars, page, info, setupReturnTo, store, asked>>
    BY <1>5 DEF vars, tabVars, storage
  <2>2. HubStep
    BY <2>1, HubUnchanged DEF Inv
  <2> QED
    BY <2>1, <2>2, TabKept DEF Inv, TabInv
<1> QED
  BY <1>1, <1>2, <1>3, <1>4, <1>5 DEF Next

(* A hub that is new, and one that has been in use with one password.      *)
LEMMA InitInv == Init => Inv /\ Lifecycle!Init
<1> SUFFICES ASSUME Init PROVE Inv /\ Lifecycle!Init
  OBVIOUS
<1>1. TabInit /\ (HubInit \/ HubInUse(HasAccount(errand)))
  BY DEF Init
<1>2. env \in [preset : Maybe(Backends), hosted : BOOLEAN]
  BY DEF Init, Environment, Maybe, Backends, HasMnemonic
<1>3. FreshRow \in RowType /\ ~FreshRow.started
  BY <1>2 DEF FreshRow, RowType, Maybe
<1>4. NotStarting \in StartType /\ NotStarting.at = None /\ Idle \in CallType
  BY DEF NotStarting, StartType, Idle, CallType, Maybe
<1>5. call = [c \in Callers |-> Idle] /\ start = NotStarting /\ ~halted /\ restore = None /\ retired = 0
  BY <1>1 DEF HubInit, HubInUse
<1>6. call \in [Callers -> CallType] /\ \A c \in Callers : call[c].op = "idle"
  BY <1>4, <1>5 DEF Idle
<1>7. ~Changing
  BY <1>6 DEF Changing
<1>8. CallsAllowed
  BY <1>5, <1>6 DEF CallsAllowed, Tab, Other
<1>9. LockHeld
  BY <1>4, <1>5, <1>6 DEF LockHeld
<1>10. CASE HubInit
  <2>1. entry \in [Keys -> Maybe(Passwords)] /\ entry["check"] = None
    BY <1>10 DEF HubInit, EmptyTable, Keys, Maybe
  <2>2. row \in RowType /\ ~row.started /\ ~node
    BY <1>3, <1>10 DEF HubInit
  <2>3. HubTypes
    BY <1>2, <1>4, <1>5, <1>6, <1>10, <2>1, <2>2 DEF HubTypes, HubInit, Maybe
  <2>4. PasswordIsSet
    BY <1>4, <1>5, <2>2 DEF PasswordIsSet, None
  <2>5. SecretsInOrder
    BY <1>6, <1>10 DEF SecretsInOrder, HubInit, Tab, Other
  <2>6. TabInv
    BY <1>1, <1>5, <2>2 DEF TabInit, TabInv, StoreType, AskedType, Maybe, Info, SetupCompleted, InnerPages, SettingsPages
  <2> QED
    BY <1>7, <1>8, <1>9, <2>1, <2>2, <2>3, <2>4, <2>5, <2>6 DEF Inv, HubInv, Lifecycle!Init
<1>11. CASE HubInUse(HasAccount(errand))
  <2>1. PICK p \in Passwords : entry = [k \in Keys |-> p]
    BY <1>11 DEF HubInUse
  <2>2. entry \in [Keys -> Maybe(Passwords)] /\ entry["check"] = p /\ p # None
    BY <2>1 DEF Keys, Maybe
  <2>3. row \in RowType /\ row.started /\ node = TRUE
    <3> DEFINE r1 == [FreshRow EXCEPT !.backend = "LDK"]
               r2 == [r1 EXCEPT !.started = TRUE]
               r3 == [r2 EXCEPT !.account = HasAccount(errand)]
    <3>1. r1 \in RowType
      BY <1>3 DEF RowType, Maybe, Backends, HasMnemonic
    <3>2. r2 \in RowType /\ r2.started
      BY <3>1 DEF RowType
    <3>3. r3 \in RowType /\ r3.started
      BY <3>2 DEF RowType, HasAccount
    <3>4. row = [r3 EXCEPT !.connected = HasAccount(errand)] /\ node = TRUE
      BY <1>11 DEF HubInUse
    <3> QED
      BY <3>3, <3>4 DEF RowType, HasAccount
  <2>4. HubTypes
    BY <1>2, <1>4, <1>5, <1>6, <1>11, <2>2, <2>3 DEF HubTypes, HubInUse, Maybe
  <2>5. PasswordIsSet
    BY <2>2, <2>3 DEF PasswordIsSet
  <2>6. SecretsInOrder
    BY <1>6, <1>11 DEF SecretsInOrder, HubInUse, Tab, Other
  <2>7. TabInv
    BY <1>1, <2>3 DEF TabInit, TabInv, StoreType, AskedType, Maybe
  <2> QED
    BY <1>7, <1>8, <1>9, <2>2, <2>3, <2>4, <2>5, <2>6, <2>7 DEF Inv, HubInv, Lifecycle!Init
<1> QED
  BY <1>1, <1>10, <1>11

(* The invariant holds of every reachable state, whatever the number of    *)
(* starts, stops, changes of password and restarts.                        *)
THEOREM Invariant == Spec => []Inv
<1>1. Inv /\ [Next]_vars => Inv'
  BY NextStep DEF ScreenStep
<1> QED
  BY InitInv, <1>1, PTL DEF Spec

(* The hub implements its life cycle (KeepsLifecycle): with startMutex,    *)
(* the goroutines of launchLNBackend, the requests that others overtake    *)
(* and screens that act on old answers of /api/info, api.Setup never       *)
(* replaces the password of a hub that is set up or whose node is on, a    *)
(* node only runs with a password, and a password changes by               *)
(* ChangeUnlockPassword or a restored backup only.                         *)
THEOREM ImplementsLifecycle == Spec => KeepsLifecycle
<1>1. Inv /\ [Next]_vars => [Lifecycle!Next]_(Lifecycle!vars)
  BY NextStep DEF ScreenStep, LifeStep
<1> QED
  BY InitInv, Invariant, <1>1, PTL DEF Spec, KeepsLifecycle, Lifecycle!Spec

(* A session that ChangeUnlockPassword has ended stays ended               *)
(* (OldTokensStayOut): cfg.jwtSecret never holds a secret drawn before the *)
(* last change again, since the row is deleted with the passwords, before  *)
(* the copy in memory is dropped.                                          *)
THEOREM EndedSessionsStayOut == Spec => []OldTokensStayOut
<1>1. Inv => OldTokensStayOut
  BY DEF Inv, HubInv, SecretsInOrder, OldTokensStayOut
<1> QED
  BY Invariant, <1>1, PTL
=============================================================================
