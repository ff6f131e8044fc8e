--------------------------- MODULE RequestHandling ---------------------------
(***************************************************************************)
(* NIP-47 requests (nip47/event_handler.go).  Every event a relay delivers *)
(* is handled in a goroutine of its own; relays deliver an event again     *)
(* after a reconnect or a restart.  A request is stored under its event id *)
(* before it is looked at, which is what keeps it from being handled twice.*)
(* Meanwhile users create, change and delete app connections and the hub   *)
(* removes old requests from its table (service/service.go).               *)
(*                                                                         *)
(* What a request does is here only whether it is done: a payment starts   *)
(* in a database transaction that looks the app and its scope up again,    *)
(* takes any time, and ends well or not (see Transactions).  An app that a *)
(* request creates is one of CreateApp.  Whether a relay takes a response  *)
(* is a column of its row that nothing reads, and left out.  An event that *)
(* comes while there is no node is dropped before it is stored: as if it   *)
(* had not come.                                                           *)
(***************************************************************************)
EXTENDS Integers, Sequences, FiniteSetsExt

CONSTANTS
    Goroutines,     \* goroutines in HandleEvent
    Requests,       \* request events, by nostr id
    Sender,         \* the public key a request is signed with
    Method,         \* what a request asks for
    MaxParts,       \* bound on the payments of a multi_pay request
    PartsOf,        \* how many payments a request asks for, one if it asks for none
    Damage,         \* whether and how a request cannot be read
    AppId,          \* primary keys of apps a run may use
    PubKeys,        \* public keys of apps
    ScopeSets,      \* the sets of scopes users grant
    Aging,          \* the requests that may get older than six hours in a run
    Kept,           \* maxEvents: how many requests the hub remembers
    Excess,         \* minEventsToDelete
    Batch,          \* maxEventsToDelete
    MaxReceived,    \* bound on the deliveries of requests
    MaxRows,        \* bound on the requests stored
    MaxCrashes      \* bound on crashes of the hub

PayMethods == {"pay_invoice", "pay_keysend", "multi_pay_invoice", "multi_pay_keysend"}
InvoiceMethods == {"make_invoice", "make_hold_invoice", "settle_hold_invoice", "cancel_hold_invoice"}
QueryMethods == {"get_balance", "get_info", "lookup_invoice", "list_transactions", "sign_message"}
Methods == PayMethods \cup InvoiceMethods \cup QueryMethods
             \cup {"get_budget", "create_connection", "unknown"}
Scopes == {"pay_invoice", "make_invoice", "superuser", "notifications"} \cup QueryMethods
Parts == 1..MaxParts
Rows == 1..MaxRows

ASSUME RequestsAssumption ==
    /\ Sender \in [Requests -> PubKeys]
    /\ Method \in [Requests -> Methods]
    /\ PartsOf \in [Requests -> 0..MaxParts]
    /\ \A r \in Requests : PartsOf[r] = 1 \/ Method[r] \in {"multi_pay_invoice", "multi_pay_keysend"}
    /\ Damage \in [Requests -> {"none", "encryption", "content", "json", "params"}]
    /\ Aging \subseteq Requests
ASSUME AppsAssumption == AppId \subseteq Nat \ {0} /\ ScopeSets \subseteq (SUBSET Scopes) \ {{}}
ASSUME BoundsAssumption ==
    /\ {MaxParts, Kept, Excess} \subseteq Nat \ {0}
    /\ {Batch, MaxReceived, MaxRows, MaxCrashes} \subseteq Nat

VARIABLES
    apps,           \* table apps with app_permissions
    usedApps,       \* primary keys of apps ever used
    requestEvents,  \* table request_events
    stored,         \* what was ever stored in it, by primary key
    responses,      \* table response_events
    handlers,       \* running HandleEvent calls
    old,            \* requests created more than six hours ago
    received,       \* how many requests were delivered
    effects,        \* how often a request was carried out, by row and part
    answers,        \* how often a response was made, by row and part
    crashes

appVars == <<apps, usedApps>>
history == <<effects, answers>>
vars == <<apps, usedApps, requestEvents, stored, responses, handlers, old,
          received, effects, answers, crashes>>

-----------------------------------------------------------------------------
App == [pubkey : PubKeys, scopes : SUBSET Scopes]
RequestEvent == [req : Requests, app : AppId \cup {0},
                 state : {"executing", "executed", "error"}]
HandlerPcs == {"store", "findApp", "associate", "decode", "authorize", "parts"}
PartPcs == {"run", "running", "answer", "finish", "done"}
Handler == [pc : HandlerPcs, req : Requests, row : Nat, app : AppId \cup {0},
            final : {"executed", "error", "kept"}, parts : [Parts -> PartPcs]]

At(g, pc) == g \in DOMAIN handlers /\ handlers[g].pc = pc
PartAt(g, k, pc) == At(g, "parts") /\ handlers[g].parts[k] = pc
Goto(g, pc) == handlers' = [handlers EXCEPT ![g].pc = pc]
Return(g) == handlers' = [f \in DOMAIN handlers \ {g} |-> handlers[f]]

SetState(i, state) ==
    requestEvents' = [j \in DOMAIN requestEvents |->
        IF j = i THEN [requestEvents[j] EXCEPT !.state = state] ELSE requestEvents[j]]

(* Removing rows takes their responses with them (ON DELETE CASCADE).      *)
Remove(rows) ==
    /\ requestEvents' = [i \in DOMAIN requestEvents \ rows |-> requestEvents[i]]
    /\ responses' = {a \in responses : a.row \notin rows}

(* RequestMethodToScope.                                                   *)
ScopeOf(method) ==
    CASE method \in PayMethods          -> "pay_invoice"
      [] method \in InvoiceMethods      -> "make_invoice"
      [] method \in QueryMethods        -> method
      [] method = "create_connection"   -> "superuser"
      [] method = "get_budget"          -> ""
      [] OTHER                          -> "unsupported"

(* GetAlwaysGrantedMethods.                                                *)
AlwaysGranted == {"get_info", "get_budget"}

(* HasPermission: asks for the app that was looked up, by its primary key. *)
HasPermission(a, scope) == a \in DOMAIN apps /\ scope \in apps[a].scopes

-----------------------------------------------------------------------------
(* App connections.                                                        *)

CreateApp(a, k, s) ==
    /\ a \in AppId \ usedApps
    /\ \A b \in AppId \ usedApps : a <= b
    /\ \A b \in DOMAIN apps : apps[b].pubkey # k
    /\ s \in ScopeSets
    /\ apps' = [b \in DOMAIN apps \cup {a} |->
                  IF b = a THEN [pubkey |-> k, scopes |-> s] ELSE apps[b]]
    /\ usedApps' = usedApps \cup {a}
    /\ UNCHANGED <<requestEvents, stored, responses, handlers, old, received, history, crashes>>

UpdateApp(a, s) ==
    /\ a \in DOMAIN apps
    /\ s \in ScopeSets \ {apps[a].scopes}
    /\ "superuser" \in s => "superuser" \in apps[a].scopes
    /\ apps' = [apps EXCEPT ![a].scopes = s]
    /\ UNCHANGED <<usedApps, requestEvents, stored, responses, handlers, old, received, history, crashes>>

DeleteApp(a) ==
    /\ a \in DOMAIN apps
    /\ apps' = [b \in DOMAIN apps \ {a} |-> apps[b]]
    /\ Remove({i \in DOMAIN requestEvents : requestEvents[i].app = a})
    /\ UNCHANGED <<usedApps, stored, handlers, old, received, history, crashes>>

(* removeExcessEvents: the ids are read and the rows below one of them are *)
(* deleted in two statements; rows stored in between have higher ids and   *)
(* rows deleted in between are gone either way.                            *)
RemoveExcessEvents ==
    LET excess == Min({Cardinality(DOMAIN requestEvents), Kept + Batch}) - Kept
        oldest == {i \in DOMAIN requestEvents :
                     Cardinality({j \in DOMAIN requestEvents : j < i}) < excess}
    IN  /\ excess >= Excess
        /\ Remove(oldest)
        /\ oldest # {}
        /\ UNCHANGED <<appVars, stored, handlers, old, received, history, crashes>>

-----------------------------------------------------------------------------
(* HandleEvent.                                                            *)

Receive(g, r) ==
    /\ g \notin DOMAIN handlers
    /\ received < MaxReceived
    /\ received' = received + 1
    /\ handlers' = [f \in DOMAIN handlers \cup {g} |->
                      IF f # g THEN handlers[f]
                      ELSE [pc |-> "store", req |-> r, row |-> 0, app |-> 0,
                            final |-> "executed", parts |-> [k \in Parts |-> "done"]]]
    /\ UNCHANGED <<appVars, requestEvents, stored, responses, old, history, crashes>>

(* Variant: a request that was handled to its end is taken for new.        *)
StoredExecuting(r) ==
    \E i \in DOMAIN requestEvents :
        requestEvents[i].req = r /\ requestEvents[i].state = "executing"

(* The unique nostr id: a duplicate is dropped.                            *)
Stored(r) == \E i \in DOMAIN requestEvents : requestEvents[i].req = r

StoreNew(g) ==
    LET r == handlers[g].req
        i == Len(stored) + 1
    IN  /\ i \in Rows
        /\ stored' = Append(stored, [req |-> r, late |-> r \in old])
        /\ requestEvents' = [j \in DOMAIN requestEvents \cup {i} |->
             IF j = i THEN [req |-> r, app |-> 0, state |-> "executing"] ELSE requestEvents[j]]
        /\ handlers' = [handlers EXCEPT ![g].row = i, ![g].pc = "findApp"]

(* Variant: a duplicate is reported, and handled all the same.             *)
StoreWithoutReturn(g) ==
    /\ At(g, "store")
    /\ \/ Stored(handlers[g].req) /\ Goto(g, "findApp") /\ UNCHANGED <<requestEvents, stored>>
       \/ ~Stored(handlers[g].req) /\ StoreNew(g)
    /\ UNCHANGED <<appVars, responses, old, received, history, crashes>>

StoreRequest(g) ==
    /\ At(g, "store")
    /\ \/ Stored(handlers[g].req) /\ Return(g) /\ UNCHANGED <<requestEvents, stored>>
       \/ ~Stored(handlers[g].req) /\ StoreNew(g)
    /\ UNCHANGED <<appVars, responses, old, received, history, crashes>>

(* A response that carries no result, to be published next.                *)
Refuse(g, final) ==
    handlers' = [handlers EXCEPT ![g].pc = "parts", ![g].final = final,
                                 ![g].parts = [@ EXCEPT ![1] = "answer"]]

FindApp(g) ==
    /\ At(g, "findApp")
    /\ LET h == handlers[g]
           found == {a \in DOMAIN apps : apps[a].pubkey = Sender[h.req]}
       IN  \/ found = {} /\ Return(g) /\ UNCHANGED requestEvents
           \/ /\ found # {} /\ Damage[h.req] = "encryption"
              /\ SetState(h.row, "error")
              /\ Refuse(g, "kept")
           \/ /\ Damage[h.req] # "encryption"
              /\ \E a \in found :
                   handlers' = [handlers EXCEPT ![g].app = a, ![g].pc = "associate"]
              /\ UNCHANGED requestEvents
    /\ UNCHANGED <<appVars, stored, responses, old, received, history, crashes>>

(* The row gets its app: a foreign key.                                    *)
AssociateApp(g) ==
    /\ At(g, "associate")
    /\ LET h == handlers[g]
       IN  IF h.app \in DOMAIN apps \/ h.row \notin DOMAIN requestEvents
           THEN /\ requestEvents' = [i \in DOMAIN requestEvents |->
                      IF i = h.row THEN [requestEvents[i] EXCEPT !.app = h.app]
                      ELSE requestEvents[i]]
                /\ Goto(g, "decode")
           ELSE Refuse(g, "error") /\ UNCHANGED requestEvents
    /\ UNCHANGED <<appVars, stored, responses, old, received, history, crashes>>

(* Variant: content that cannot be read is refused, the state is not set.  *)
DecodeKeepingState(g) ==
    /\ At(g, "decode")
    /\ IF Damage[handlers[g].req] = "none" THEN Goto(g, "authorize")
       ELSE IF Damage[handlers[g].req] = "content" THEN Refuse(g, "kept")
       ELSE Return(g)
    /\ UNCHANGED <<appVars, requestEvents, stored, responses, old, received, history, crashes>>

(* Variant: the error is saved and the request handled all the same.       *)
DecodeWithoutReturn(g) ==
    /\ At(g, "decode")
    /\ IF Damage[handlers[g].req] \in {"content", "json"}
       THEN SetState(handlers[g].row, "error") ELSE UNCHANGED requestEvents
    /\ Goto(g, "authorize")
    /\ UNCHANGED <<appVars, stored, responses, old, received, history, crashes>>

DecodeRequest(g) ==
    /\ At(g, "decode")
    /\ LET h == handlers[g]
       IN  \/ /\ Damage[h.req] = "content"
              /\ SetState(h.row, "error")
              /\ Refuse(g, "kept")
           \/ /\ Damage[h.req] = "json"
              /\ SetState(h.row, "error")
              /\ Return(g)
           \/ /\ Damage[h.req] \in {"none", "params"}
              /\ Goto(g, "authorize")
              /\ UNCHANGED requestEvents
    /\ UNCHANGED <<appVars, stored, responses, old, received, history, crashes>>

(* Variant: requests of any age are carried out.                           *)
NeverTooOld(r) == FALSE

(* Payments and invoices are not made hours later.                         *)
TooOld(r) ==
    r \in old /\ ScopeOf(Method[r]) \in {"pay_invoice", "make_invoice"}

(* The controller of the method: parameters that cannot be read are        *)
(* answered at once; several payments run concurrently, and where there is *)
(* none to make, none is answered.                                         *)
Execute(g) ==
    LET r == handlers[g].req
    IN  IF Damage[r] = "params" THEN Refuse(g, "executed")
        ELSE IF PartsOf[r] = 0 THEN Return(g)
        ELSE handlers' = [handlers EXCEPT ![g].pc = "parts",
               ![g].parts = [k \in Parts |-> IF k <= PartsOf[r] THEN "run" ELSE "done"]]

(* A permission that is there may have expired.                            *)
Authorize(g) ==
    /\ At(g, "authorize")
    /\ LET h == handlers[g]
           method == Method[h.req]
       IN  IF method \in AlwaysGranted THEN Execute(g)
           ELSE IF ScopeOf(method) = "unsupported" THEN Refuse(g, "executed")
           ELSE IF TooOld(h.req) THEN Return(g)
           ELSE \/ HasPermission(h.app, ScopeOf(method)) /\ Execute(g)
                \/ Refuse(g, "executed")
    /\ UNCHANGED <<appVars, requestEvents, stored, responses, old, received, history, crashes>>

-----------------------------------------------------------------------------
(* The parts of a request; one that is no payment has a single part.       *)

SetPart(g, k, pc) == handlers' = [handlers EXCEPT ![g].parts[k] = pc]

(* The request is refused, or carried out.  The payments look the app and  *)
(* its scope up again (validateCanPay), the others do not.                 *)
CarryOut(g, k) ==
    /\ PartAt(g, k, "run")
    /\ \/ SetPart(g, k, "answer") /\ UNCHANGED effects
       \/ /\ Method[handlers[g].req] \in PayMethods => HasPermission(handlers[g].app, "pay_invoice")
          /\ SetPart(g, k, "running")
          /\ effects' = [effects EXCEPT ![handlers[g].row][k] = @ + 1]
    /\ UNCHANGED <<appVars, requestEvents, stored, responses, old, received, answers, crashes>>

Complete(g, k) ==
    /\ PartAt(g, k, "running")
    /\ SetPart(g, k, "answer")
    /\ UNCHANGED <<appVars, requestEvents, stored, responses, old, received, history, crashes>>

(* publishResponseEvent: without its request the response cannot be stored *)
(* and is not published.                                                   *)
PublishResponse(g, k) ==
    /\ PartAt(g, k, "answer")
    /\ LET i == handlers[g].row
       IN  IF i \in DOMAIN requestEvents
           THEN /\ responses' = responses \cup {[row |-> i, part |-> k]}
                /\ answers' = [answers EXCEPT ![i][k] = @ + 1]
           ELSE UNCHANGED <<responses, answers>>
    /\ SetPart(g, k, "finish")
    /\ UNCHANGED <<appVars, requestEvents, stored, old, received, effects, crashes>>

(* The state of the request, set by every part on its own; the handler     *)
(* returns with its last part.                                             *)
Finish(g, k) ==
    /\ PartAt(g, k, "finish")
    /\ LET h == handlers[g]
       IN  /\ IF h.final = "kept" THEN UNCHANGED requestEvents ELSE SetState(h.row, h.final)
           /\ IF \A j \in Parts \ {k} : h.parts[j] = "done" THEN Return(g)
              ELSE SetPart(g, k, "done")
    /\ UNCHANGED <<appVars, stored, responses, old, received, history, crashes>>

HandleEvent(g) ==
    \/ StoreRequest(g) \/ FindApp(g) \/ AssociateApp(g) \/ DecodeRequest(g) \/ Authorize(g)
    \/ \E k \in Parts : \/ CarryOut(g, k) \/ Complete(g, k)
                        \/ PublishResponse(g, k) \/ Finish(g, k)

-----------------------------------------------------------------------------
(* Six hours pass.                                                         *)
Age(r) ==
    /\ r \in Aging \ old
    /\ old' = old \cup {r}
    /\ UNCHANGED <<appVars, requestEvents, stored, responses, handlers, received, history, crashes>>

Crash ==
    /\ crashes < MaxCrashes
    /\ crashes' = crashes + 1
    /\ handlers' = [g \in {} |-> 0]
    /\ UNCHANGED <<appVars, requestEvents, stored, responses, old, received, history>>

Init ==
    /\ apps = [a \in {} |-> 0] /\ usedApps = {}
    /\ requestEvents = [i \in {} |-> 0] /\ stored = <<>> /\ responses = {}
    /\ handlers = [g \in {} |-> 0]
    /\ old = {} /\ received = 0 /\ crashes = 0
    /\ effects = [i \in Rows |-> [k \in Parts |-> 0]]
    /\ answers = [i \in Rows |-> [k \in Parts |-> 0]]

Next ==
    \/ \E a \in AppId, k \in PubKeys, s \in ScopeSets : CreateApp(a, k, s)
    \/ \E a \in AppId, s \in ScopeSets : UpdateApp(a, s)
    \/ \E a \in AppId : DeleteApp(a)
    \/ RemoveExcessEvents
    \/ \E g \in Goroutines, r \in Requests : Receive(g, r)
    \/ \E g \in Goroutines : HandleEvent(g)
    \/ \E r \in Requests : Age(r)
    \/ Crash

Spec == Init /\ [][Next]_vars
-----------------------------------------------------------------------------
(* Properties.                                                             *)

Known == 1..Len(stored)

HandlerOK(h, log) ==
    /\ h.pc # "store" => h.row \in 1..Len(log) /\ log[h.row].req = h.req
    /\ h.pc = "store" => h.row = 0
    /\ h.pc # "parts" => \A k \in Parts : h.parts[k] = "done"

(* Types; and a handler that has stored its request knows its row.         *)
TypeOK ==
    /\ DOMAIN apps \subseteq AppId /\ apps \in [DOMAIN apps -> App]
    /\ usedApps \subseteq AppId
    /\ stored \in Seq([req : Requests, late : BOOLEAN]) /\ Known \subseteq Rows
    /\ DOMAIN requestEvents \subseteq Known
    /\ requestEvents \in [DOMAIN requestEvents -> RequestEvent]
    /\ responses \subseteq [row : Rows, part : Parts]
    /\ DOMAIN handlers \subseteq Goroutines /\ handlers \in [DOMAIN handlers -> Handler]
    /\ \A g \in DOMAIN handlers : HandlerOK(handlers[g], stored)
    /\ old \subseteq Requests /\ received \in Nat /\ crashes \in Nat
    /\ effects \in [Rows -> [Parts -> Nat]] /\ answers \in [Rows -> [Parts -> Nat]]

(* A request is handled once for as long as the hub remembers it, however  *)
(* often and by however many relays it is delivered, and across restarts:  *)
(* of the rows ever stored for it, all but the last have been removed, and *)
(* none had a part carried out or answered twice.                          *)
HandledOnceWhileRemembered ==
    /\ \A i, j \in Known : i < j /\ stored[i].req = stored[j].req
                              => i \notin DOMAIN requestEvents
    /\ \A i \in Rows, k \in Parts : effects[i][k] <= 1 /\ answers[i][k] <= 1

(* A request to pay or to make an invoice that was older than six hours    *)
(* when it came in is never carried out, not even if the hub has forgotten *)
(* that it was carried out before.                                         *)
LateRequestsHaveNoEffect ==
    \A i \in Known, k \in Parts :
        stored[i].late /\ Method[stored[i].req] \in PayMethods \cup InvoiceMethods
            => effects[i][k] = 0

(* A request in state error was not carried out, and one in state executed *)
(* has a response.                                                         *)
StateTellsOutcome ==
    \A i \in DOMAIN requestEvents :
        /\ requestEvents[i].state = "error" => \A k \in Parts : effects[i][k] = 0
        /\ requestEvents[i].state = "executed" => \E k \in Parts : [row |-> i, part |-> k] \in responses

(* A request is left in state executing for one of four reasons: the hub   *)
(* crashed, no app had the key, it was too old, or it asked for a list of  *)
(* payments with none in it.                                               *)
StuckIsExplained ==
    \A i \in DOMAIN requestEvents :
        /\ requestEvents[i].state = "executing"
        /\ \A g \in DOMAIN handlers : handlers[g].row # i
        => \/ crashes > 0
           \/ requestEvents[i].app = 0
           \/ TooOld(requestEvents[i].req)
           \/ PartsOf[requestEvents[i].req] = 0

(* A request is answered once ("second time it should not publish").       *)
AnsweredOnce ==
    \A i, j \in Known, k \in Parts :
        stored[i].req = stored[j].req /\ answers[i][k] > 0 /\ answers[j][k] > 0 => i = j
=============================================================================
