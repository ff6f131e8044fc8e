----------------------- MODULE RequestHandlingProofs -----------------------
(***************************************************************************)
(* Theorems about RequestHandling, for every value of its constants.       *)
(***************************************************************************)
EXTENDS RequestHandling, TLAPS

USE RequestsAssumption, AppsAssumption, BoundsAssumption

-----------------------------------------------------------------------------
(* Type correctness.                                                       *)

HandlersOK ==
    /\ DOMAIN handlers \subseteq Goroutines /\ handlers \in [DOMAIN handlers -> Handler]
    /\ \A g \in DOMAIN handlers : HandlerOK(handlers[g], stored)

TableOK ==
    /\ DOMAIN requestEvents \subseteq Known
    /\ requestEvents \in [DOMAIN requestEvents -> RequestEvent]
    /\ responses \subseteq [row : Rows, part : Parts]

(* The other handlers stay as they are and g becomes h.                    *)
Becomes(g, h) ==
    /\ DOMAIN handlers' = DOMAIN handlers
    /\ handlers' = [f \in DOMAIN handlers |-> IF f = g THEN h ELSE handlers[f]]

LEMMA HandlerTyped ==
    ASSUME TypeOK, NEW g \in DOMAIN handlers
    PROVE  handlers[g] \in Handler /\ HandlerOK(handlers[g], stored) /\ g \in Goroutines
BY DEF TypeOK

LEMMA BecomesTyped ==
    ASSUME TypeOK, NEW g \in DOMAIN handlers, NEW h \in Handler, Becomes(g, h),
           HandlerOK(h, stored'), stored' = stored
    PROVE  HandlersOK'
BY DEF TypeOK, HandlersOK, Becomes, Known

LEMMA ReturnTyped ==
    ASSUME TypeOK, NEW g \in DOMAIN handlers, Return(g), stored' = stored
    PROVE  HandlersOK'
BY DEF TypeOK, HandlersOK, Return, Known

LEMMA HandlersStay ==
    ASSUME TypeOK, UNCHANGED <<handlers, stored>>
    PROVE  HandlersOK'
BY DEF TypeOK, HandlersOK, Known

LEMMA GotoBecomes ==
    ASSUME TypeOK, NEW g \in DOMAIN handlers, NEW pc \in HandlerPcs, Goto(g, pc)
    PROVE  Becomes(g, [handlers[g] EXCEPT !.pc = pc]) /\ [handlers[g] EXCEPT !.pc = pc] \in Handler
<1>1. handlers[g] \in Handler /\ handlers \in [DOMAIN handlers -> Handler]
  BY HandlerTyped DEF TypeOK
<1>2. [handlers[g] EXCEPT !.pc = pc] \in Handler
  BY <1>1 DEF Handler
<1>3. Becomes(g, [handlers[g] EXCEPT !.pc = pc])
  BY Zenon DEF TypeOK, Becomes, Goto
<1> QED
  BY <1>2, <1>3

LEMMA RefuseBecomes ==
    ASSUME TypeOK, NEW g \in DOMAIN handlers, NEW final \in {"executed", "error", "kept"},
           Refuse(g, final)
    PROVE  LET h == [handlers[g] EXCEPT !.pc = "parts", !.final = final,
                                        !.parts = [@ EXCEPT ![1] = "answer"]]
           IN  Becomes(g, h) /\ h \in Handler
<1> DEFINE parts == [handlers[g].parts EXCEPT ![1] = "answer"]
<1>1. handlers[g] \in Handler
  BY HandlerTyped
<1>2. parts \in [Parts -> PartPcs]
  BY <1>1 DEF Handler, PartPcs, Parts
<1>3. [handlers[g] EXCEPT !.pc = "parts", !.final = final, !.parts = parts] \in Handler
  BY <1>1, <1>2 DEF Handler, HandlerPcs
<1> QED
  BY <1>1, <1>3 DEF TypeOK, Becomes, Refuse

LEMMA SetPartBecomes ==
    ASSUME TypeOK, NEW g \in DOMAIN handlers, NEW k \in Parts, NEW pc \in PartPcs,
           SetPart(g, k, pc)
    PROVE  LET h == [handlers[g] EXCEPT !.parts[k] = pc]
           IN  Becomes(g, h) /\ h \in Handler
<1> DEFINE parts == [handlers[g].parts EXCEPT ![k] = pc]
<1>1. handlers[g] \in Handler /\ handlers \in [DOMAIN handlers -> Handler]
  BY HandlerTyped DEF TypeOK
<1>2. parts \in [Parts -> PartPcs]
  BY <1>1 DEF Handler
<1>3. [handlers[g] EXCEPT !.parts = parts] \in Handler
  BY <1>1, <1>2 DEF Handler
<1>4. Becomes(g, [handlers[g] EXCEPT !.parts = parts])
  BY <1>1 DEF Becomes, SetPart
<1> QED
  BY <1>3, <1>4

LEMMA SetStateTyped ==
    ASSUME TypeOK, NEW i, NEW state \in {"executing", "executed", "error"},
           SetState(i, state), UNCHANGED <<responses, stored>>
    PROVE  TableOK'
<1>1. \A r \in RequestEvent : [r EXCEPT !.state = state] \in RequestEvent
  BY DEF RequestEvent
<1>2. /\ DOMAIN requestEvents' = DOMAIN requestEvents
      /\ requestEvents' \in [DOMAIN requestEvents -> RequestEvent]
  BY <1>1 DEF SetState, TypeOK
<1> QED
  BY <1>2 DEF TypeOK, TableOK, Known

LEMMA RemoveTyped ==
    ASSUME TypeOK, NEW rows, Remove(rows), UNCHANGED stored
    PROVE  TableOK'
BY DEF TypeOK, Remove, TableOK, Known

(* What remains to be shown for a step of a handler.                       *)
LEMMA TypeFrom ==
    ASSUME TypeOK, HandlersOK', TableOK', UNCHANGED <<apps, usedApps, stored, old, crashes>>,
           received' \in Nat, effects' \in [Rows -> [Parts -> Nat]],
           answers' \in [Rows -> [Parts -> Nat]]
    PROVE  TypeOK'
BY DEF TypeOK, HandlersOK, TableOK, Known

LEMMA TableStays == ASSUME TypeOK, UNCHANGED <<requestEvents, responses, stored>> PROVE TableOK'
BY DEF TypeOK, TableOK, Known

LEMMA TypeInit == Init => TypeOK
BY DEF Init, TypeOK, Known, Rows

LEMMA TypeApps ==
    ASSUME TypeOK,
           \/ \E a \in AppId, k \in PubKeys, s \in ScopeSets : CreateApp(a, k, s)
           \/ \E a \in AppId, s \in ScopeSets : UpdateApp(a, s)
           \/ \E a \in AppId : DeleteApp(a)
           \/ RemoveExcessEvents
    PROVE  TypeOK'
<1>1. CASE \E a \in AppId, k \in PubKeys, s \in ScopeSets : CreateApp(a, k, s)
  <2>1. PICK a \in AppId, k \in PubKeys, s \in ScopeSets : CreateApp(a, k, s)
    BY <1>1
  <2>2. DOMAIN apps' \subseteq AppId /\ apps' \in [DOMAIN apps' -> App] /\ usedApps' \subseteq AppId
    <3>1. [pubkey |-> k, scopes |-> s] \in App
      BY DEF App
    <3> QED
      BY <2>1, <3>1 DEF CreateApp, TypeOK
  <2> QED
    BY <2>1, <2>2, HandlersStay DEF CreateApp, TypeOK, HandlersOK, Known, history
<1>2. CASE \E a \in AppId, s \in ScopeSets : UpdateApp(a, s)
  <2>1. PICK a \in AppId, s \in ScopeSets : UpdateApp(a, s)
    BY <1>2
  <2>2. DOMAIN apps' \subseteq AppId /\ apps' \in [DOMAIN apps' -> App]
    <3>1. \A b \in App : [b EXCEPT !.scopes = s] \in App
      BY DEF App
    <3> QED
      BY <2>1, <3>1 DEF UpdateApp, TypeOK
  <2> QED
    BY <2>1, <2>2, HandlersStay DEF UpdateApp, TypeOK, HandlersOK, Known, history
<1>3. CASE \E a \in AppId : DeleteApp(a)
  <2>1. PICK a \in AppId : DeleteApp(a)
    BY <1>3
  <2>2. TableOK'
    BY <2>1, RemoveTyped DEF DeleteApp
  <2> QED
    BY <2>1, <2>2, HandlersStay DEF DeleteApp, TypeOK, TableOK, HandlersOK, Known, history
<1>4. CASE RemoveExcessEvents
  <2>1. PICK rows : Remove(rows) /\ UNCHANGED <<appVars, stored, handlers, old, received, history, crashes>>
    BY <1>4 DEF RemoveExcessEvents
  <2>2. TableOK'
    BY <2>1, RemoveTyped
  <2> QED
    BY <2>1, <2>2, HandlersStay DEF TypeOK, TableOK, HandlersOK, Known, history, appVars
<1> QED
  BY <1>1, <1>2, <1>3, <1>4

(* The first steps of a handler, up to the controller.                     *)
LEMMA TypeReceive ==
    ASSUME TypeOK, NEW g \in Goroutines, NEW r \in Requests, Receive(g, r)
    PROVE  TypeOK'
<1> DEFINE h == [pc |-> "store", req |-> r, row |-> 0, app |-> 0,
                 final |-> "executed", parts |-> [k \in Parts |-> "done"]]
<1>1. h \in Handler /\ HandlerOK(h, stored')
  BY DEF Handler, HandlerOK, HandlerPcs, PartPcs
<1>2. handlers' = [f \in DOMAIN handlers \cup {g} |-> IF f # g THEN handlers[f] ELSE h]
  BY DEF Receive
<1> HIDE DEF h
<1>3. HandlersOK'
  <2>1. stored' = stored /\ DOMAIN handlers' = DOMAIN handlers \cup {g}
    BY <1>2 DEF Receive
  <2>2. \A f \in DOMAIN handlers' : handlers'[f] = IF f # g THEN handlers[f] ELSE h
    BY <1>2, <2>1
  <2>3. \A f \in DOMAIN handlers' : handlers'[f] \in Handler /\ HandlerOK(handlers'[f], stored')
    BY <1>1, <2>1, <2>2, HandlerTyped
  <2>4. handlers' \in [DOMAIN handlers' -> Handler]
    BY <1>2, <2>3
  <2> QED
    BY <2>1, <2>3, <2>4 DEF TypeOK, HandlersOK
<1>4. received' \in Nat
  BY DEF Receive, TypeOK
<1> QED
  BY <1>3, <1>4, TypeFrom, TableStays DEF Receive, TypeOK, history, appVars

LEMMA TypeStore ==
    ASSUME TypeOK, NEW g \in Goroutines, StoreRequest(g)
    PROVE  TypeOK'
<1>1. g \in DOMAIN handlers /\ handlers[g] \in Handler
  BY HandlerTyped DEF StoreRequest, At
<1>2. CASE Return(g) /\ UNCHANGED <<requestEvents, stored>>
  <2>1. HandlersOK'
    BY <1>1, <1>2, ReturnTyped
  <2> QED
    BY <1>2, <2>1 DEF StoreRequest, TypeOK, HandlersOK, Known, history, appVars
<1>3. CASE StoreNew(g)
  <2> DEFINE r == handlers[g].req
             i == Len(stored) + 1
             h == [handlers[g] EXCEPT !.row = i, !.pc = "findApp"]
  <2>1. /\ r \in Requests /\ i \in Rows /\ i \in Nat
        /\ stored' = Append(stored, [req |-> r, late |-> r \in old])
    BY <1>1, <1>3 DEF StoreNew, Handler, Rows
  <2>2. /\ stored' \in Seq([req : Requests, late : BOOLEAN]) /\ Len(stored') = i
        /\ \A j \in Known : stored'[j] = stored[j]
        /\ stored'[i].req = r
    <3> DEFINE e == [req |-> r, late |-> r \in old]
    <3>1. e \in [req : Requests, late : BOOLEAN] /\ e.req = r
      BY <2>1
    <3>2. stored \in Seq([req : Requests, late : BOOLEAN])
      BY DEF TypeOK
    <3>3. stored' = Append(stored, e)
      BY <2>1
    <3> HIDE DEF e
    <3>4. stored' \in Seq([req : Requests, late : BOOLEAN]) /\ Len(stored') = i
      BY <3>1, <3>2, <3>3
    <3>5. \A j \in 1..Len(stored) : Append(stored, e)[j] = stored[j]
      BY <3>2
    <3>6. Append(stored, e)[i] = e
      BY <3>2
    <3> QED
      BY <3>1, <3>3, <3>4, <3>5, <3>6 DEF Known
  <2>3. Known' = Known \cup {i} /\ Known' \subseteq Rows
    BY <2>1, <2>2 DEF TypeOK, Known, Rows
  <2>4. h \in Handler /\ HandlerOK(h, stored')
    <3>1. h \in Handler /\ h.row = i /\ h.pc = "findApp" /\ h.req = r /\ h.parts = handlers[g].parts
      <4> HIDE DEF i
      <4>1. h.row = i /\ h.pc = "findApp" /\ h.req = r /\ h.parts = handlers[g].parts
        BY <1>1 DEF Handler
      <4>2. \A q \in Handler, n \in Nat : [q EXCEPT !.row = n] \in Handler
        BY DEF Handler
      <4>3. \A q \in Handler : [q EXCEPT !.pc = "findApp"] \in Handler
        BY DEF Handler, HandlerPcs
      <4>4. [[handlers[g] EXCEPT !.row = i] EXCEPT !.pc = "findApp"] \in Handler
        BY <1>1, <2>1, <4>2, <4>3
      <4> QED
        BY <4>1, <4>4
    <3>2. \A k \in Parts : handlers[g].parts[k] = "done"
      BY <1>1 DEF StoreRequest, At, TypeOK, HandlerOK
    <3> HIDE DEF h
    <3> QED
      BY <2>2, <2>3, <3>1, <3>2 DEF HandlerOK, Known
  <2>5. HandlersOK'
    <3>1. handlers' = [f \in DOMAIN handlers |-> IF f = g THEN h ELSE handlers[f]]
      BY <1>1, <1>3 DEF StoreNew, TypeOK
    <3> HIDE DEF h
    <3>2. ASSUME NEW f \in DOMAIN handlers
          PROVE  HandlerOK(handlers'[f], stored')
      <4>1. CASE f = g
        BY <2>4, <3>1, <4>1
      <4>2. CASE f # g
        <5>1. HandlerOK(handlers[f], stored) /\ handlers'[f] = handlers[f]
          BY <3>1, <4>2 DEF TypeOK
        <5> QED
          BY <2>2, <2>3, <5>1 DEF HandlerOK, Known
      <4> QED
        BY <4>1, <4>2
    <3> QED
      BY <2>4, <3>1, <3>2 DEF TypeOK, HandlersOK
  <2>6. DOMAIN requestEvents' \subseteq Known' /\ requestEvents' \in [DOMAIN requestEvents' -> RequestEvent]
    <3>1. [req |-> r, app |-> 0, state |-> "executing"] \in RequestEvent
      BY <2>1 DEF RequestEvent
    <3> QED
      BY <1>3, <2>3, <3>1 DEF StoreNew, TypeOK
  <2> QED
    BY <2>2, <2>3, <2>5, <2>6 DEF StoreRequest, TypeOK, HandlersOK, history, appVars
<1> QED
  BY <1>2, <1>3 DEF StoreRequest

(* A refusal keeps what HandlerOK says once the request is stored.         *)
LEMMA RefuseTyped ==
    ASSUME TypeOK, NEW g \in DOMAIN handlers, handlers[g].pc # "store",
           NEW final \in {"executed", "error", "kept"}, Refuse(g, final), stored' = stored
    PROVE  HandlersOK'
<1> DEFINE h == [handlers[g] EXCEPT !.pc = "parts", !.final = final,
                                    !.parts = [@ EXCEPT ![1] = "answer"]]
<1>1. Becomes(g, h) /\ h \in Handler
  BY RefuseBecomes
<1>2. handlers[g] \in Handler /\ HandlerOK(handlers[g], stored)
  BY HandlerTyped
<1>3. h.pc = "parts" /\ h.row = handlers[g].row /\ h.req = handlers[g].req
  BY <1>2 DEF Handler
<1> HIDE DEF h
<1>4. HandlerOK(h, stored')
  BY <1>2, <1>3 DEF HandlerOK
<1> QED
  BY <1>1, <1>4, BecomesTyped, Zenon

LEMMA GotoTyped ==
    ASSUME TypeOK, NEW g \in DOMAIN handlers, handlers[g].pc \notin {"store", "parts"},
           NEW pc \in HandlerPcs \ {"store"}, Goto(g, pc), stored' = stored
    PROVE  HandlersOK'
<1> DEFINE h == [handlers[g] EXCEPT !.pc = pc]
<1>1. Becomes(g, h) /\ h \in Handler
  BY GotoBecomes
<1>2. handlers[g] \in Handler /\ HandlerOK(handlers[g], stored)
  BY HandlerTyped
<1>3. h.pc = pc /\ h.row = handlers[g].row /\ h.req = handlers[g].req /\ h.parts = handlers[g].parts
  BY <1>2 DEF Handler
<1> HIDE DEF h
<1>4. HandlerOK(h, stored')
  BY <1>2, <1>3 DEF HandlerOK
<1> QED
  BY <1>1, <1>4, BecomesTyped, Zenon

LEMMA SetPartTyped ==
    ASSUME TypeOK, NEW g \in DOMAIN handlers, handlers[g].pc = "parts",
           NEW k \in Parts, NEW pc \in PartPcs, SetPart(g, k, pc), stored' = stored
    PROVE  HandlersOK'
<1> DEFINE h == [handlers[g] EXCEPT !.parts[k] = pc]
<1>1. Becomes(g, h) /\ h \in Handler
  BY SetPartBecomes
<1>2. handlers[g] \in Handler /\ HandlerOK(handlers[g], stored)
  BY HandlerTyped
<1>3. h.pc = "parts" /\ h.row = handlers[g].row /\ h.req = handlers[g].req
  BY <1>2 DEF Handler
<1> HIDE DEF h
<1>4. HandlerOK(h, stored')
  BY <1>2, <1>3 DEF HandlerOK
<1> QED
  BY <1>1, <1>4, BecomesTyped, Zenon

LEMMA TypeFindApp ==
    ASSUME TypeOK, NEW g \in Goroutines, FindApp(g)
    PROVE  TypeOK'
<1>1. g \in DOMAIN handlers /\ handlers[g] \in Handler /\ handlers[g].pc = "findApp"
      /\ HandlerOK(handlers[g], stored)
  BY HandlerTyped DEF FindApp, At
<1>2. CASE Return(g) /\ UNCHANGED requestEvents
  BY <1>1, <1>2, ReturnTyped, TableStays, TypeFrom DEF FindApp, TypeOK, history, appVars
<1>3. CASE SetState(handlers[g].row, "error") /\ Refuse(g, "kept")
  <2>1. HandlersOK'
    BY <1>1, <1>3, RefuseTyped DEF FindApp
  <2>2. TableOK'
    BY <1>3, SetStateTyped DEF FindApp
  <2> QED
    BY <2>1, <2>2, TypeFrom DEF FindApp, TypeOK, history, appVars
<1>4. CASE \E a \in DOMAIN apps :
             /\ handlers' = [handlers EXCEPT ![g].app = a, ![g].pc = "associate"]
             /\ UNCHANGED requestEvents
  <2>1. PICK a \in AppId : handlers' = [handlers EXCEPT ![g].app = a, ![g].pc = "associate"]
    BY <1>4 DEF TypeOK
  <2> DEFINE h == [handlers[g] EXCEPT !.app = a, !.pc = "associate"]
  <2>2. /\ h \in Handler /\ h.pc = "associate" /\ h.row = handlers[g].row
        /\ h.req = handlers[g].req /\ h.parts = handlers[g].parts
    BY <1>1 DEF Handler, HandlerPcs
  <2>3. Becomes(g, h)
    BY <1>1, <2>1 DEF Becomes, TypeOK
  <2> HIDE DEF h
  <2>4. HandlerOK(h, stored')
    BY <1>1, <2>2 DEF HandlerOK, FindApp
  <2>5. HandlersOK'
    BY <1>1, <2>2, <2>3, <2>4, BecomesTyped DEF FindApp
  <2> QED
    BY <1>4, <2>5, TableStays, TypeFrom DEF FindApp, TypeOK, history, appVars
<1> QED
  BY <1>2, <1>3, <1>4 DEF FindApp

LEMMA TypeAssociateApp ==
    ASSUME TypeOK, NEW g \in Goroutines, AssociateApp(g)
    PROVE  TypeOK'
<1>1. g \in DOMAIN handlers /\ handlers[g] \in Handler /\ handlers[g].pc = "associate"
  BY HandlerTyped DEF AssociateApp, At
<1>2. CASE Goto(g, "decode")
           /\ requestEvents' = [i \in DOMAIN requestEvents |->
                IF i = handlers[g].row THEN [requestEvents[i] EXCEPT !.app = handlers[g].app]
                ELSE requestEvents[i]]
  <2>1. HandlersOK'
    BY <1>1, <1>2, GotoTyped DEF AssociateApp, HandlerPcs
  <2>2. \A r \in RequestEvent : [r EXCEPT !.app = handlers[g].app] \in RequestEvent
    BY <1>1 DEF RequestEvent, Handler
  <2>3. TableOK'
    BY <1>2, <2>2 DEF AssociateApp, TypeOK, TableOK, Known
  <2> QED
    BY <2>1, <2>3, TypeFrom DEF AssociateApp, TypeOK, history, appVars
<1>3. CASE Refuse(g, "error") /\ UNCHANGED requestEvents
  BY <1>1, <1>3, RefuseTyped, TableStays, TypeFrom DEF AssociateApp, TypeOK, history, appVars
<1> QED
  BY <1>2, <1>3 DEF AssociateApp

LEMMA TypeDecode ==
    ASSUME TypeOK, NEW g \in Goroutines, DecodeRequest(g)
    PROVE  TypeOK'
<1>1. g \in DOMAIN handlers /\ handlers[g] \in Handler /\ handlers[g].pc = "decode"
  BY HandlerTyped DEF DecodeRequest, At
<1>2. CASE SetState(handlers[g].row, "error") /\ (Refuse(g, "kept") \/ Return(g))
  <2>1. HandlersOK'
    BY <1>1, <1>2, RefuseTyped, ReturnTyped DEF DecodeRequest
  <2>2. TableOK'
    BY <1>2, SetStateTyped DEF DecodeRequest
  <2> QED
    BY <2>1, <2>2, TypeFrom DEF DecodeRequest, TypeOK, history, appVars
<1>3. CASE Goto(g, "authorize") /\ UNCHANGED requestEvents
  <2>1. HandlersOK'
    BY <1>1, <1>3, GotoTyped DEF DecodeRequest, HandlerPcs
  <2> QED
    BY <1>3, <2>1, TableStays, TypeFrom DEF DecodeRequest, TypeOK, history, appVars
<1> QED
  BY <1>2, <1>3 DEF DecodeRequest

(* The parts of a request whose controller has just started.               *)
Started(r) == [k \in Parts |-> IF k <= PartsOf[r] THEN "run" ELSE "done"]

Launched(g) == [handlers[g] EXCEPT !.pc = "parts", !.parts = Started(handlers[g].req)]

(* What Authorize does to its handler.                                     *)
LEMMA AuthorizeCases ==
    ASSUME TypeOK, NEW g \in Goroutines, Authorize(g)
    PROVE  \/ Return(g)
           \/ Refuse(g, "executed")
           \/ /\ Becomes(g, Launched(g)) /\ Launched(g) \in Handler
              /\ ~(TooOld(handlers[g].req) /\ Method[handlers[g].req] \notin AlwaysGranted)
<1>1. g \in DOMAIN handlers /\ handlers[g] \in Handler
  BY HandlerTyped DEF Authorize, At
<1>2. Launched(g) \in Handler
  BY <1>1 DEF Handler, HandlerPcs, PartPcs, Started, Launched
<1>3. Execute(g) => Return(g) \/ Refuse(g, "executed") \/ Becomes(g, Launched(g))
  BY <1>1 DEF Execute, Becomes, Started, Launched, TypeOK
<1>4. \/ Return(g) \/ Refuse(g, "executed")
      \/ Execute(g) /\ ~(TooOld(handlers[g].req) /\ Method[handlers[g].req] \notin AlwaysGranted)
  BY DEF Authorize
<1> QED
  BY <1>2, <1>3, <1>4

LEMMA TypeAuthorize ==
    ASSUME TypeOK, NEW g \in Goroutines, Authorize(g)
    PROVE  TypeOK'
<1>1. g \in DOMAIN handlers /\ handlers[g] \in Handler /\ handlers[g].pc = "authorize"
      /\ HandlerOK(handlers[g], stored)
  BY HandlerTyped DEF Authorize, At
<1>2. /\ Launched(g).pc = "parts" /\ Launched(g).row = handlers[g].row
      /\ Launched(g).req = handlers[g].req
  BY <1>1 DEF Handler, Launched
<1>3. HandlerOK(Launched(g), stored')
  BY <1>1, <1>2 DEF HandlerOK, Authorize
<1>4. HandlersOK'
  BY <1>1, <1>3, AuthorizeCases, ReturnTyped, RefuseTyped, BecomesTyped DEF Authorize
<1> QED
  BY <1>4, TableStays, TypeFrom DEF Authorize, TypeOK, history, appVars

(* A handler at work on its parts has a row.                               *)
LEMMA PartTyped ==
    ASSUME TypeOK, NEW g \in Goroutines, NEW k \in Parts, NEW pc, PartAt(g, k, pc)
    PROVE  /\ g \in DOMAIN handlers /\ handlers[g] \in Handler /\ handlers[g].pc = "parts"
           /\ handlers[g].parts[k] = pc /\ handlers[g].row \in Known /\ handlers[g].row \in Rows
BY HandlerTyped DEF PartAt, At, HandlerOK, TypeOK, Known

LEMMA CountTyped ==
    ASSUME NEW c \in [Rows -> [Parts -> Nat]], NEW i \in Rows, NEW k \in Parts
    PROVE  [c EXCEPT ![i][k] = @ + 1] \in [Rows -> [Parts -> Nat]]
OBVIOUS

LEMMA TypeParts ==
    ASSUME TypeOK, NEW g \in Goroutines, NEW k \in Parts,
           CarryOut(g, k) \/ Complete(g, k) \/ PublishResponse(g, k) \/ Finish(g, k)
    PROVE  TypeOK'
<1>1. CASE CarryOut(g, k)
  <2>1. g \in DOMAIN handlers /\ handlers[g].pc = "parts" /\ handlers[g].row \in Rows
    BY <1>1, PartTyped DEF CarryOut
  <2>2. HandlersOK'
    BY <1>1, <2>1, SetPartTyped DEF CarryOut, PartPcs
  <2>3. effects' \in [Rows -> [Parts -> Nat]]
    <3>1. effects \in [Rows -> [Parts -> Nat]]
      BY DEF TypeOK
    <3>2. [effects EXCEPT ![handlers[g].row][k] = @ + 1] \in [Rows -> [Parts -> Nat]]
      BY <2>1, <3>1, CountTyped
    <3>3. \/ UNCHANGED effects
          \/ effects' = [effects EXCEPT ![handlers[g].row][k] = @ + 1]
      BY <1>1 DEF CarryOut
    <3> QED
      BY <3>1, <3>2, <3>3
  <2> QED
    BY <1>1, <2>2, <2>3, TableStays, TypeFrom DEF CarryOut, TypeOK, appVars
<1>2. CASE Complete(g, k)
  <2>1. g \in DOMAIN handlers /\ handlers[g].pc = "parts"
    BY <1>2, PartTyped DEF Complete
  <2>2. HandlersOK'
    BY <1>2, <2>1, SetPartTyped DEF Complete, PartPcs
  <2> QED
    BY <1>2, <2>2, TableStays, TypeFrom DEF Complete, TypeOK, history, appVars
<1>3. CASE PublishResponse(g, k)
  <2>1. g \in DOMAIN handlers /\ handlers[g].pc = "parts" /\ handlers[g].row \in Rows
    BY <1>3, PartTyped DEF PublishResponse
  <2>2. HandlersOK'
    BY <1>3, <2>1, SetPartTyped DEF PublishResponse, PartPcs
  <2>3. answers' \in [Rows -> [Parts -> Nat]]
    <3>1. answers \in [Rows -> [Parts -> Nat]]
      BY DEF TypeOK
    <3>2. [answers EXCEPT ![handlers[g].row][k] = @ + 1] \in [Rows -> [Parts -> Nat]]
      BY <2>1, <3>1, CountTyped
    <3>3. \/ UNCHANGED answers
          \/ answers' = [answers EXCEPT ![handlers[g].row][k] = @ + 1]
      BY <1>3 DEF PublishResponse
    <3> QED
      BY <3>1, <3>2, <3>3
  <2>4. TableOK'
    <3>1. [row |-> handlers[g].row, part |-> k] \in [row : Rows, part : Parts]
      BY <2>1
    <3>2. responses' \subseteq responses \cup {[row |-> handlers[g].row, part |-> k]}
      BY <1>3 DEF PublishResponse
    <3> QED
      BY <1>3, <3>1, <3>2 DEF PublishResponse, TypeOK, TableOK, Known
  <2> QED
    BY <1>3, <2>2, <2>3, <2>4, TypeFrom DEF PublishResponse, TypeOK, appVars
<1>4. CASE Finish(g, k)
  <2>1. g \in DOMAIN handlers /\ handlers[g].pc = "parts"
        /\ handlers[g].final \in {"executed", "error", "kept"}
    BY <1>4, PartTyped DEF Finish, Handler
  <2>2. HandlersOK'
    BY <1>4, <2>1, SetPartTyped, ReturnTyped DEF Finish, PartPcs
  <2>3. TableOK'
    BY <1>4, <2>1, SetStateTyped, TableStays DEF Finish
  <2> QED
    BY <1>4, <2>2, <2>3, TypeFrom DEF Finish, TypeOK, history, appVars
<1> QED
  BY <1>1, <1>2, <1>3, <1>4

LEMMA TypeRest ==
    ASSUME TypeOK, (\E r \in Requests : Age(r)) \/ Crash \/ UNCHANGED vars
    PROVE  TypeOK'
<1>1. CASE \E r \in Requests : Age(r)
  BY <1>1, HandlersStay, TableStays DEF Age, TypeOK, HandlersOK, TableOK, Known, history, appVars
<1>2. CASE Crash
  <2>1. DOMAIN handlers' = {} /\ handlers' \in [DOMAIN handlers' -> Handler]
    BY <1>2 DEF Crash
  <2>2. TableOK'
    BY <1>2, TableStays DEF Crash
  <2>3. UNCHANGED <<apps, usedApps, stored, old, received, effects, answers>> /\ crashes' = crashes + 1
    BY <1>2 DEF Crash, history, appVars
  <2> QED
    BY <2>1, <2>2, <2>3 DEF TypeOK, TableOK, Known
<1>3. CASE UNCHANGED vars
  BY <1>3, HandlersStay, TableStays, TypeFrom DEF vars, TypeOK
<1> QED
  BY <1>1, <1>2, <1>3

LEMMA TypeStep == TypeOK /\ [Next]_vars => TypeOK'
<1> SUFFICES ASSUME TypeOK, [Next]_vars PROVE TypeOK'
  OBVIOUS
<1>1. CASE \E g \in Goroutines, r \in Requests : Receive(g, r)
  BY <1>1, TypeReceive
<1>2. CASE \E g \in Goroutines : HandleEvent(g)
  BY <1>2, TypeStore, TypeFindApp, TypeAssociateApp, TypeDecode, TypeAuthorize, TypeParts
  DEF HandleEvent
<1> QED
  BY <1>1, <1>2, TypeApps, TypeRest DEF Next

(* Types are kept, and a handler that has stored its request always knows  *)
(* the row it stored it in (HandleEvent), for any number of goroutines,    *)
(* requests, apps, deliveries and crashes.                                 *)
THEOREM TypeCorrect == Spec => []TypeOK
<1> QED
  BY TypeInit, TypeStep, PTL DEF Spec

-----------------------------------------------------------------------------
(* A request is handled once while it is remembered.  The counts are       *)
(* bounded because a row has at most one handler, and the parts of that    *)
(* handler tell what has not been done yet.                                *)

NotCarriedOut(h, k) == h.pc # "parts" \/ h.parts[k] = "run"
NotAnswered(h, k) == h.pc # "parts" \/ h.parts[k] \in {"run", "running", "answer"}

OneHandlerPerRow ==
    \A f, g \in DOMAIN handlers :
        f # g /\ handlers[f].row = handlers[g].row => handlers[f].row = 0

RowsAgree == \A i \in DOMAIN requestEvents : requestEvents[i].req = stored[i].req

OnlyLastRemembered ==
    \A i, j \in Known : i < j /\ stored[i].req = stored[j].req => i \notin DOMAIN requestEvents

PartsToDo ==
    \A g \in DOMAIN handlers, k \in Parts :
        handlers[g].row # 0 =>
            /\ NotCarriedOut(handlers[g], k) => effects[handlers[g].row][k] = 0
            /\ NotAnswered(handlers[g], k) => answers[handlers[g].row][k] = 0

FreshRows ==
    \A i \in Rows \ Known, k \in Parts : effects[i][k] = 0 /\ answers[i][k] = 0

CountedOnce == \A i \in Rows, k \in Parts : effects[i][k] <= 1 /\ answers[i][k] <= 1

OnceInv ==
    OneHandlerPerRow /\ RowsAgree /\ OnlyLastRemembered /\ PartsToDo /\ FreshRows /\ CountedOnce

(* A step that counts nothing, stores nothing and takes no handler back.   *)
TableShrinks ==
    /\ DOMAIN requestEvents' \subseteq DOMAIN requestEvents
    /\ \A i \in DOMAIN requestEvents' : requestEvents'[i].req = requestEvents[i].req

HandlersAdvance ==
    \A g \in DOMAIN handlers' :
        /\ g \in DOMAIN handlers
        /\ handlers'[g].row = handlers[g].row
        /\ \A k \in Parts :
             /\ NotCarriedOut(handlers'[g], k) => NotCarriedOut(handlers[g], k)
             /\ NotAnswered(handlers'[g], k) => NotAnswered(handlers[g], k)

LEMMA QuietStep ==
    ASSUME OnceInv, TableShrinks, HandlersAdvance, UNCHANGED <<stored, effects, answers>>
    PROVE  OnceInv'
<1>1. OneHandlerPerRow'
  BY DEF OnceInv, OneHandlerPerRow, HandlersAdvance
<1>2. RowsAgree' /\ OnlyLastRemembered'
  BY DEF OnceInv, RowsAgree, OnlyLastRemembered, TableShrinks, Known
<1>3. PartsToDo'
  BY DEF OnceInv, PartsToDo, HandlersAdvance
<1>4. FreshRows' /\ CountedOnce'
  BY DEF OnceInv, FreshRows, CountedOnce, Known
<1> QED
  BY <1>1, <1>2, <1>3, <1>4 DEF OnceInv

LEMMA TableShrinksStay == ASSUME UNCHANGED requestEvents PROVE TableShrinks
BY DEF TableShrinks

LEMMA SetStateShrinks ==
    ASSUME TypeOK, NEW i, NEW state, SetState(i, state)
    PROVE  TableShrinks
<1>1. \A r \in RequestEvent : [r EXCEPT !.state = state].req = r.req
  BY DEF RequestEvent
<1> QED
  BY <1>1 DEF TableShrinks, SetState, TypeOK

LEMMA ReturnAdvances ==
    ASSUME NEW g \in DOMAIN handlers, Return(g)
    PROVE  HandlersAdvance
BY DEF HandlersAdvance, Return

LEMMA BecomesAdvances ==
    ASSUME NEW g \in DOMAIN handlers, NEW h, Becomes(g, h), h.row = handlers[g].row,
           \A k \in Parts : /\ NotCarriedOut(h, k) => NotCarriedOut(handlers[g], k)
                            /\ NotAnswered(h, k) => NotAnswered(handlers[g], k)
    PROVE  HandlersAdvance
BY DEF HandlersAdvance, Becomes

LEMMA GotoAdvances ==
    ASSUME TypeOK, NEW g \in DOMAIN handlers, handlers[g].pc # "parts",
           NEW pc \in HandlerPcs, Goto(g, pc)
    PROVE  HandlersAdvance
<1> DEFINE h == [handlers[g] EXCEPT !.pc = pc]
<1>1. handlers[g] \in Handler
  BY HandlerTyped
<1>2. h.row = handlers[g].row
  BY <1>1 DEF Handler
<1>3. Becomes(g, h)
  BY GotoBecomes
<1> HIDE DEF h
<1>4. \A k \in Parts : NotCarriedOut(handlers[g], k) /\ NotAnswered(handlers[g], k)
  BY DEF NotCarriedOut, NotAnswered
<1> QED
  BY <1>2, <1>3, <1>4, BecomesAdvances, Zenon

LEMMA RefuseAdvances ==
    ASSUME TypeOK, NEW g \in DOMAIN handlers, handlers[g].pc # "parts",
           NEW final \in {"executed", "error", "kept"}, Refuse(g, final)
    PROVE  HandlersAdvance
<1> DEFINE h == [handlers[g] EXCEPT !.pc = "parts", !.final = final,
                                    !.parts = [@ EXCEPT ![1] = "answer"]]
<1>1. handlers[g] \in Handler
  BY HandlerTyped
<1>2. h.row = handlers[g].row
  BY <1>1 DEF Handler
<1>3. Becomes(g, h)
  BY RefuseBecomes
<1> HIDE DEF h
<1>4. \A k \in Parts : NotCarriedOut(handlers[g], k) /\ NotAnswered(handlers[g], k)
  BY DEF NotCarriedOut, NotAnswered
<1> QED
  BY <1>2, <1>3, <1>4, BecomesAdvances, Zenon

LEMMA SetPartAdvances ==
    ASSUME TypeOK, NEW g \in Goroutines, NEW k \in Parts, NEW old1 \in PartPcs, NEW pc \in PartPcs,
           PartAt(g, k, old1), SetPart(g, k, pc), pc # "run",
           pc \in {"running", "answer"} => old1 \in {"run", "running", "answer"}
    PROVE  HandlersAdvance /\ DOMAIN handlers' = DOMAIN handlers
           /\ handlers'[g].parts[k] = pc /\ handlers'[g].pc = "parts"
<1> DEFINE h == [handlers[g] EXCEPT !.parts[k] = pc]
<1>1. /\ g \in DOMAIN handlers /\ handlers[g] \in Handler /\ handlers[g].pc = "parts"
      /\ handlers[g].parts[k] = old1
  BY PartTyped
<1>2. /\ h.row = handlers[g].row /\ h.pc = "parts" /\ h.parts[k] = pc
      /\ \A j \in Parts \ {k} : h.parts[j] = handlers[g].parts[j]
  BY <1>1 DEF Handler
<1>3. Becomes(g, h)
  BY <1>1, SetPartBecomes
<1> HIDE DEF h
<1>4. ASSUME NEW j \in Parts
      PROVE  /\ NotCarriedOut(h, j) => NotCarriedOut(handlers[g], j)
             /\ NotAnswered(h, j) => NotAnswered(handlers[g], j)
  <2>1. CASE j = k
    BY <1>1, <1>2, <2>1 DEF NotCarriedOut, NotAnswered
  <2>2. CASE j # k
    BY <1>1, <1>2, <2>2 DEF NotCarriedOut, NotAnswered
  <2> QED
    BY <2>1, <2>2
<1> QED
  BY <1>1, <1>2, <1>3, <1>4, BecomesAdvances DEF Becomes

LEMMA OnceInit == Init => OnceInv
BY DEF Init, OnceInv, OneHandlerPerRow, RowsAgree, OnlyLastRemembered, PartsToDo, FreshRows,
       CountedOnce, Known, Rows

LEMMA HandlersAdvanceStay == ASSUME UNCHANGED handlers PROVE HandlersAdvance
BY DEF HandlersAdvance

(* Everything that is not a handler.                                       *)
LEMMA OnceApps ==
    ASSUME TypeOK, OnceInv,
           \/ \E a \in AppId, k \in PubKeys, s \in ScopeSets : CreateApp(a, k, s)
           \/ \E a \in AppId, s \in ScopeSets : UpdateApp(a, s)
           \/ \E a \in AppId : DeleteApp(a)
           \/ RemoveExcessEvents
           \/ \E r \in Requests : Age(r)
           \/ Crash
           \/ UNCHANGED vars
    PROVE  OnceInv'
<1>1. UNCHANGED <<stored, effects, answers>>
  BY DEF CreateApp, UpdateApp, DeleteApp, RemoveExcessEvents, Age, Crash, vars, history
<1>2. HandlersAdvance
  <2>1. CASE Crash
    BY <2>1 DEF Crash, HandlersAdvance
  <2>2. CASE UNCHANGED handlers
    BY <2>2, HandlersAdvanceStay
  <2> QED
    BY <2>1, <2>2 DEF CreateApp, UpdateApp, DeleteApp, RemoveExcessEvents, Age, vars
<1>3. TableShrinks
  <2>1. CASE \E rows : Remove(rows)
    BY <2>1 DEF Remove, TableShrinks
  <2>2. CASE UNCHANGED requestEvents
    BY <2>2, TableShrinksStay
  <2> QED
    BY <2>1, <2>2 DEF CreateApp, UpdateApp, DeleteApp, RemoveExcessEvents, Age, Crash, vars
<1> QED
  BY <1>1, <1>2, <1>3, QuietStep

LEMMA OnceReceive ==
    ASSUME TypeOK, OnceInv, NEW g \in Goroutines, NEW r \in Requests, Receive(g, r)
    PROVE  OnceInv'
<1>1. /\ g \notin DOMAIN handlers /\ DOMAIN handlers' = DOMAIN handlers \cup {g}
      /\ handlers'[g].row = 0
      /\ \A f \in DOMAIN handlers : handlers'[f] = handlers[f]
  BY DEF Receive
<1>2. UNCHANGED <<requestEvents, stored, effects, answers>>
  BY DEF Receive, history
<1>3. OneHandlerPerRow' /\ PartsToDo'
  BY <1>1, <1>2 DEF OnceInv, OneHandlerPerRow, PartsToDo
<1>4. RowsAgree' /\ OnlyLastRemembered' /\ FreshRows' /\ CountedOnce'
  BY <1>2 DEF OnceInv, RowsAgree, OnlyLastRemembered, FreshRows, CountedOnce, Known
<1> QED
  BY <1>3, <1>4 DEF OnceInv

LEMMA OnceStore ==
    ASSUME TypeOK, OnceInv, NEW g \in Goroutines, StoreRequest(g)
    PROVE  OnceInv'
<1>1. g \in DOMAIN handlers /\ handlers[g] \in Handler /\ handlers[g].pc = "store"
  BY HandlerTyped DEF StoreRequest, At
<1>2. CASE Return(g) /\ UNCHANGED <<requestEvents, stored>>
  BY <1>1, <1>2, ReturnAdvances, TableShrinksStay, QuietStep DEF StoreRequest, history
<1>3. CASE ~Stored(handlers[g].req) /\ StoreNew(g)
  <2> DEFINE r == handlers[g].req
             i == Len(stored) + 1
             h == [handlers[g] EXCEPT !.row = i, !.pc = "findApp"]
  <2>1. /\ i \in Rows /\ i \in Nat /\ i # 0 /\ i \notin Known
        /\ stored' = Append(stored, [req |-> r, late |-> r \in old])
        /\ UNCHANGED <<effects, answers>>
    BY <1>3 DEF StoreNew, StoreRequest, Rows, Known, TypeOK, history
  <2>2. /\ Known' = Known \cup {i} /\ stored'[i].req = r
        /\ \A j \in Known : stored'[j] = stored[j]
    BY <2>1 DEF TypeOK, Known
  <2>3. handlers' = [f \in DOMAIN handlers |-> IF f = g THEN h ELSE handlers[f]]
    BY <1>1, <1>3 DEF StoreNew, TypeOK
  <2>4. h.row = i
    BY <1>1 DEF Handler
  <2>5. \A f \in DOMAIN handlers : handlers[f].row \in Known \cup {0}
    BY DEF TypeOK, HandlerOK, Known
  <2>6. /\ DOMAIN requestEvents' = DOMAIN requestEvents \cup {i} /\ requestEvents'[i].req = r
        /\ \A j \in DOMAIN requestEvents : j # i => requestEvents'[j] = requestEvents[j]
    BY <1>3 DEF StoreNew
  <2>7. DOMAIN requestEvents \subseteq Known /\ \A j \in Known : j < i
    BY DEF TypeOK, Known
  <2> HIDE DEF h, r, i
  <2>8. OneHandlerPerRow'
    BY <2>1, <2>3, <2>4, <2>5 DEF OnceInv, OneHandlerPerRow
  <2>9. RowsAgree'
    BY <2>1, <2>2, <2>6, <2>7 DEF OnceInv, RowsAgree
  <2>10. OnlyLastRemembered'
    <3>1. \A j \in DOMAIN requestEvents : stored[j].req # r
      BY <1>3 DEF Stored, OnceInv, RowsAgree, r
    <3>2. Known \subseteq Int /\ i \in Int
      BY <2>1 DEF Known
    <3>3. ASSUME NEW j \in Known, NEW l \in Known', j < l, stored'[j].req = stored'[l].req
          PROVE  j \notin DOMAIN requestEvents'
      <4>1. j # i /\ stored'[j] = stored[j]
        BY <2>1, <2>2
      <4>2. CASE l = i
        BY <2>2, <2>6, <3>1, <3>3, <4>1, <4>2
      <4>3. CASE l \in Known
        BY <2>2, <2>6, <3>3, <4>1, <4>3 DEF OnceInv, OnlyLastRemembered
      <4> QED
        BY <2>2, <4>2, <4>3
    <3> QED
      BY <2>2, <2>7, <3>2, <3>3 DEF OnlyLastRemembered
  <2>11. PartsToDo'
    BY <2>1, <2>3, <2>4, <2>5 DEF OnceInv, PartsToDo, FreshRows
  <2>12. FreshRows' /\ CountedOnce'
    BY <2>1, <2>2 DEF OnceInv, FreshRows, CountedOnce
  <2> QED
    BY <2>8, <2>9, <2>10, <2>11, <2>12 DEF OnceInv
<1> QED
  BY <1>2, <1>3 DEF StoreRequest

(* The steps of a handler up to the start of its controller.               *)
LEMMA OncePrepare ==
    ASSUME TypeOK, OnceInv, NEW g \in Goroutines,
           FindApp(g) \/ AssociateApp(g) \/ DecodeRequest(g) \/ Authorize(g)
    PROVE  OnceInv'
<1>1. g \in DOMAIN handlers /\ handlers[g] \in Handler /\ handlers[g].pc \notin {"store", "parts"}
  BY HandlerTyped DEF FindApp, AssociateApp, DecodeRequest, Authorize, At
<1>2. UNCHANGED <<stored, effects, answers>>
  BY DEF FindApp, AssociateApp, DecodeRequest, Authorize, history
<1>3. CASE FindApp(g)
  <2>1. TableShrinks
    BY <1>3, SetStateShrinks, TableShrinksStay DEF FindApp
  <2>2. CASE Return(g) \/ Refuse(g, "kept")
    BY <1>1, <2>2, ReturnAdvances, RefuseAdvances
       , <1>2, <2>1, QuietStep
  <2>3. CASE \E a \in DOMAIN apps : handlers' = [handlers EXCEPT ![g].app = a, ![g].pc = "associate"]
    <3>1. PICK a \in DOMAIN apps : handlers' = [handlers EXCEPT ![g].app = a, ![g].pc = "associate"]
      BY <2>3
    <3> DEFINE h == [handlers[g] EXCEPT !.app = a, !.pc = "associate"]
    <3>2. h.row = handlers[g].row
      BY <1>1 DEF Handler
    <3>3. Becomes(g, h)
      BY <1>1, <3>1 DEF Becomes, TypeOK
    <3> HIDE DEF h
    <3>4. HandlersAdvance
      BY <1>1, <3>2, <3>3, BecomesAdvances DEF NotCarriedOut, NotAnswered
    <3> QED
      BY <1>2, <2>1, <3>4, QuietStep
  <2> QED
    BY <1>3, <2>2, <2>3 DEF FindApp
<1>4. CASE AssociateApp(g)
  <2>1. \A e \in RequestEvent : [e EXCEPT !.app = handlers[g].app].req = e.req
    BY DEF RequestEvent
  <2>2. TableShrinks
    <3>1. CASE UNCHANGED requestEvents
      BY <3>1, TableShrinksStay
    <3>2. CASE requestEvents' = [j \in DOMAIN requestEvents |->
                 IF j = handlers[g].row THEN [requestEvents[j] EXCEPT !.app = handlers[g].app]
                 ELSE requestEvents[j]]
      BY <2>1, <3>2 DEF TableShrinks, TypeOK
    <3> QED
      BY <1>4, <3>1, <3>2 DEF AssociateApp
  <2>3. HandlersAdvance
    BY <1>1, <1>4, GotoAdvances, RefuseAdvances DEF AssociateApp, HandlerPcs
  <2> QED
    BY <1>2, <2>2, <2>3, QuietStep
<1>5. CASE DecodeRequest(g)
  <2>1. TableShrinks
    BY <1>5, SetStateShrinks, TableShrinksStay DEF DecodeRequest
  <2>2. HandlersAdvance
    BY <1>1, <1>5, ReturnAdvances, GotoAdvances, RefuseAdvances DEF DecodeRequest, HandlerPcs
  <2> QED
    BY <1>2, <2>1, <2>2, QuietStep
<1>6. CASE Authorize(g)
  <2>1. TableShrinks
    BY <1>6, TableShrinksStay DEF Authorize
  <2>2. Launched(g).row = handlers[g].row
    BY <1>1 DEF Launched, Handler
  <2>3. HandlersAdvance
    BY <1>1, <1>6, <2>2, AuthorizeCases, ReturnAdvances, RefuseAdvances, BecomesAdvances
    DEF NotCarriedOut, NotAnswered
  <2> QED
    BY <1>2, <2>1, <2>3, QuietStep
<1> QED
  BY <1>3, <1>4, <1>5, <1>6

LEMMA OnceParts ==
    ASSUME TypeOK, OnceInv, NEW g \in Goroutines, NEW k \in Parts,
           CarryOut(g, k) \/ Complete(g, k) \/ PublishResponse(g, k) \/ Finish(g, k)
    PROVE  OnceInv'
<1> DEFINE i == handlers[g].row
<1>1. CASE CarryOut(g, k)
  <2>1. /\ g \in DOMAIN handlers /\ i \in Known /\ i \in Rows /\ i # 0
        /\ handlers[g].pc = "parts" /\ handlers[g].parts[k] = "run"
    BY <1>1, PartTyped DEF CarryOut, Known
  <2>2. UNCHANGED <<requestEvents, stored, answers>>
    BY <1>1 DEF CarryOut
  <2>3. HandlersAdvance
    BY <1>1, SetPartAdvances DEF CarryOut, PartPcs
  <2>4. CASE UNCHANGED effects
    BY <2>2, <2>3, <2>4, TableShrinksStay, QuietStep
  <2>5. CASE effects' = [effects EXCEPT ![i][k] = @ + 1] /\ SetPart(g, k, "running")
    <3>1. /\ effects[i][k] = 0 /\ effects'[i][k] = 1
          /\ \A j \in Rows, l \in Parts : j # i \/ l # k => effects'[j][l] = effects[j][l]
      BY <2>1, <2>5 DEF TypeOK, OnceInv, PartsToDo, NotCarriedOut
    <3>2. ~NotCarriedOut(handlers'[g], k) /\ DOMAIN handlers' = DOMAIN handlers
      BY <1>1, <2>5, SetPartAdvances DEF CarryOut, PartPcs, NotCarriedOut
    <3>3. OneHandlerPerRow' /\ \A f \in DOMAIN handlers \ {g} : handlers[f].row # i
      BY <2>1, <2>3 DEF OnceInv, OneHandlerPerRow, HandlersAdvance
    <3>4. \A f \in DOMAIN handlers : handlers[f].row = 0 \/ handlers[f].row \in Rows
      BY DEF TypeOK, HandlerOK, Known
    <3>5. PartsToDo'
      BY <2>2, <2>3, <3>1, <3>2, <3>3, <3>4 DEF OnceInv, PartsToDo, HandlersAdvance
    <3>6. CountedOnce' /\ FreshRows'
      BY <2>1, <2>2, <3>1 DEF OnceInv, CountedOnce, FreshRows, Known
    <3>7. RowsAgree' /\ OnlyLastRemembered'
      BY <2>2 DEF OnceInv, RowsAgree, OnlyLastRemembered, Known
    <3> QED
      BY <3>3, <3>5, <3>6, <3>7 DEF OnceInv
  <2> QED
    BY <1>1, <2>4, <2>5 DEF CarryOut
<1>2. CASE Complete(g, k)
  <2>1. HandlersAdvance
    BY <1>2, SetPartAdvances DEF Complete, PartPcs
  <2> QED
    BY <1>2, <2>1, TableShrinksStay, QuietStep DEF Complete, history
<1>3. CASE PublishResponse(g, k)
  <2>1. /\ g \in DOMAIN handlers /\ i \in Known /\ i \in Rows /\ i # 0
        /\ handlers[g].pc = "parts" /\ handlers[g].parts[k] = "answer"
    BY <1>3, PartTyped DEF PublishResponse, Known
  <2>2. UNCHANGED <<requestEvents, stored, effects>>
    BY <1>3 DEF PublishResponse
  <2>3. HandlersAdvance /\ DOMAIN handlers' = DOMAIN handlers /\ ~NotAnswered(handlers'[g], k)
    BY <1>3, SetPartAdvances DEF PublishResponse, PartPcs, NotAnswered
  <2>4. CASE UNCHANGED answers
    BY <2>2, <2>3, <2>4, TableShrinksStay, QuietStep
  <2>5. CASE answers' = [answers EXCEPT ![i][k] = @ + 1]
    <3>1. /\ answers[i][k] = 0 /\ answers'[i][k] = 1
          /\ \A j \in Rows, l \in Parts : j # i \/ l # k => answers'[j][l] = answers[j][l]
      BY <2>1, <2>5 DEF TypeOK, OnceInv, PartsToDo, NotAnswered
    <3>3. OneHandlerPerRow' /\ \A f \in DOMAIN handlers \ {g} : handlers[f].row # i
      BY <2>1, <2>3 DEF OnceInv, OneHandlerPerRow, HandlersAdvance
    <3>4. \A f \in DOMAIN handlers : handlers[f].row = 0 \/ handlers[f].row \in Rows
      BY DEF TypeOK, HandlerOK, Known
    <3>5. PartsToDo'
      BY <2>2, <2>3, <3>1, <3>3, <3>4 DEF OnceInv, PartsToDo, HandlersAdvance
    <3>6. CountedOnce' /\ FreshRows'
      <4> HIDE DEF i
      <4>1. CountedOnce'
        BY <2>2, <3>1 DEF OnceInv, CountedOnce
      <4>2. FreshRows'
        BY <2>1, <2>2, <3>1 DEF OnceInv, FreshRows, Known
      <4> QED
        BY <4>1, <4>2
    <3>7. RowsAgree' /\ OnlyLastRemembered'
      BY <2>2 DEF OnceInv, RowsAgree, OnlyLastRemembered, Known
    <3> QED
      BY <3>3, <3>5, <3>6, <3>7 DEF OnceInv
  <2> QED
    BY <1>3, <2>4, <2>5 DEF PublishResponse
<1>4. CASE Finish(g, k)
  <2>1. TableShrinks
    BY <1>4, SetStateShrinks, TableShrinksStay DEF Finish
  <2>2. HandlersAdvance
    BY <1>4, SetPartAdvances, ReturnAdvances, PartTyped DEF Finish, PartPcs
  <2> QED
    BY <1>4, <2>1, <2>2, QuietStep DEF Finish, history
<1> QED
  BY <1>1, <1>2, <1>3, <1>4

LEMMA OnceStep == TypeOK /\ OnceInv /\ [Next]_vars => OnceInv'
<1> SUFFICES ASSUME TypeOK, OnceInv, [Next]_vars PROVE OnceInv'
  OBVIOUS
<1>1. CASE \E g \in Goroutines, r \in Requests : Receive(g, r)
  BY <1>1, OnceReceive
<1>2. CASE \E g \in Goroutines : HandleEvent(g)
  BY <1>2, OnceStore, OncePrepare, OnceParts DEF HandleEvent
<1> QED
  BY <1>1, <1>2, OnceApps DEF Next

(* A request is handled at most once while its row is there: the unique    *)
(* nostr id (HandleEvent) is enough, whatever the number of relays,        *)
(* goroutines, restarts, deletions of apps and removals of old requests.   *)
THEOREM HandledAtMostOnce == Spec => []HandledOnceWhileRemembered
<1>1. OnceInv => HandledOnceWhileRemembered
  BY DEF OnceInv, OnlyLastRemembered, CountedOnce, HandledOnceWhileRemembered
<1> QED
  BY <1>1, OnceInit, OnceStep, TypeInit, TypeStep, PTL DEF Spec

-----------------------------------------------------------------------------
(* Late requests.  A part is still to run only if the request was not too  *)
(* old when its controller started, and a request never gets younger.      *)

LateRow(i) == stored[i].late /\ Method[stored[i].req] \in PayMethods \cup InvoiceMethods

LateIsOld == \A i \in Known : stored[i].late => stored[i].req \in old

RunsInTime ==
    \A g \in DOMAIN handlers, k \in Parts :
        handlers[g].pc = "parts" /\ handlers[g].parts[k] = "run" => ~LateRow(handlers[g].row)

LateUndone == \A i \in Known, k \in Parts : LateRow(i) => effects[i][k] = 0

LateInv == LateIsOld /\ RunsInTime /\ LateUndone

(* A step that lets no part run that did not run before.                   *)
RunningOnly ==
    \A g \in DOMAIN handlers', k \in Parts :
        handlers'[g].pc = "parts" /\ handlers'[g].parts[k] = "run" =>
            /\ g \in DOMAIN handlers /\ handlers'[g].row = handlers[g].row
            /\ handlers[g].pc = "parts" /\ handlers[g].parts[k] = "run"

LEMMA LateQuiet ==
    ASSUME LateInv, RunningOnly, UNCHANGED <<stored, effects>>, old \subseteq old'
    PROVE  LateInv'
<1>1. LateIsOld' /\ LateUndone'
  BY DEF LateInv, LateIsOld, LateUndone, LateRow, Known
<1>2. RunsInTime'
  BY DEF LateInv, RunsInTime, RunningOnly, LateRow
<1> QED
  BY <1>1, <1>2 DEF LateInv

LEMMA ReturnRuns == ASSUME NEW g \in DOMAIN handlers, Return(g) PROVE RunningOnly
BY DEF RunningOnly, Return

LEMMA BecomesRuns ==
    ASSUME NEW g \in DOMAIN handlers, NEW h, Becomes(g, h),
           \A k \in Parts : h.pc = "parts" /\ h.parts[k] = "run" =>
               /\ h.row = handlers[g].row
               /\ handlers[g].pc = "parts" /\ handlers[g].parts[k] = "run"
    PROVE  RunningOnly
BY DEF RunningOnly, Becomes

LEMMA GotoRuns ==
    ASSUME TypeOK, NEW g \in DOMAIN handlers, NEW pc \in HandlerPcs, pc # "parts", Goto(g, pc)
    PROVE  RunningOnly
<1> DEFINE h == [handlers[g] EXCEPT !.pc = pc]
<1>1. Becomes(g, h)
  BY GotoBecomes
<1>2. h.pc = pc
  BY HandlerTyped DEF Handler
<1> HIDE DEF h
<1> QED
  BY <1>1, <1>2, BecomesRuns

(* A refused request has no part to run: before, all of them were done.    *)
LEMMA RefuseRuns ==
    ASSUME TypeOK, NEW g \in DOMAIN handlers, handlers[g].pc # "parts",
           NEW final \in {"executed", "error", "kept"}, Refuse(g, final)
    PROVE  RunningOnly
<1> DEFINE h == [handlers[g] EXCEPT !.pc = "parts", !.final = final,
                                    !.parts = [@ EXCEPT ![1] = "answer"]]
<1>1. handlers[g] \in Handler /\ \A k \in Parts : handlers[g].parts[k] = "done"
  BY HandlerTyped DEF HandlerOK
<1>2. Becomes(g, h)
  BY RefuseBecomes
<1>3. \A k \in Parts : h.parts[k] # "run"
  BY <1>1 DEF Handler
<1> HIDE DEF h
<1> QED
  BY <1>2, <1>3, BecomesRuns

LEMMA SetPartRuns ==
    ASSUME TypeOK, NEW g \in DOMAIN handlers, handlers[g].pc = "parts", NEW k \in Parts,
           NEW pc \in PartPcs, pc # "run", SetPart(g, k, pc)
    PROVE  RunningOnly
<1> DEFINE h == [handlers[g] EXCEPT !.parts[k] = pc]
<1>1. handlers[g] \in Handler
  BY HandlerTyped
<1>2. /\ h.row = handlers[g].row /\ h.parts[k] = pc
      /\ \A j \in Parts \ {k} : h.parts[j] = handlers[g].parts[j]
  BY <1>1 DEF Handler
<1>3. Becomes(g, h)
  BY SetPartBecomes
<1> HIDE DEF h
<1> QED
  BY <1>2, <1>3, BecomesRuns

LEMMA LateOthers ==
    ASSUME TypeOK, LateInv,
           \/ \E a \in AppId, k \in PubKeys, s \in ScopeSets : CreateApp(a, k, s)
           \/ \E a \in AppId, s \in ScopeSets : UpdateApp(a, s)
           \/ \E a \in AppId : DeleteApp(a)
           \/ RemoveExcessEvents
           \/ \E g \in Goroutines, r \in Requests : Receive(g, r)
           \/ \E r \in Requests : Age(r)
           \/ Crash
           \/ UNCHANGED vars
    PROVE  LateInv'
<1>1. UNCHANGED <<stored, effects>> /\ old \subseteq old'
  BY DEF CreateApp, UpdateApp, DeleteApp, RemoveExcessEvents, Receive, Age, Crash, vars, history
<1>2. CASE UNCHANGED handlers
  BY <1>1, <1>2, LateQuiet DEF RunningOnly
<1>3. CASE Crash
  BY <1>1, <1>3, LateQuiet DEF RunningOnly, Crash
<1>4. CASE \E g \in Goroutines, r \in Requests : Receive(g, r)
  BY <1>1, <1>4, LateQuiet DEF RunningOnly, Receive
<1> QED
  BY <1>2, <1>3, <1>4 DEF CreateApp, UpdateApp, DeleteApp, RemoveExcessEvents, Age, vars

LEMMA LateStore ==
    ASSUME TypeOK, OnceInv, LateInv, NEW g \in Goroutines, StoreRequest(g)
    PROVE  LateInv'
<1>1. g \in DOMAIN handlers /\ handlers[g] \in Handler /\ handlers[g].pc = "store"
  BY HandlerTyped DEF StoreRequest, At
<1>2. CASE Return(g) /\ UNCHANGED <<requestEvents, stored>>
  BY <1>1, <1>2, ReturnRuns, LateQuiet DEF StoreRequest, history
<1>3. CASE StoreNew(g)
  <2> DEFINE i == Len(stored) + 1
             h == [handlers[g] EXCEPT !.row = i, !.pc = "findApp"]
  <2>1. /\ i \in Rows /\ i \notin Known /\ UNCHANGED <<effects, old>>
        /\ stored' = Append(stored, [req |-> handlers[g].req, late |-> handlers[g].req \in old])
    BY <1>3 DEF StoreNew, StoreRequest, Known, TypeOK, history
  <2>2. /\ Known' = Known \cup {i} /\ \A j \in Known : stored'[j] = stored[j]
        /\ stored'[i].late => stored'[i].req \in old
    <3>1. /\ Known' = Known \cup {i} /\ \A j \in Known : stored'[j] = stored[j]
          /\ stored'[i] = [req |-> handlers[g].req, late |-> handlers[g].req \in old]
      BY <2>1 DEF TypeOK, Known
    <3>2. stored'[i].req = handlers[g].req /\ stored'[i].late = (handlers[g].req \in old)
      BY <3>1
    <3> QED
      BY <3>1, <3>2
  <2>3. handlers' = [f \in DOMAIN handlers |-> IF f = g THEN h ELSE handlers[f]]
    BY <1>1, <1>3 DEF StoreNew, TypeOK
  <2>4. h.pc = "findApp"
    BY <1>1 DEF Handler
  <2>5. \A k \in Parts : effects[i][k] = 0
    BY <2>1 DEF OnceInv, FreshRows
  <2>6. \A f \in DOMAIN handlers : handlers[f].pc # "store" => handlers[f].row \in Known
    BY DEF TypeOK, HandlerOK, Known
  <2> HIDE DEF h, i
  <2>7. LateIsOld'
    BY <2>1, <2>2 DEF LateInv, LateIsOld
  <2>8. RunsInTime'
    BY <2>2, <2>3, <2>4, <2>6 DEF LateInv, RunsInTime, LateRow
  <2>9. LateUndone'
    BY <2>1, <2>2, <2>5 DEF LateInv, LateUndone, LateRow
  <2> QED
    BY <2>7, <2>8, <2>9 DEF LateInv
<1> QED
  BY <1>2, <1>3 DEF StoreRequest

LEMMA LatePrepare ==
    ASSUME TypeOK, LateInv, NEW g \in Goroutines,
           FindApp(g) \/ AssociateApp(g) \/ DecodeRequest(g)
    PROVE  LateInv'
<1>1. g \in DOMAIN handlers /\ handlers[g] \in Handler /\ handlers[g].pc \notin {"store", "parts"}
  BY HandlerTyped DEF FindApp, AssociateApp, DecodeRequest, At
<1>2. UNCHANGED <<stored, effects, old>>
  BY DEF FindApp, AssociateApp, DecodeRequest, history
<1>3. CASE \E a \in DOMAIN apps : handlers' = [handlers EXCEPT ![g].app = a, ![g].pc = "associate"]
  <2>1. PICK a \in DOMAIN apps : handlers' = [handlers EXCEPT ![g].app = a, ![g].pc = "associate"]
    BY <1>3
  <2> DEFINE h == [handlers[g] EXCEPT !.app = a, !.pc = "associate"]
  <2>2. h.pc = "associate"
    BY <1>1 DEF Handler
  <2>3. Becomes(g, h)
    BY <1>1, <2>1 DEF Becomes, TypeOK
  <2> HIDE DEF h
  <2>4. RunningOnly
    BY <1>1, <2>2, <2>3, BecomesRuns
  <2> QED
    BY <1>2, <2>4, LateQuiet
<1>4. CASE Return(g) \/ Refuse(g, "kept") \/ Refuse(g, "error")
  BY <1>1, <1>2, <1>4, ReturnRuns, RefuseRuns, LateQuiet
<1>5. CASE Goto(g, "decode") \/ Goto(g, "authorize")
  BY <1>1, <1>2, <1>5, GotoRuns, LateQuiet DEF HandlerPcs
<1> QED
  BY <1>3, <1>4, <1>5 DEF FindApp, AssociateApp, DecodeRequest

LEMMA PaidScope ==
    ASSUME NEW method \in PayMethods \cup InvoiceMethods
    PROVE  ScopeOf(method) \in {"pay_invoice", "make_invoice"} /\ method \notin AlwaysGranted
<1>1. CASE method \in PayMethods
  BY <1>1 DEF PayMethods, InvoiceMethods, QueryMethods, ScopeOf, AlwaysGranted
<1>2. CASE method \in InvoiceMethods
  BY <1>2 DEF PayMethods, InvoiceMethods, QueryMethods, ScopeOf, AlwaysGranted
<1> QED
  BY <1>1, <1>2

LEMMA LateAuthorize ==
    ASSUME TypeOK, LateInv, NEW g \in Goroutines, Authorize(g)
    PROVE  LateInv'
<1>1. /\ g \in DOMAIN handlers /\ handlers[g] \in Handler /\ handlers[g].pc = "authorize"
      /\ HandlerOK(handlers[g], stored)
  BY HandlerTyped DEF Authorize, At
<1>2. UNCHANGED <<stored, effects, old>>
  BY DEF Authorize, history
<1>3. CASE Return(g) \/ Refuse(g, "executed")
  BY <1>1, <1>2, <1>3, ReturnRuns, RefuseRuns, LateQuiet
<1>4. CASE /\ Becomes(g, Launched(g))
           /\ ~(TooOld(handlers[g].req) /\ Method[handlers[g].req] \notin AlwaysGranted)
  <2>1. /\ Launched(g).row = handlers[g].row /\ handlers[g].row \in Known
        /\ stored[handlers[g].row].req = handlers[g].req
    BY <1>1 DEF Launched, Handler, HandlerOK, Known
  <2>2. ~LateRow(handlers[g].row)
    <3>1. SUFFICES ASSUME LateRow(handlers[g].row) PROVE FALSE
      OBVIOUS
    <3>2. handlers[g].req \in old
      BY <2>1, <3>1 DEF LateInv, LateIsOld, LateRow
    <3>3. Method[handlers[g].req] \in PayMethods \cup InvoiceMethods
      BY <2>1, <3>1 DEF LateRow
    <3>4. TooOld(handlers[g].req) /\ Method[handlers[g].req] \notin AlwaysGranted
      BY <3>2, <3>3, PaidScope DEF TooOld
    <3> QED
      BY <1>4, <3>4
  <2>3. RunsInTime'
    BY <1>2, <1>4, <2>1, <2>2 DEF LateInv, RunsInTime, LateRow, Becomes
  <2>4. LateIsOld' /\ LateUndone'
    BY <1>2 DEF LateInv, LateIsOld, LateUndone, LateRow, Known
  <2> QED
    BY <2>3, <2>4 DEF LateInv
<1> QED
  BY <1>3, <1>4, AuthorizeCases

LEMMA LateParts ==
    ASSUME TypeOK, LateInv, NEW g \in Goroutines, NEW k \in Parts,
           CarryOut(g, k) \/ Complete(g, k) \/ PublishResponse(g, k) \/ Finish(g, k)
    PROVE  LateInv'
<1>1. /\ g \in DOMAIN handlers /\ handlers[g].pc = "parts"
      /\ handlers[g].row \in Known /\ handlers[g].row \in Rows
  BY PartTyped DEF CarryOut, Complete, PublishResponse, Finish
<1>2. RunningOnly
  BY <1>1, SetPartRuns, ReturnRuns DEF CarryOut, Complete, PublishResponse, Finish, PartPcs
<1>3. UNCHANGED <<stored, old>>
  BY DEF CarryOut, Complete, PublishResponse, Finish
<1>4. CASE UNCHANGED effects
  BY <1>2, <1>3, <1>4, LateQuiet
<1>5. CASE CarryOut(g, k) /\ effects' = [effects EXCEPT ![handlers[g].row][k] = @ + 1]
  <2>1. ~LateRow(handlers[g].row)
    BY <1>5, PartTyped DEF CarryOut, LateInv, RunsInTime
  <2>2. \A i \in Rows, l \in Parts : i # handlers[g].row => effects'[i][l] = effects[i][l]
    BY <1>1, <1>5 DEF TypeOK
  <2>3. LateUndone'
    <3>1. Known' = Known /\ Known \subseteq Rows /\ \A i \in Known : LateRow(i)' <=> LateRow(i)
      BY <1>3 DEF Known, TypeOK, LateRow
    <3> QED
      BY <2>1, <2>2, <3>1 DEF LateInv, LateUndone
  <2>4. LateIsOld' /\ RunsInTime'
    BY <1>2, <1>3 DEF LateInv, LateIsOld, RunsInTime, RunningOnly, LateRow, Known
  <2> QED
    BY <2>3, <2>4 DEF LateInv
<1> QED
  BY <1>4, <1>5 DEF CarryOut, Complete, PublishResponse, Finish, history

(* A request to pay or to make an invoice that comes in more than six      *)
(* hours after it was made is not carried out (HandleEvent), in whatever   *)
(* way it was forgotten and delivered again.                               *)
THEOREM LateIsNotCarriedOut == Spec => []LateRequestsHaveNoEffect
<1>1. Init => LateInv
  BY DEF Init, LateInv, LateIsOld, RunsInTime, LateUndone, Known
<1>2. TypeOK /\ OnceInv /\ LateInv /\ [Next]_vars => LateInv'
  <2> SUFFICES ASSUME TypeOK, OnceInv, LateInv, [Next]_vars PROVE LateInv'
    OBVIOUS
  <2>1. CASE \E g \in Goroutines : HandleEvent(g)
    BY <2>1, LateStore, LatePrepare, LateAuthorize, LateParts DEF HandleEvent
  <2> QED
    BY <2>1, LateOthers DEF Next
<1>3. LateInv => LateRequestsHaveNoEffect
  BY DEF LateInv, LateUndone, LateRow, LateRequestsHaveNoEffect
<1> QED
  BY <1>1, <1>2, <1>3, OnceInit, OnceStep, TypeInit, TypeStep, PTL DEF Spec

-----------------------------------------------------------------------------
(* What the state of a stored request tells: the invariant, by handler and *)
(* by row.                                                                 *)

Has(i, state) == i \in DOMAIN requestEvents /\ requestEvents[i].state = state

(* A request has no app before it is associated with one.  A refusal that  *)
(* is no result is given before anything is done; "kept" is given to a     *)
(* request in state error only, and such a request gets nothing else.      *)
HandlerTells(g) ==
    LET h == handlers[g]
        i == handlers[g].row
    IN  /\ h.pc # "parts" => h.final = "executed"
        /\ h.pc \in {"findApp", "associate"} /\ i \in DOMAIN requestEvents
               => requestEvents[i].app = 0
        /\ h.pc = "parts" /\ h.final # "executed" =>
               \A k \in Parts : h.parts[k] # "run" /\ effects[i][k] = 0
        /\ Has(i, "error") => h.pc = "parts" /\ h.final # "executed"
        /\ h.pc = "parts" /\ h.final = "kept" /\ i \in DOMAIN requestEvents => Has(i, "error")
        /\ h.pc = "parts" /\ i \in DOMAIN requestEvents =>
               \A k \in Parts : h.parts[k] = "finish" => [row |-> i, part |-> k] \in responses

Explained(i) ==
    \/ crashes > 0
    \/ requestEvents[i].app = 0
    \/ TooOld(requestEvents[i].req)
    \/ PartsOf[requestEvents[i].req] = 0

RowTells(i) ==
    /\ Has(i, "error") => \A k \in Parts : effects[i][k] = 0
    /\ Has(i, "executed") => \E k \in Parts : [row |-> i, part |-> k] \in responses
    /\ Has(i, "executing") /\ (\A g \in DOMAIN handlers : handlers[g].row # i) => Explained(i)

OutcomeInv ==
    /\ \A g \in DOMAIN handlers : HandlerTells(g)
    /\ \A i \in DOMAIN requestEvents : RowTells(i)
-----------------------------------------------------------------------------
(* Steps that leave the handlers alone, or end them all.                   *)

LEMMA HasRow == ASSUME TypeOK, NEW g \in DOMAIN handlers, handlers[g].pc # "store"
                PROVE  handlers[g].row \in Known /\ handlers[g].row \in Rows
BY HandlerTyped DEF HandlerOK, TypeOK, Known

LEMMA OutcomeRemove ==
    ASSUME OutcomeInv, NEW rows, Remove(rows), UNCHANGED <<handlers, old, effects, crashes>>
    PROVE  OutcomeInv'
<1>1. /\ DOMAIN requestEvents' = DOMAIN requestEvents \ rows
      /\ \A i \in DOMAIN requestEvents' : requestEvents'[i] = requestEvents[i]
      /\ \A i \in DOMAIN requestEvents', k \in Parts :
           [row |-> i, part |-> k] \in responses => [row |-> i, part |-> k] \in responses'
  BY DEF Remove
<1>2. ASSUME NEW g \in DOMAIN handlers PROVE HandlerTells(g)'
  BY <1>1 DEF OutcomeInv, HandlerTells, Has
<1>3. ASSUME NEW i \in DOMAIN requestEvents' PROVE RowTells(i)'
  <2>1. RowTells(i)
    BY <1>1 DEF OutcomeInv
  <2> QED
    BY <1>1, <2>1 DEF RowTells, Has, Explained, TooOld
<1> QED
  BY <1>2, <1>3 DEF OutcomeInv

LEMMA OutcomeStay ==
    ASSUME OutcomeInv, UNCHANGED <<requestEvents, responses, handlers, effects, crashes>>,
           old \subseteq old'
    PROVE  OutcomeInv'
<1>1. ASSUME NEW g \in DOMAIN handlers PROVE HandlerTells(g)'
  BY DEF OutcomeInv, HandlerTells, Has
<1>2. ASSUME NEW i \in DOMAIN requestEvents PROVE RowTells(i)'
  <2>1. RowTells(i)
    BY DEF OutcomeInv
  <2> QED
    BY <2>1 DEF RowTells, Has, Explained, TooOld
<1> QED
  BY <1>1, <1>2 DEF OutcomeInv

LEMMA OutcomeCrash ==
    ASSUME TypeOK, OutcomeInv, Crash
    PROVE  OutcomeInv'
<1>1. /\ DOMAIN handlers' = {} /\ crashes' > 0
      /\ UNCHANGED <<requestEvents, responses, old, effects>>
  BY DEF Crash, TypeOK, history
<1>2. ASSUME NEW i \in DOMAIN requestEvents PROVE RowTells(i)'
  <2>1. RowTells(i)
    BY DEF OutcomeInv
  <2> QED
    BY <1>1, <2>1 DEF RowTells, Has, Explained
<1> QED
  BY <1>1, <1>2 DEF OutcomeInv

LEMMA OutcomeReceive ==
    ASSUME TypeOK, OutcomeInv, NEW g \in Goroutines, NEW r \in Requests, Receive(g, r)
    PROVE  OutcomeInv'
<1>1. /\ g \notin DOMAIN handlers /\ DOMAIN handlers' = DOMAIN handlers \cup {g}
      /\ handlers'[g].row = 0 /\ handlers'[g].pc = "store" /\ handlers'[g].final = "executed"
      /\ \A f \in DOMAIN handlers : handlers'[f] = handlers[f]
  BY DEF Receive
<1>2. UNCHANGED <<requestEvents, responses, old, effects, crashes>>
  BY DEF Receive, history
<1>3. 0 \notin DOMAIN requestEvents
  BY DEF TypeOK, Known
<1>4. ASSUME NEW f \in DOMAIN handlers' PROVE HandlerTells(f)'
  BY <1>1, <1>2, <1>3 DEF OutcomeInv, HandlerTells, Has
<1>5. ASSUME NEW i \in DOMAIN requestEvents PROVE RowTells(i)'
  <2>1. RowTells(i) /\ i # 0
    BY <1>3 DEF OutcomeInv
  <2> QED
    BY <1>1, <1>2, <2>1 DEF RowTells, Has, Explained, TooOld
<1> QED
  BY <1>2, <1>4, <1>5 DEF OutcomeInv

LEMMA OutcomeOthers ==
    ASSUME TypeOK, OutcomeInv,
           \/ \E a \in AppId, k \in PubKeys, s \in ScopeSets : CreateApp(a, k, s)
           \/ \E a \in AppId, s \in ScopeSets : UpdateApp(a, s)
           \/ \E a \in AppId : DeleteApp(a)
           \/ RemoveExcessEvents
           \/ \E g \in Goroutines, r \in Requests : Receive(g, r)
           \/ \E r \in Requests : Age(r)
           \/ Crash
           \/ UNCHANGED vars
    PROVE  OutcomeInv'
<1>1. CASE (\E a \in AppId : DeleteApp(a)) \/ RemoveExcessEvents
  <2>1. PICK rows : Remove(rows)
    BY <1>1 DEF DeleteApp, RemoveExcessEvents
  <2> QED
    BY <1>1, <2>1, OutcomeRemove DEF DeleteApp, RemoveExcessEvents, history
<1>2. CASE \/ \E a \in AppId, k \in PubKeys, s \in ScopeSets : CreateApp(a, k, s)
           \/ \E a \in AppId, s \in ScopeSets : UpdateApp(a, s)
           \/ \E r \in Requests : Age(r)
           \/ UNCHANGED vars
  BY <1>2, OutcomeStay DEF CreateApp, UpdateApp, Age, vars, history
<1> QED
  BY <1>1, <1>2, OutcomeReceive, OutcomeCrash

-----------------------------------------------------------------------------
(* Steps of a handler.                                                     *)

(* The row is new, so no handler and no response knows it.                 *)
LEMMA OutcomeStore ==
    ASSUME TypeOK, OutcomeInv, OnceInv, NEW g \in Goroutines, StoreRequest(g)
    PROVE  OutcomeInv'
<1>1. /\ g \in DOMAIN handlers /\ handlers[g] \in Handler /\ handlers[g].pc = "store"
      /\ handlers[g].row = 0 /\ handlers[g].final = "executed"
  BY HandlerTyped DEF StoreRequest, At, HandlerOK, OutcomeInv, HandlerTells
<1>2. UNCHANGED <<responses, old, effects, crashes>>
  BY DEF StoreRequest, history
<1>3. 0 \notin DOMAIN requestEvents
  BY DEF TypeOK, Known
<1>4. CASE Return(g) /\ UNCHANGED requestEvents
  <2>1. /\ DOMAIN handlers' = DOMAIN handlers \ {g}
        /\ \A f \in DOMAIN handlers' : handlers'[f] = handlers[f]
    BY <1>4 DEF Return
  <2>2. ASSUME NEW f \in DOMAIN handlers' PROVE HandlerTells(f)'
    BY <1>2, <1>4, <2>1 DEF OutcomeInv, HandlerTells, Has
  <2>3. ASSUME NEW i \in DOMAIN requestEvents PROVE RowTells(i)'
    <3>1. RowTells(i) /\ i # handlers[g].row
      BY <1>1, <1>3 DEF OutcomeInv
    <3> QED
      BY <1>2, <1>4, <2>1, <3>1 DEF RowTells, Has, Explained, TooOld
  <2> QED
    BY <1>4, <2>2, <2>3 DEF OutcomeInv
<1>5. CASE StoreNew(g)
  <2> DEFINE i == Len(stored) + 1
             h == [handlers[g] EXCEPT !.row = i, !.pc = "findApp"]
             e == [req |-> handlers[g].req, app |-> 0, state |-> "executing"]
  <2>1. i \notin Known /\ i # 0 /\ i \in Rows
    BY <1>5 DEF StoreNew, Known, TypeOK
  <2>2. /\ DOMAIN requestEvents' = DOMAIN requestEvents \cup {i}
        /\ requestEvents'[i] = e
        /\ \A j \in DOMAIN requestEvents : requestEvents'[j] = requestEvents[j]
    BY <1>5, <2>1 DEF StoreNew, TypeOK
  <2>3. /\ DOMAIN handlers' = DOMAIN handlers /\ handlers'[g] = h
        /\ \A f \in DOMAIN handlers \ {g} : handlers'[f] = handlers[f]
    BY <1>1, <1>5 DEF StoreNew, TypeOK
  <2>4. h.row = i /\ h.pc = "findApp" /\ h.final = "executed"
    BY <1>1 DEF Handler
  <2>5. e.app = 0 /\ e.state = "executing"
    OBVIOUS
  <2>6. \A f \in DOMAIN handlers : handlers[f].row # i
    <3>1. \A f \in DOMAIN handlers : handlers[f].row = 0 \/ handlers[f].row \in Known
      BY HasRow DEF TypeOK, HandlerOK
    <3> QED
      BY <2>1, <3>1
  <2> HIDE DEF h, e, i
  <2>7. ASSUME NEW f \in DOMAIN handlers' PROVE HandlerTells(f)'
    <3>1. CASE f = g
      BY <1>2, <2>2, <2>3, <2>4, <2>5, <3>1 DEF HandlerTells, Has
    <3>2. CASE f # g
      <4>1. HandlerTells(f) /\ handlers'[f] = handlers[f] /\ handlers[f].row # i
        BY <2>3, <2>6, <3>2 DEF OutcomeInv
      <4> QED
        BY <1>2, <2>2, <4>1 DEF HandlerTells, Has
    <3> QED
      BY <3>1, <3>2
  <2>8. ASSUME NEW j \in DOMAIN requestEvents' PROVE RowTells(j)'
    <3>1. CASE j = i
      BY <1>1, <2>2, <2>3, <2>4, <2>5, <3>1 DEF RowTells, Has
    <3>2. CASE j # i
      <4>1. /\ RowTells(j) /\ requestEvents'[j] = requestEvents[j] /\ j \in DOMAIN requestEvents
            /\ j # handlers[g].row
        BY <1>1, <1>3, <2>2, <3>2 DEF OutcomeInv
      <4>2. (\A f \in DOMAIN handlers' : handlers'[f].row # j)
              => (\A f \in DOMAIN handlers : handlers[f].row # j)
        BY <2>3, <4>1
      <4> QED
        BY <1>2, <2>2, <4>1, <4>2 DEF RowTells, Has, Explained, TooOld
    <3> QED
      BY <3>1, <3>2
  <2> QED
    BY <2>7, <2>8 DEF OutcomeInv
<1> QED
  BY <1>4, <1>5 DEF StoreRequest

(* Once its request is stored, a handler changes nothing but its own row.  *)
OnlyHandler(g) ==
    /\ DOMAIN handlers' \subseteq DOMAIN handlers
    /\ DOMAIN handlers \ {g} \subseteq DOMAIN handlers'
    /\ \A f \in DOMAIN handlers \ {g} : handlers'[f] = handlers[f]

OnlyRow(i) ==
    /\ DOMAIN requestEvents' = DOMAIN requestEvents
    /\ \A j \in DOMAIN requestEvents \ {i} : requestEvents'[j] = requestEvents[j]
    /\ responses \subseteq responses'
    /\ \A j \in Rows \ {i}, k \in Parts : effects'[j][k] = effects[j][k]
    /\ UNCHANGED <<stored, old, crashes>>

LEMMA ReturnOnly == ASSUME NEW g \in DOMAIN handlers, Return(g)
                    PROVE  OnlyHandler(g) /\ g \notin DOMAIN handlers'
BY DEF Return, OnlyHandler

LEMMA BecomesOnly == ASSUME NEW g \in DOMAIN handlers, NEW h, Becomes(g, h)
                     PROVE  OnlyHandler(g) /\ g \in DOMAIN handlers' /\ handlers'[g] = h
BY DEF Becomes, OnlyHandler

LEMMA SetStateOnly ==
    ASSUME TypeOK, NEW i, NEW state, SetState(i, state),
           UNCHANGED <<responses, effects, stored, old, crashes>>
    PROVE  /\ OnlyRow(i)
           /\ i \in DOMAIN requestEvents =>
                /\ requestEvents'[i].state = state
                /\ requestEvents'[i].app = requestEvents[i].app
                /\ requestEvents'[i].req = requestEvents[i].req
<1>1. \A e \in RequestEvent : LET d == [e EXCEPT !.state = state]
                              IN  d.state = state /\ d.app = e.app /\ d.req = e.req
  BY DEF RequestEvent
<1>2. requestEvents \in [DOMAIN requestEvents -> RequestEvent]
  BY DEF TypeOK
<1> QED
  BY <1>1, <1>2 DEF OnlyRow, SetState

LEMMA TableOnly == ASSUME NEW i, UNCHANGED <<requestEvents, responses, effects, stored, old, crashes>>
                   PROVE  OnlyRow(i)
BY DEF OnlyRow

LEMMA OutcomeOwnRow ==
    ASSUME TypeOK, OnceInv, OutcomeInv, NEW g \in DOMAIN handlers, handlers[g].pc # "store",
           NEW i, i = handlers[g].row, OnlyHandler(g), OnlyRow(i),
           g \in DOMAIN handlers' => HandlerTells(g)',
           i \in DOMAIN requestEvents => RowTells(i)'
    PROVE  OutcomeInv'
<1>1. i \in Known /\ i # 0
  BY HasRow DEF Known
<1>2. ASSUME NEW f \in DOMAIN handlers', f # g PROVE HandlerTells(f)'
  <2>1. f \in DOMAIN handlers /\ handlers'[f] = handlers[f] /\ HandlerTells(f)
    BY <1>2 DEF OnlyHandler, OnlyRow, OutcomeInv
  <2>2. handlers[f].row # i
    BY <1>1, <1>2, <2>1 DEF OnceInv, OneHandlerPerRow
  <2>3. CASE handlers[f].row = 0
    <3>1. handlers[f].pc = "store" /\ 0 \notin DOMAIN requestEvents
      <4>1. 0 \notin Known
        BY DEF Known
      <4>2. handlers[f].pc # "store" => handlers[f].row \in Known
        BY <2>1, HasRow
      <4> QED
        BY <2>3, <4>1, <4>2 DEF TypeOK
    <3>2. handlers[f].final = "executed"
      BY <2>1, <3>1 DEF HandlerTells
    <3>3. 0 \notin DOMAIN requestEvents' /\ UNCHANGED crashes
      BY <3>1 DEF OnlyRow
    <3> QED
      BY <2>1, <2>3, <3>1, <3>2, <3>3 DEF HandlerTells, Has
  <2>4. CASE handlers[f].row # 0
    <3>1. handlers[f].row \in Rows
      BY <2>1, <2>4, HasRow DEF TypeOK, HandlerOK
    <3> QED
      BY <2>1, <2>2, <3>1 DEF HandlerTells, OnlyHandler, OnlyRow, Has
  <2> QED
    BY <2>3, <2>4
<1>3. ASSUME NEW j \in DOMAIN requestEvents, j # i PROVE RowTells(j)'
  <2>1. RowTells(j) /\ requestEvents'[j] = requestEvents[j] /\ j \in Rows
    BY <1>3 DEF OutcomeInv, OnlyHandler, OnlyRow, TypeOK
  <2>2. (\A f \in DOMAIN handlers' : handlers'[f].row # j)
          => (\A f \in DOMAIN handlers : handlers[f].row # j)
    BY <1>3 DEF OnlyHandler, OnlyRow
  <2> QED
    BY <1>3, <2>1, <2>2 DEF RowTells, Has, Explained, TooOld, OnlyHandler, OnlyRow
<1>4. \A f \in DOMAIN handlers' : HandlerTells(f)'
  BY <1>2
<1>5. \A j \in DOMAIN requestEvents' : RowTells(j)'
  BY <1>3 DEF OnlyRow
<1> QED
  BY <1>4, <1>5 DEF OutcomeInv

LEMMA RefuseShape ==
    ASSUME TypeOK, NEW g \in DOMAIN handlers, handlers[g].pc # "parts",
           NEW final \in {"executed", "error", "kept"}, Refuse(g, final)
    PROVE  /\ OnlyHandler(g) /\ g \in DOMAIN handlers'
           /\ handlers'[g].pc = "parts" /\ handlers'[g].final = final
           /\ handlers'[g].row = handlers[g].row
           /\ \A k \in Parts : handlers'[g].parts[k] \in {"answer", "done"}
<1> DEFINE h == [handlers[g] EXCEPT !.pc = "parts", !.final = final,
                                    !.parts = [@ EXCEPT ![1] = "answer"]]
<1>0. handlers[g] \in Handler /\ HandlerOK(handlers[g], stored)
  BY HandlerTyped, Zenon
<1>1. handlers[g] \in Handler /\ \A k \in Parts : handlers[g].parts[k] = "done"
  BY <1>0 DEF HandlerOK
<1>2. Becomes(g, h)
  BY RefuseBecomes
<1>3. h.pc = "parts" /\ h.final = final /\ h.row = handlers[g].row
  BY <1>1 DEF Handler
<1>4. \A k \in Parts : h.parts[k] \in {"answer", "done"}
  BY <1>1 DEF Handler
<1> HIDE DEF h
<1> QED
  BY <1>2, <1>3, <1>4, BecomesOnly

LEMMA GotoShape ==
    ASSUME TypeOK, NEW g \in DOMAIN handlers, NEW pc \in HandlerPcs, Goto(g, pc)
    PROVE  /\ OnlyHandler(g) /\ g \in DOMAIN handlers'
           /\ handlers'[g].pc = pc /\ handlers'[g].final = handlers[g].final
           /\ handlers'[g].row = handlers[g].row
<1> DEFINE h == [handlers[g] EXCEPT !.pc = pc]
<1>1. handlers[g] \in Handler
  BY HandlerTyped
<1>2. Becomes(g, h)
  BY GotoBecomes
<1>3. h.pc = pc /\ h.final = handlers[g].final /\ h.row = handlers[g].row
  BY <1>1 DEF Handler
<1> HIDE DEF h
<1> QED
  BY <1>2, <1>3, BecomesOnly

LEMMA SetPartShape ==
    ASSUME TypeOK, NEW g \in DOMAIN handlers, NEW k \in Parts, NEW pc \in PartPcs,
           SetPart(g, k, pc)
    PROVE  /\ OnlyHandler(g) /\ g \in DOMAIN handlers'
           /\ handlers'[g].pc = handlers[g].pc /\ handlers'[g].final = handlers[g].final
           /\ handlers'[g].row = handlers[g].row /\ handlers'[g].parts[k] = pc
           /\ \A j \in Parts \ {k} : handlers'[g].parts[j] = handlers[g].parts[j]
<1> DEFINE h == [handlers[g] EXCEPT !.parts[k] = pc]
<1>1. handlers[g] \in Handler
  BY HandlerTyped
<1>2. Becomes(g, h)
  BY SetPartBecomes
<1>3. /\ h.pc = handlers[g].pc /\ h.final = handlers[g].final /\ h.row = handlers[g].row
      /\ h.parts[k] = pc /\ \A j \in Parts \ {k} : h.parts[j] = handlers[g].parts[j]
  BY <1>1 DEF Handler
<1> HIDE DEF h
<1> QED
  BY <1>2, <1>3, BecomesOnly

(* Nothing was done for a handler that has not started its controller.     *)
LEMMA BeforeParts ==
    ASSUME TypeOK, OnceInv, OutcomeInv, NEW g \in DOMAIN handlers,
           handlers[g].pc \notin {"store", "parts"}
    PROVE  /\ HandlerTells(g) /\ handlers[g].final = "executed" /\ ~Has(handlers[g].row, "error")
           /\ handlers[g].row \in Known /\ handlers[g].row \in Rows /\ handlers[g].row # 0
           /\ \A k \in Parts : effects[handlers[g].row][k] = 0
           /\ handlers[g].row \in DOMAIN requestEvents =>
                /\ RowTells(handlers[g].row)
                /\ requestEvents[handlers[g].row].req = handlers[g].req
<1>1. HandlerTells(g) /\ handlers[g].row \in Known /\ handlers[g].row \in Rows /\ handlers[g].row # 0
  BY HasRow DEF OutcomeInv, Known
<1>2. stored[handlers[g].row].req = handlers[g].req
  BY HandlerTyped DEF HandlerOK
<1> QED
  BY <1>1, <1>2 DEF HandlerTells, OnceInv, PartsToDo, NotCarriedOut, RowsAgree, OutcomeInv

(* Refused before anything was done, with the row in state error.          *)
LEMMA RefusedInError ==
    ASSUME TypeOK, OnceInv, OutcomeInv, NEW g \in DOMAIN handlers,
           handlers[g].pc \notin {"store", "parts"},
           SetState(handlers[g].row, "error"), Refuse(g, "kept") \/ Return(g),
           UNCHANGED <<responses, effects, stored, old, crashes>>
    PROVE  OutcomeInv'
<1> PICK i : i = handlers[g].row
  OBVIOUS
<1>1. \A k \in Parts : effects[i][k] = 0
  BY BeforeParts
<1>2. OnlyRow(i) /\ (i \in DOMAIN requestEvents => requestEvents'[i].state = "error")
  BY SetStateOnly
<1>3. i \in DOMAIN requestEvents => RowTells(i)'
  BY <1>1, <1>2 DEF RowTells, Has
<1>4. OnlyHandler(g) /\ (g \in DOMAIN handlers' => HandlerTells(g)')
  <2>1. CASE Return(g)
    BY <2>1, ReturnOnly
  <2>2. CASE Refuse(g, "kept")
    <3>1. /\ OnlyHandler(g) /\ handlers'[g].pc = "parts" /\ handlers'[g].final = "kept"
          /\ handlers'[g].row = i /\ \A k \in Parts : handlers'[g].parts[k] \in {"answer", "done"}
      BY <2>2, RefuseShape
    <3> QED
      BY <1>1, <1>2, <3>1 DEF HandlerTells, Has, OnlyRow
  <2> QED
    BY <2>1, <2>2
<1> QED
  BY <1>2, <1>3, <1>4, OutcomeOwnRow

(* A handler that gives up because no app has the key leaves a row without *)
(* an app behind; one that goes on has nothing to explain yet.             *)
LEMMA FindAppOutcome ==
    ASSUME TypeOK, OnceInv, OutcomeInv, NEW g \in Goroutines, FindApp(g)
    PROVE  OutcomeInv'
<1> PICK i : i = handlers[g].row
  OBVIOUS
<1>1. /\ g \in DOMAIN handlers /\ handlers[g] \in Handler /\ handlers[g].pc = "findApp"
      /\ UNCHANGED <<responses, effects, stored, old, crashes>>
  BY HandlerTyped DEF FindApp, At, history
<1>2. CASE SetState(i, "error") /\ Refuse(g, "kept")
  BY <1>1, <1>2, RefusedInError
<1>3. CASE Return(g) /\ UNCHANGED requestEvents
  <2>1. OnlyHandler(g) /\ g \notin DOMAIN handlers' /\ OnlyRow(i)
    BY <1>1, <1>3, ReturnOnly, TableOnly
  <2>2. i \in DOMAIN requestEvents => RowTells(i)'
    BY <1>1, <1>3, BeforeParts DEF RowTells, Has, HandlerTells, Explained
  <2> QED
    BY <1>1, <2>1, <2>2, OutcomeOwnRow
<1>4. CASE /\ UNCHANGED requestEvents
           /\ \E a \in DOMAIN apps : handlers' = [handlers EXCEPT ![g].app = a, ![g].pc = "associate"]
  <2>1. PICK a : handlers' = [handlers EXCEPT ![g].app = a, ![g].pc = "associate"]
    BY <1>4
  <2> DEFINE h == [handlers[g] EXCEPT !.app = a, !.pc = "associate"]
  <2>2. h.pc = "associate" /\ h.row = i /\ h.final = handlers[g].final
    BY <1>1 DEF Handler
  <2>3. Becomes(g, h)
    <3>1. handlers' = [handlers EXCEPT ![g] = h] /\ handlers \in [DOMAIN handlers -> Handler]
      BY <2>1 DEF TypeOK
    <3> HIDE DEF h
    <3> QED
      BY <1>1, <3>1 DEF Becomes
  <2> HIDE DEF h
  <2>4. OnlyHandler(g) /\ g \in DOMAIN handlers' /\ handlers'[g] = h /\ OnlyRow(i)
    BY <1>1, <1>4, <2>3, BecomesOnly, TableOnly
  <2>5. HandlerTells(g)'
    BY <1>1, <1>4, <2>2, <2>4, BeforeParts DEF HandlerTells, Has
  <2>6. i \in DOMAIN requestEvents => RowTells(i)'
    BY <1>1, <1>4, <2>2, <2>4, BeforeParts DEF RowTells, Has
  <2> QED
    BY <1>1, <2>4, <2>5, <2>6, OutcomeOwnRow
<1> QED
  BY <1>2, <1>3, <1>4 DEF FindApp

LEMMA AssociateAppOutcome ==
    ASSUME TypeOK, OnceInv, OutcomeInv, NEW g \in Goroutines, AssociateApp(g)
    PROVE  OutcomeInv'
<1> PICK i : i = handlers[g].row
  OBVIOUS
<1>1. /\ g \in DOMAIN handlers /\ handlers[g] \in Handler /\ handlers[g].pc = "associate"
      /\ UNCHANGED <<responses, effects, stored, old, crashes>>
  BY HandlerTyped DEF AssociateApp, At, history
<1>2. OnlyRow(i) /\ (i \in DOMAIN requestEvents => requestEvents'[i].state = requestEvents[i].state)
  <2>1. \A e \in RequestEvent : [e EXCEPT !.app = handlers[g].app].state = e.state
    BY DEF RequestEvent
  <2>2. requestEvents \in [DOMAIN requestEvents -> RequestEvent]
    BY DEF TypeOK
  <2>3. \/ UNCHANGED requestEvents
        \/ requestEvents' = [j \in DOMAIN requestEvents |->
                                IF j = i THEN [requestEvents[j] EXCEPT !.app = handlers[g].app]
                                ELSE requestEvents[j]]
    BY DEF AssociateApp
  <2> QED
    BY <1>1, <2>1, <2>2, <2>3 DEF OnlyRow
<1>3. /\ OnlyHandler(g) /\ g \in DOMAIN handlers' /\ handlers'[g].row = i
      /\ \/ handlers'[g].pc = "decode" /\ handlers'[g].final = "executed"
         \/ /\ handlers'[g].pc = "parts" /\ handlers'[g].final = "error"
            /\ \A k \in Parts : handlers'[g].parts[k] \in {"answer", "done"}
  BY <1>1, GotoShape, RefuseShape, BeforeParts DEF AssociateApp, HandlerPcs
<1>4. HandlerTells(g)'
  BY <1>1, <1>2, <1>3, BeforeParts DEF HandlerTells, Has, OnlyRow
<1>5. i \in DOMAIN requestEvents => RowTells(i)'
  BY <1>1, <1>2, <1>3, BeforeParts DEF RowTells, Has
<1> QED
  BY <1>1, <1>2, <1>3, <1>4, <1>5, OutcomeOwnRow

LEMMA DecodeOutcome ==
    ASSUME TypeOK, OnceInv, OutcomeInv, NEW g \in Goroutines, DecodeRequest(g)
    PROVE  OutcomeInv'
<1> PICK i : i = handlers[g].row
  OBVIOUS
<1>1. /\ g \in DOMAIN handlers /\ handlers[g] \in Handler /\ handlers[g].pc = "decode"
      /\ UNCHANGED <<responses, effects, stored, old, crashes>>
  BY HandlerTyped DEF DecodeRequest, At, history
<1>2. CASE SetState(i, "error") /\ (Refuse(g, "kept") \/ Return(g))
  BY <1>1, <1>2, RefusedInError
<1>3. CASE Goto(g, "authorize") /\ UNCHANGED requestEvents
  <2>1. /\ OnlyHandler(g) /\ g \in DOMAIN handlers' /\ handlers'[g].row = i
        /\ handlers'[g].pc = "authorize" /\ handlers'[g].final = "executed" /\ OnlyRow(i)
    BY <1>1, <1>3, GotoShape, TableOnly, BeforeParts DEF HandlerPcs
  <2>2. HandlerTells(g)'
    BY <1>1, <1>3, <2>1, BeforeParts DEF HandlerTells, Has
  <2>3. i \in DOMAIN requestEvents => RowTells(i)'
    BY <1>1, <1>3, <2>1, BeforeParts DEF RowTells, Has
  <2> QED
    BY <1>1, <2>1, <2>2, <2>3, OutcomeOwnRow
<1> QED
  BY <1>2, <1>3 DEF DecodeRequest

(* The reasons for which a request is dropped without an answer.           *)
LEMMA DroppedUnanswered ==
    ASSUME TypeOK, NEW g \in Goroutines, Authorize(g)
    PROVE  \/ Return(g) /\ (TooOld(handlers[g].req) \/ PartsOf[handlers[g].req] = 0)
           \/ Refuse(g, "executed")
           \/ Becomes(g, Launched(g))
<1>1. g \in DOMAIN handlers /\ handlers[g] \in Handler
  BY HandlerTyped DEF Authorize, At
<1>2. \/ Return(g) /\ TooOld(handlers[g].req)
      \/ Refuse(g, "executed")
      \/ Execute(g)
  BY DEF Authorize
<1> QED
  BY <1>1, <1>2 DEF Execute, Becomes, Started, Launched, TypeOK

LEMMA AuthorizeOutcome ==
    ASSUME TypeOK, OnceInv, OutcomeInv, NEW g \in Goroutines, Authorize(g)
    PROVE  OutcomeInv'
<1> PICK i : i = handlers[g].row
  OBVIOUS
<1>1. /\ g \in DOMAIN handlers /\ handlers[g] \in Handler /\ handlers[g].pc = "authorize"
      /\ UNCHANGED <<requestEvents, responses, effects, stored, old, crashes>>
  BY HandlerTyped DEF Authorize, At, history
<1>2. OnlyRow(i)
  BY <1>1, TableOnly
<1>3. CASE Return(g) /\ (TooOld(handlers[g].req) \/ PartsOf[handlers[g].req] = 0)
  <2>1. OnlyHandler(g) /\ g \notin DOMAIN handlers'
    BY <1>1, <1>3, ReturnOnly
  <2>2. i \in DOMAIN requestEvents =>
          /\ RowTells(i) /\ ~Has(i, "error")
          /\ TooOld(requestEvents[i].req)' \/ PartsOf[requestEvents'[i].req] = 0
    BY <1>1, <1>3, BeforeParts DEF TooOld
  <2>3. i \in DOMAIN requestEvents => RowTells(i)'
    BY <1>1, <2>2 DEF RowTells, Has, Explained
  <2> QED
    BY <1>1, <1>2, <2>1, <2>3, OutcomeOwnRow
<1>4. CASE Refuse(g, "executed") \/ Becomes(g, Launched(g))
  <2>1. /\ OnlyHandler(g) /\ g \in DOMAIN handlers' /\ handlers'[g].row = i
        /\ handlers'[g].pc = "parts" /\ handlers'[g].final = "executed"
        /\ \A k \in Parts : handlers'[g].parts[k] # "finish"
    <3>1. CASE Refuse(g, "executed")
      BY <1>1, <3>1, RefuseShape
    <3>2. CASE Becomes(g, Launched(g))
      <4>1. /\ Launched(g).row = i /\ Launched(g).pc = "parts"
            /\ Launched(g).final = handlers[g].final
            /\ \A k \in Parts : Launched(g).parts[k] # "finish"
        BY <1>1 DEF Launched, Started, Handler
      <4> QED
        BY <1>1, <3>2, <4>1, BecomesOnly, BeforeParts
    <3> QED
      BY <1>4, <3>1, <3>2
  <2>2. HandlerTells(g)'
    BY <1>1, <2>1, BeforeParts DEF HandlerTells, Has
  <2>3. i \in DOMAIN requestEvents => RowTells(i)'
    BY <1>1, <2>1, BeforeParts DEF RowTells, Has
  <2> QED
    BY <1>1, <1>2, <2>1, <2>2, <2>3, OutcomeOwnRow
<1> QED
  BY <1>3, <1>4, DroppedUnanswered

(* The parts of a request.                                                 *)
LEMMA AtWork ==
    ASSUME TypeOK, OutcomeInv, NEW g \in Goroutines, NEW k \in Parts, NEW pc, PartAt(g, k, pc)
    PROVE  /\ g \in DOMAIN handlers /\ handlers[g] \in Handler /\ handlers[g].pc = "parts"
           /\ handlers[g].parts[k] = pc /\ handlers[g].row \in Rows /\ handlers[g].row # 0
           /\ HandlerTells(g)
           /\ handlers[g].row \in DOMAIN requestEvents => RowTells(handlers[g].row)
BY PartTyped DEF OutcomeInv, Known

LEMMA CarryOutOutcome ==
    ASSUME TypeOK, OnceInv, OutcomeInv, NEW g \in Goroutines, NEW k \in Parts,
           CarryOut(g, k) \/ Complete(g, k)
    PROVE  OutcomeInv'
<1> PICK i : i = handlers[g].row
  OBVIOUS
<1> PICK pc \in {"run", "running"} : PartAt(g, k, pc) /\ (pc = "running" => Complete(g, k))
  BY DEF CarryOut, Complete
<1>1. /\ g \in DOMAIN handlers /\ handlers[g].pc = "parts" /\ handlers[g].parts[k] = pc
      /\ i \in Rows /\ HandlerTells(g) /\ (i \in DOMAIN requestEvents => RowTells(i))
  BY AtWork
<1>2. /\ OnlyHandler(g) /\ g \in DOMAIN handlers' /\ handlers'[g].row = i
      /\ handlers'[g].pc = "parts" /\ handlers'[g].final = handlers[g].final
      /\ handlers'[g].parts[k] \in {"running", "answer"}
      /\ \A j \in Parts \ {k} : handlers'[g].parts[j] = handlers[g].parts[j]
  BY <1>1, SetPartShape DEF CarryOut, Complete, PartPcs
<1>3. UNCHANGED <<requestEvents, responses, stored, old, crashes>>
  BY DEF CarryOut, Complete
<1>4. OnlyRow(i) /\ (pc = "running" => UNCHANGED effects)
  <2>1. CASE UNCHANGED effects
    BY <1>3, <2>1, TableOnly
  <2>2. CASE CarryOut(g, k) /\ effects' = [effects EXCEPT ![i][k] = @ + 1]
    BY <1>1, <1>3, <2>2 DEF OnlyRow, TypeOK, CarryOut, PartAt
  <2> QED
    BY <2>1, <2>2 DEF CarryOut, Complete, history
<1>5. handlers[g].final # "executed" => UNCHANGED effects
  BY <1>1, <1>4 DEF HandlerTells
<1>6. HandlerTells(g)'
  BY <1>1, <1>2, <1>3, <1>5 DEF HandlerTells, Has
<1>7. i \in DOMAIN requestEvents => RowTells(i)'
  BY <1>1, <1>2, <1>3, <1>5 DEF RowTells, HandlerTells, Has
<1> QED
  BY <1>1, <1>2, <1>4, <1>6, <1>7, OutcomeOwnRow

LEMMA PublishOutcome ==
    ASSUME TypeOK, OnceInv, OutcomeInv, NEW g \in Goroutines, NEW k \in Parts,
           PublishResponse(g, k)
    PROVE  OutcomeInv'
<1> PICK i : i = handlers[g].row
  OBVIOUS
<1>1. /\ g \in DOMAIN handlers /\ handlers[g].pc = "parts" /\ handlers[g].parts[k] = "answer"
      /\ i \in Rows /\ HandlerTells(g) /\ (i \in DOMAIN requestEvents => RowTells(i))
  BY AtWork DEF PublishResponse
<1>2. /\ OnlyHandler(g) /\ g \in DOMAIN handlers' /\ handlers'[g].row = i
      /\ handlers'[g].pc = "parts" /\ handlers'[g].final = handlers[g].final
      /\ handlers'[g].parts[k] = "finish"
      /\ \A j \in Parts \ {k} : handlers'[g].parts[j] = handlers[g].parts[j]
  BY <1>1, SetPartShape DEF PublishResponse, PartPcs
<1>3. /\ UNCHANGED <<requestEvents, effects, stored, old, crashes>> /\ responses \subseteq responses'
      /\ i \in DOMAIN requestEvents => [row |-> i, part |-> k] \in responses'
  BY DEF PublishResponse
<1>4. OnlyRow(i)
  BY <1>3 DEF OnlyRow
<1>5. HandlerTells(g)'
  BY <1>1, <1>2, <1>3 DEF HandlerTells, Has
<1>6. i \in DOMAIN requestEvents => RowTells(i)'
  BY <1>1, <1>2, <1>3 DEF RowTells, Has
<1> QED
  BY <1>1, <1>2, <1>4, <1>5, <1>6, OutcomeOwnRow

LEMMA FinishOutcome ==
    ASSUME TypeOK, OnceInv, OutcomeInv, NEW g \in Goroutines, NEW k \in Parts, Finish(g, k)
    PROVE  OutcomeInv'
<1> PICK i : i = handlers[g].row
  OBVIOUS
<1> PICK final : final = handlers[g].final
  OBVIOUS
<1>1. /\ g \in DOMAIN handlers /\ handlers[g].pc = "parts" /\ handlers[g].parts[k] = "finish"
      /\ i \in Rows /\ HandlerTells(g) /\ (i \in DOMAIN requestEvents => RowTells(i))
      /\ final \in {"executed", "error", "kept"}
  BY AtWork DEF Finish, Handler
<1>2. UNCHANGED <<responses, effects, stored, old, crashes>>
  BY DEF Finish, history
<1>3. OnlyRow(i) /\ (i \in DOMAIN requestEvents =>
                       /\ final = "executed" => Has(i, "executed")'
                       /\ final # "executed" => Has(i, "error")')
  <2>1. CASE final = "kept" /\ UNCHANGED requestEvents
    BY <1>1, <1>2, <2>1, TableOnly DEF HandlerTells, Has
  <2>2. CASE final # "kept" /\ SetState(i, final)
    BY <1>1, <1>2, <2>2, SetStateOnly DEF Has, OnlyRow
  <2> QED
    BY <2>1, <2>2 DEF Finish
<1>4. i \in DOMAIN requestEvents => RowTells(i)'
  BY <1>1, <1>2, <1>3 DEF RowTells, HandlerTells, Has
<1>5. OnlyHandler(g) /\ (g \in DOMAIN handlers' => HandlerTells(g)')
  <2>1. CASE Return(g)
    BY <1>1, <2>1, ReturnOnly
  <2>2. CASE SetPart(g, k, "done")
    <3>1. /\ OnlyHandler(g) /\ g \in DOMAIN handlers' /\ handlers'[g].row = i
          /\ handlers'[g].pc = "parts" /\ handlers'[g].final = final
          /\ handlers'[g].parts[k] = "done"
          /\ \A j \in Parts \ {k} : handlers'[g].parts[j] = handlers[g].parts[j]
      BY <1>1, <2>2, SetPartShape DEF PartPcs
    <3>2. i \in DOMAIN requestEvents' => i \in DOMAIN requestEvents
      BY <1>3 DEF OnlyRow
    <3> QED
      BY <1>1, <1>2, <1>3, <3>1, <3>2 DEF HandlerTells, Has
  <2> QED
    BY <2>1, <2>2 DEF Finish
<1> QED
  BY <1>1, <1>3, <1>4, <1>5, OutcomeOwnRow

LEMMA OutcomeInit == Init => OutcomeInv
BY DEF Init, OutcomeInv

LEMMA OutcomeStep == TypeOK /\ OnceInv /\ OutcomeInv /\ [Next]_vars => OutcomeInv'
<1> SUFFICES ASSUME TypeOK, OnceInv, OutcomeInv, [Next]_vars PROVE OutcomeInv'
  OBVIOUS
<1>1. CASE \E g \in Goroutines : HandleEvent(g)
  BY <1>1, OutcomeStore, FindAppOutcome, AssociateAppOutcome, DecodeOutcome, AuthorizeOutcome,
     CarryOutOutcome, PublishOutcome, FinishOutcome
  DEF HandleEvent
<1> QED
  BY <1>1, OutcomeOthers DEF Next

LEMMA OutcomeHolds == Spec => []OutcomeInv
<1> QED
  BY OutcomeInit, OutcomeStep, OnceInit, OnceStep, TypeInit, TypeStep, PTL DEF Spec

-----------------------------------------------------------------------------
(* A stored request in state error had no effect, not even in part, and    *)
(* one in state executed has a response (HandleEvent and its callbacks),   *)
(* for any number of parts, deliveries, removals and crashes in between.   *)
THEOREM StateIsTruthful == Spec => []StateTellsOutcome
<1>1. OutcomeInv => StateTellsOutcome
  BY DEF OutcomeInv, RowTells, Has, StateTellsOutcome
<1> QED
  BY <1>1, OutcomeHolds, PTL

(* The early returns of HandleEvent that leave a request in state          *)
(* executing are the four that StuckIsExplained names: no other path       *)
(* through the handler forgets to set the state.                           *)
THEOREM OnlyFourWaysToGetStuck == Spec => []StuckIsExplained
<1>1. OutcomeInv => StuckIsExplained
  BY DEF OutcomeInv, RowTells, Has, Explained, StuckIsExplained
<1> QED
  BY <1>1, OutcomeHolds, PTL
=============================================================================
