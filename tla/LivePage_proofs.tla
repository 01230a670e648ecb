-------------------------- MODULE LivePage_proofs --------------------------
(***************************************************************************)
(* Proofs about LivePage, for every set of requests and changes and every  *)
(* number of writes, visits, losses and broken connections.                *)
(***************************************************************************)
EXTENDS LivePage, SequenceTheorems, TLAPS

(***************************************************************************)
(* Types.                                                                  *)
(***************************************************************************)
Events == [type : EventTypes, table : Tables, version : Nat]

LEMMA ReadsTyped == \A h \in AllHooks : Reads(h) \in Seq(Tables)
<1>1. SUFFICES ASSUME NEW h \in AllHooks PROVE Reads(h) \in Seq(Tables)
  OBVIOUS
<1>2. CASE h \in {"summary", "components", "category"}
  <2>1. Reads(h) = <<"component", "incident">>
    BY <1>2 DEF Reads
  <2>2. "component" \in Tables /\ "incident" \in Tables
    BY DEF Tables
  <2>3. QED
    BY <2>1, <2>2
<1>3. CASE h \in {"incidents", "history", "availability"}
  BY <1>3 DEF Reads, Tables
<1>4. CASE h \in {"settings", "maintenance"}
  BY <1>4 DEF Reads, Tables
<1>5. QED
  BY <1>1, <1>2, <1>3, <1>4 DEF AllHooks

LEMMA SelectedTyped ==
  ASSUME NEW m \in [period : Periods, custom : {"off", "empty", "filled"}], NEW q \in Nat, NEW h
  PROVE  Selected(h, m, q) \in Ranges
BY DEF Selected, ApiParams, Ranges

LEMMA FetchTyped ==
  ASSUME NEW k \in [Hooks -> HookStates], NEW hs, hs \subseteq Hooks,
         NEW m \in [period : Periods, custom : {"off", "empty", "filled"}], NEW q \in Nat
  PROVE  Sending(k, hs) \in [Hooks -> HookStates] /\ Sent(k, hs, m, q) \subseteq CallStates
<1>1. Sending(k, hs) \in [Hooks -> HookStates]
  <2>1. SUFFICES ASSUME NEW h \in Hooks
                 PROVE  [k[h] EXCEPT !.loading = TRUE, !.failed = FALSE, !.sent = @ + 1] \in HookStates
    BY DEF Sending
  <2>2. k[h] \in HookStates
    OBVIOUS
  <2>3. k[h].sent \in Nat /\ k[h].sent + 1 \in Nat
    BY <2>2 DEF HookStates
  <2>4. QED
    BY <2>2, <2>3 DEF HookStates
<1>2. SUFFICES ASSUME NEW h \in hs PROVE CallOf(h, k[h].sent + 1, Selected(h, m, q)) \in CallStates
  BY <1>1 DEF Sent
<1>3. h \in Hooks /\ h \in AllHooks
  BY LivePageAssumption
<1>4. k[h].sent + 1 \in Nat
  BY <1>3 DEF HookStates
<1>5. Reads(h) \in Seq(Tables) /\ Selected(h, m, q) \in Ranges
  BY <1>3, ReadsTyped, SelectedTyped
<1>6. QED
  BY <1>3, <1>4, <1>5 DEF CallOf, CallStates, NoVersion

LEMMA FreshTyped == FreshHook \in HookStates /\ FreshMetrics \in [period : Periods, custom : {"off", "empty", "filled"}]
BY DEF FreshHook, HookStates, NoVersion, FreshMetrics, Periods

\* A function over the chain's places is a chain.
LEMMA ChainOf ==
  ASSUME NEW n \in Nat, NEW f \in [1..n -> ChainStates]
  PROVE  f \in Seq(ChainStates) /\ Len(f) = n
BY SeqDef

LEMMA TypesHold == Init => TypeOK
<1>1. SUFFICES ASSUME Init PROVE TypeOK
  OBVIOUS
<1>2. chain \in Seq(ChainStates)
  BY <1>1 DEF Init
<1>3. QED
  BY <1>1, <1>2, FreshTyped, LivePageAssumption DEF Init, TypeOK, Pages, NothingTold

LEMMA MovesTyped ==
  ASSUME TypeOK, NEW v, NEW from, NEW to \in {"connecting", "open", "closing", "waiting", "closed"},
         Moves(v, from, to)
  PROVE  chain' \in Seq(ChainStates) /\ Len(chain') = Len(chain)
         /\ \A u \in DOMAIN chain : chain'[u].page = chain[u].page
<1>1. v \in 1..Len(chain) /\ chain \in [1..Len(chain) -> ChainStates] /\ Len(chain) \in Nat
  BY DEF TypeOK, Moves
<1>2. <<>> \in Seq(Events)
  OBVIOUS
<1>3. chain' = [chain EXCEPT ![v] = [[chain[v] EXCEPT !.state = to] EXCEPT !.queue = <<>>]]
  BY <1>1 DEF Moves, ChainStates
<1>4. [[chain[v] EXCEPT !.state = to] EXCEPT !.queue = <<>>] \in ChainStates
  BY <1>1, <1>2 DEF ChainStates, Events
<1>5. chain' \in [1..Len(chain) -> ChainStates]
  BY <1>1, <1>3, <1>4
<1>6. \A u \in DOMAIN chain : chain'[u].page = chain[u].page
  BY <1>1, <1>3 DEF ChainStates
<1>7. QED
  BY <1>1, <1>5, <1>6, ChainOf

LEMMA HooksHere == \A p : HooksOf(p) \subseteq Hooks
BY DEF HooksOf

LEMMA TypeStep == TypeOK /\ [Next]_vars => TypeOK'
<1>1. SUFFICES ASSUME TypeOK, [Next]_vars PROVE TypeOK'
  OBVIOUS
<1>2. ASSUME NEW v \in DOMAIN chain
      PROVE  v \in 1..Len(chain) /\ chain[v] \in ChainStates /\ chain[v].queue \in Seq(Events)
  <2>1. v \in 1..Len(chain) /\ chain[v] \in ChainStates
    BY <1>1, <1>2 DEF TypeOK
  <2>2. QED
    BY <2>1 DEF ChainStates, Events
<1>3. Len(chain) \in Nat /\ chain \in [1..Len(chain) -> ChainStates]
  BY <1>1 DEF TypeOK
<1>4. ASSUME NEW c \in Changes, Change(c) PROVE TypeOK'
  <2>1. c[1] \in Tables /\ c[2] \in EventTypes \cup {None}
    BY LivePageAssumption
  <2> c[1] \in Tables /\ db[c[1]] \in Nat /\ db[c[1]] + 1 \in Nat
    BY <1>1, <2>1 DEF TypeOK
  <2>2. db' \in [Tables -> Nat]
    BY <1>1, <1>4 DEF Change, TypeOK
  <2>3. pending' \subseteq Events
    BY <1>1, <1>4, <2>1 DEF Change, TypeOK, Events
  <2>4. left' \in [writes : Nat, budget : Nat]
    <3>1. left.writes > 0 /\ left' = [left EXCEPT !.writes = left.writes - 1]
      BY <1>4 DEF Change
    <3>2. QED
      BY <1>1, <3>1 DEF TypeOK
  <2>5. UNCHANGED <<page, hook, calls, chain, metrics, quarter, settings, cache, told>>
    BY <1>4 DEF Change
  <2>6. QED
    BY <1>1, <2>2, <2>3, <2>4, <2>5 DEF TypeOK, Events
<1>5. ASSUME NEW e \in pending, BroadcastEvent(e) PROVE TypeOK'
  <2>1. e \in Events
    BY <1>1 DEF TypeOK, Events
  <2>2. ASSUME NEW v \in DOMAIN chain
        PROVE  (IF chain[v].state = "open" THEN [chain[v] EXCEPT !.queue = Append(@, e)]
                ELSE chain[v]) \in ChainStates
    <3>1. chain[v] \in ChainStates /\ chain[v].queue \in Seq(Events)
      BY <1>2, <2>2
    <3>2. Append(chain[v].queue, e) \in Seq(Events)
      BY <2>1, <3>1
    <3>3. QED
      BY <3>1, <3>2 DEF ChainStates, Events
  <2>3. chain' \in [1..Len(chain) -> ChainStates]
    BY <1>3, <1>5, <2>2 DEF BroadcastEvent
  <2>4. chain' \in Seq(ChainStates)
    BY <1>3, <2>3, ChainOf
  <2>5. pending' \subseteq pending
        /\ UNCHANGED <<db, page, hook, calls, metrics, quarter, settings, cache, left, told>>
    BY <1>5 DEF BroadcastEvent
  <2>6. QED
    BY <1>1, <2>4, <2>5 DEF TypeOK
<1>6. ASSUME NEW c \in calls, ReadTable(c) PROVE TypeOK'
  <2>1. c \in CallStates /\ c.todo \in Seq(Tables) /\ c.todo # <<>>
    BY <1>1, <1>6 DEF TypeOK, CallStates, ReadTable
  <2>2. Head(c.todo) \in Tables /\ Tail(c.todo) \in Seq(Tables)
    BY <2>1
  <2>3. db[Head(c.todo)] \in Nat
    BY <1>1, <2>2 DEF TypeOK
  <2>4. [c EXCEPT !.data[Head(c.todo)] = db[Head(c.todo)], !.todo = Tail(@)] \in CallStates
    BY <2>1, <2>2, <2>3 DEF CallStates
  <2>5. UNCHANGED <<db, pending, page, hook, chain, metrics, quarter, settings, cache, left, told>>
    BY <1>6 DEF ReadTable
  <2>6. calls' \subseteq CallStates
    BY <1>1, <1>6, <2>4 DEF ReadTable, TypeOK
  <2>7. QED
    BY <1>1, <2>5, <2>6 DEF TypeOK
<1>7. ASSUME NEW c \in calls, Lose(c) PROVE TypeOK'
  <2>1. c \in CallStates /\ [c EXCEPT !.lost = TRUE] \in CallStates
    BY <1>1 DEF TypeOK, CallStates
  <2>2. calls' \subseteq CallStates
    BY <1>1, <1>7, <2>1 DEF Lose, TypeOK
  <2>3. left' \in [writes : Nat, budget : Nat]
    BY <1>1, <1>7 DEF Lose, Spends, TypeOK
  <2>4. UNCHANGED <<db, pending, page, hook, chain, metrics, quarter, settings, cache, told>>
    BY <1>7 DEF Lose
  <2>5. QED
    BY <1>1, <2>2, <2>3, <2>4 DEF TypeOK
<1>8. ASSUME NEW c \in calls, Answered(c) PROVE TypeOK'
  <2>1. c \in CallStates /\ c.hook \in Hooks /\ hook[c.hook] \in HookStates
    BY <1>1 DEF TypeOK, CallStates
  <2>2. Failing(hook[c.hook], c.hook) \in HookStates
    BY <2>1 DEF Failing, HookStates, NoVersion
  <2>3. Holding(hook[c.hook], c) \in HookStates
    BY <2>1 DEF Holding, HookStates, CallStates
  <2>4. hook' \in [Hooks -> HookStates] /\ calls' \subseteq CallStates
    BY <1>1, <1>8, <2>1, <2>2, <2>3 DEF Answered, TypeOK
  <2>5. c.data["settings"] \in Nat
    BY <2>1 DEF CallStates, Tables
  <2>6. settings' \in Nat /\ cache' \in Nat
    BY <1>1, <1>8, <2>5 DEF Answered, TypeOK
  <2>7. UNCHANGED <<db, pending, page, chain, metrics, quarter, left, told>>
    BY <1>8 DEF Answered
  <2>8. QED
    BY <1>1, <2>4, <2>6, <2>7 DEF TypeOK
<1>9. ASSUME NEW v \in DOMAIN chain, Opens(v) \/ OnClose(v) \/ TimerFires(v) PROVE TypeOK'
  <2>1. chain' \in Seq(ChainStates)
    BY <1>1, <1>9, MovesTyped DEF Opens, OnClose, TimerFires
  <2>2. UNCHANGED <<db, pending, page, hook, calls, metrics, quarter, settings, cache, left, told>>
    BY <1>9 DEF Opens, OnClose, TimerFires, Moves
  <2>3. QED
    BY <1>1, <2>1, <2>2 DEF TypeOK
<1>10. ASSUME NEW v \in DOMAIN chain, Breaks(v) PROVE TypeOK'
  <2>1. chain' \in Seq(ChainStates)
    BY <1>1, <1>10, MovesTyped DEF Breaks
  <2>2. UNCHANGED <<db, pending, page, hook, calls, metrics, quarter, settings, cache, told>>
    BY <1>10 DEF Breaks, Moves
  <2>3. left' \in [writes : Nat, budget : Nat]
    BY <1>1, <1>10 DEF Breaks, Spends, TypeOK
  <2>4. QED
    BY <1>1, <2>1, <2>2, <2>3 DEF TypeOK
<1>11. ASSUME NEW v \in DOMAIN chain, OnMessage(v) PROVE TypeOK'
  <2> DEFINE e == Head(chain[v].queue)
             again == IF Shown(v) THEN Refetches(chain[v].page, e.type) ELSE {}
             takes == chain[v].page = "status" /\ e.type = "status_page_settings_updated"
             k == IF takes /\ Shown(v) /\ "settings" \in Hooks
                  THEN [hook EXCEPT !["settings"].sent = @ + 1,
                                    !["settings"].applied = hook["settings"].sent + 1]
                  ELSE hook
  <2>1. chain[v].queue \in Seq(Events) /\ chain[v].queue # <<>>
    BY <1>2, <1>11 DEF OnMessage
  <2>2. e \in Events /\ Tail(chain[v].queue) \in Seq(Events)
    BY <2>1
  <2>3. again \subseteq Hooks
    BY DEF Refetches
  <2>4. k \in [Hooks -> HookStates]
    <3>1. ASSUME "settings" \in Hooks
          PROVE [[hook["settings"] EXCEPT !.sent = @ + 1]
                   EXCEPT !.applied = hook["settings"].sent + 1] \in HookStates
      <4>1. hook["settings"] \in HookStates
        BY <1>1, <3>1 DEF TypeOK
      <4>2. hook["settings"].sent \in Nat /\ hook["settings"].sent + 1 \in Nat
        BY <4>1 DEF HookStates
      <4>3. QED
        BY <4>1, <4>2 DEF HookStates
    <3>2. QED
      BY <1>1, <3>1 DEF TypeOK
  <2>5. hook' = Sending(k, again) /\ calls' = calls \cup Sent(k, again, metrics, quarter)
    BY <1>11 DEF OnMessage
  <2> HIDE DEF again, k
  <2>6. hook' \in [Hooks -> HookStates] /\ calls' \subseteq CallStates
    BY <1>1, <2>3, <2>4, <2>5, FetchTyped DEF TypeOK
  <2>7. [chain[v] EXCEPT !.queue = Tail(@)] \in ChainStates
    BY <1>2, <2>2 DEF ChainStates, Events
  <2>8. chain' \in [1..Len(chain) -> ChainStates]
    BY <1>2, <1>3, <1>11, <2>7 DEF OnMessage
  <2>9. chain' \in Seq(ChainStates)
    BY <1>3, <2>8, ChainOf
  <2>10. e.type \in EventTypes /\ e.version \in Nat /\ told[e.type] \in Nat
    BY <1>1, <2>2 DEF Events, TypeOK
  <2>11. told' \in [EventTypes -> Nat] /\ settings' \in Nat /\ cache' \in Nat
    BY <1>1, <1>11, <2>10 DEF OnMessage, TypeOK, Newer
  <2>12. UNCHANGED <<db, pending, page, metrics, quarter, left>>
    BY <1>11 DEF OnMessage
  <2>13. QED
    BY <1>1, <2>6, <2>9, <2>11, <2>12 DEF TypeOK
<1>12. ASSUME NEW p \in Pages, Visit(p) PROVE TypeOK'
  <2> DEFINE fresh == [h \in Hooks |-> FreshHook]
             old == [v \in DOMAIN chain |-> IF Shown(v) THEN Unmounted(chain[v]) ELSE chain[v]]
             new == IF HasSocket(p) THEN <<Link(p)>> ELSE <<>>
  <2>1. fresh \in [Hooks -> HookStates]
    BY FreshTyped
  <2>2. hook' = Sending(fresh, HooksOf(p)) /\ calls' = Sent(fresh, HooksOf(p), FreshMetrics, 0)
    BY <1>12 DEF Visit
  <2> HIDE DEF fresh
  <2>3. hook' \in [Hooks -> HookStates] /\ calls' \subseteq CallStates
    BY <2>1, <2>2, FetchTyped, FreshTyped, HooksHere
  <2>4. ASSUME NEW v \in DOMAIN chain PROVE Unmounted(chain[v]) \in ChainStates
    <3>1. chain[v] \in ChainStates /\ <<>> \in Seq(Events)
      BY <1>2, <2>4
    <3>2. QED
      BY <3>1 DEF Unmounted, ChainStates, Events
  <2>5. old \in [1..Len(chain) -> ChainStates]
    BY <1>2, <1>3, <2>4
  <2>6. old \in Seq(ChainStates)
    BY <1>3, <2>5, ChainOf
  <2>7. new \in Seq(ChainStates)
    <3>1. <<>> \in Seq(Events) /\ <<>> \in Seq(ChainStates)
      OBVIOUS
    <3>2. HasSocket(p) => Link(p) \in ChainStates
      BY <3>1 DEF HasSocket, Link, ChainStates, Events
    <3>3. QED
      BY <3>1, <3>2
  <2>8. chain' \in Seq(ChainStates)
    <3>1. chain' = old \o new
      BY <1>12 DEF Visit
    <3> HIDE DEF old, new
    <3>2. QED
      BY <2>6, <2>7, <3>1
  <2>9. page' \in Pages /\ metrics' = FreshMetrics /\ quarter' = 0 /\ told' = NothingTold
    BY <1>12 DEF Visit
  <2>10. settings' \in Nat /\ UNCHANGED <<db, pending, cache>>
    BY <1>1, <1>12 DEF Visit, TypeOK
  <2>11. left' \in [writes : Nat, budget : Nat]
    <3>1. Spends
      BY <1>12 DEF Visit
    <3>2. QED
      BY <1>1, <3>1 DEF Spends, TypeOK
  <2>12. told' \in [EventTypes -> Nat]
    BY <2>9 DEF NothingTold
  <2>13. QED
    BY <1>1, <2>3, <2>8, <2>9, <2>10, <2>11, <2>12, FreshTyped DEF TypeOK
<1>13. ASSUME NEW h, NEW m \in [period : Periods, custom : {"off", "empty", "filled"}], NEW q \in Nat,
              Select(h, m, q)
       PROVE  TypeOK'
  <2>1. {h} \subseteq Hooks
    BY <1>13 DEF Select, HooksOf
  <2>2. hook' \in [Hooks -> HookStates] /\ calls' \subseteq CallStates
    <3>1. hook \in [Hooks -> HookStates] /\ calls \subseteq CallStates
      BY <1>1 DEF TypeOK
    <3>2. Sending(hook, {h}) \in [Hooks -> HookStates] /\ Sent(hook, {h}, m, q) \subseteq CallStates
      BY <2>1, <3>1, FetchTyped
    <3>3. \/ hook' = Sending(hook, {h}) /\ calls' = calls \cup Sent(hook, {h}, m, q)
          \/ hook' = hook /\ calls' = calls
      BY <1>13 DEF Select
    <3>4. QED
      BY <3>1, <3>2, <3>3
  <2>3. left' \in [writes : Nat, budget : Nat]
    BY <1>1, <1>13 DEF Select, Spends, TypeOK
  <2>4. metrics' = m /\ quarter' = q
        /\ UNCHANGED <<db, pending, page, chain, settings, cache, told>>
    BY <1>13 DEF Select, Elsewhere
  <2>5. QED
    BY <1>1, <1>13, <2>2, <2>3, <2>4 DEF TypeOK
<1>14. CASE Again
  <2>1. hook' \in [Hooks -> HookStates] /\ calls' \subseteq CallStates
    BY <1>1, <1>14, FetchTyped DEF Again, Fetch, TypeOK, HooksOf
  <2>2. left' \in [writes : Nat, budget : Nat]
    BY <1>1, <1>14 DEF Again, Spends, TypeOK
  <2>3. UNCHANGED <<db, pending, page, chain, metrics, quarter, settings, cache, told>>
    BY <1>14 DEF Again, Elsewhere
  <2>4. QED
    BY <1>1, <2>1, <2>2, <2>3 DEF TypeOK
<1>15. CASE UNCHANGED vars
  BY <1>1, <1>15 DEF vars, TypeOK
<1>16. CASE (\E p \in Presets : ChoosePeriod(p)) \/ (\E dates \in {"empty", "filled"} : ChooseCustom(dates))
  BY <1>1, <1>13, <1>16, LivePageAssumption DEF ChoosePeriod, ChooseCustom, TypeOK
<1>17. CASE PrevQuarter \/ NextQuarter
  <2>1. quarter + 1 \in Nat /\ (quarter > 0 => quarter - 1 \in Nat)
        /\ metrics \in [period : Periods, custom : {"off", "empty", "filled"}]
    BY <1>1 DEF TypeOK
  <2>2. Select("history", metrics, quarter + 1) \/ (quarter > 0 /\ Select("history", metrics, quarter - 1))
    BY <1>17 DEF PrevQuarter, NextQuarter, CanGoNext
  <2>3. QED
    BY <1>13, <2>1, <2>2
<1>18. QED
  BY <1>1, <1>4, <1>5, <1>6, <1>7, <1>8, <1>9, <1>10, <1>11, <1>12, <1>14, <1>15, <1>16, <1>17
     DEF Next, ServerActs, Answering, Linking, Hearing, Faults, VisitorActs

\* The page's state keeps its types (useApi, useWebSocket, the pages).
THEOREM TypeCorrect == Spec => []TypeOK
BY TypesHold, TypeStep, PTL DEF Spec

(***************************************************************************)
(* The connection of the page shown is the newest.                         *)
(***************************************************************************)
Socketed == HasSocket(page) => Len(chain) > 0 /\ chain[Len(chain)].page = page

LEMMA SocketedStep == TypeOK /\ Socketed /\ [Next]_vars => Socketed'
<1>1. SUFFICES ASSUME TypeOK, Socketed, [Next]_vars PROVE Socketed'
  OBVIOUS
<1>2. chain \in [1..Len(chain) -> ChainStates] /\ Len(chain) \in Nat /\ chain \in Seq(ChainStates)
  BY <1>1 DEF TypeOK
<1>3. ASSUME page' = page, Len(chain') = Len(chain),
             \A v \in DOMAIN chain : chain'[v].page = chain[v].page
      PROVE  Socketed'
  BY <1>1, <1>2, <1>3 DEF Socketed, HasSocket
<1>4. CASE UNCHANGED <<page, chain>>
  BY <1>1, <1>4 DEF Socketed, HasSocket
<1>5. ASSUME NEW e \in pending, BroadcastEvent(e) PROVE Socketed'
  <2>1. ASSUME NEW v \in DOMAIN chain
        PROVE  (IF chain[v].state = "open" THEN [chain[v] EXCEPT !.queue = Append(@, e)]
                ELSE chain[v]).page = chain[v].page
    BY <1>2, <2>1 DEF ChainStates
  <2>2. page' = page /\ chain' = [v \in DOMAIN chain |->
           IF chain[v].state = "open" THEN [chain[v] EXCEPT !.queue = Append(@, e)] ELSE chain[v]]
    BY <1>5 DEF BroadcastEvent
  <2>3. DOMAIN chain' = DOMAIN chain /\ \A v \in DOMAIN chain : chain'[v].page = chain[v].page
    BY <2>1, <2>2
  <2>4. Len(chain') = Len(chain)
    <3>1. TypeOK'
      BY <1>1, TypeStep
    <3>2. QED
      BY <1>2, <2>3, <3>1 DEF TypeOK
  <2>5. QED
    BY <1>3, <2>2, <2>3, <2>4
<1>6. ASSUME NEW v \in DOMAIN chain, Opens(v) \/ OnClose(v) \/ TimerFires(v) \/ Breaks(v)
      PROVE  Socketed'
  <2>1. PICK from, to : to \in {"connecting", "open", "closing", "waiting", "closed"} /\ Moves(v, from, to)
    BY <1>6 DEF Opens, OnClose, TimerFires, Breaks
  <2>2. page' = page
    BY <2>1 DEF Moves
  <2>3. QED
    BY <1>1, <1>3, <2>1, <2>2, MovesTyped
<1>7. ASSUME NEW v \in DOMAIN chain, OnMessage(v) PROVE Socketed'
  <2>1. page' = page /\ chain' = [chain EXCEPT ![v].queue = Tail(@)]
    BY <1>7 DEF OnMessage
  <2>2. DOMAIN chain' = DOMAIN chain /\ \A u \in DOMAIN chain : chain'[u].page = chain[u].page
    BY <1>2, <1>7, <2>1 DEF ChainStates
  <2>3. Len(chain') = Len(chain)
    <3>1. TypeOK'
      BY <1>1, TypeStep
    <3>2. QED
      BY <1>2, <2>2, <3>1 DEF TypeOK
  <2>4. QED
    BY <1>3, <2>1, <2>2, <2>3
<1>8. ASSUME NEW p \in Pages, Visit(p) PROVE Socketed'
  <2> DEFINE old == [v \in DOMAIN chain |-> IF Shown(v) THEN Unmounted(chain[v]) ELSE chain[v]]
  <2>1. SUFFICES ASSUME HasSocket(p) PROVE Len(chain') > 0 /\ chain'[Len(chain')].page = p
    BY <1>8 DEF Visit, Socketed, HasSocket
  <2>2. chain' = old \o <<Link(p)>>
    BY <1>8, <2>1 DEF Visit
  <2>3. ASSUME NEW v \in DOMAIN chain
        PROVE  (IF Shown(v) THEN Unmounted(chain[v]) ELSE chain[v]) \in ChainStates
    <3>1. chain[v] \in ChainStates /\ <<>> \in Seq(Events)
      BY <1>2, <2>3
    <3>2. QED
      BY <3>1 DEF Unmounted, ChainStates, Events
  <2>4. old \in Seq(ChainStates)
    BY <1>2, <2>3, ChainOf
  <2>5. <<Link(p)>> \in Seq({Link(p)}) /\ Link(p).page = p
    BY DEF Link
  <2> HIDE DEF old
  <2>6. Len(chain') = Len(old) + 1 /\ chain'[Len(old) + 1] = Link(p) /\ Len(old) \in Nat
    BY <2>2, <2>4
  <2>7. QED
    BY <2>5, <2>6
<1>9. CASE (\E c \in Changes : Change(c)) \/ Answering \/ (\E c \in calls : Lose(c)) \/ UNCHANGED vars
  BY <1>4, <1>9 DEF Change, Answering, ReadTable, Answered, Lose, vars
<1>10. CASE (\E p \in Presets : ChoosePeriod(p)) \/ (\E dates \in {"empty", "filled"} : ChooseCustom(dates))
            \/ PrevQuarter \/ NextQuarter \/ Again
  BY <1>4, <1>10 DEF ChoosePeriod, ChooseCustom, PrevQuarter, NextQuarter, Again, Select, Elsewhere
<1>11. QED
  BY <1>1, <1>5, <1>6, <1>7, <1>8, <1>9, <1>10
     DEF Next, ServerActs, Linking, Hearing, Faults, VisitorActs

(***************************************************************************)
(* Requests and the selection.  Every request of the page shown is numbered*)
(* by its hook; the newest one asks for what is selected, so does the data *)
(* of a hook whose newest request was answered, and a hook that is loading *)
(* has a request under way.                                                *)
(***************************************************************************)
Metrics == [period : Periods, custom : {"off", "empty", "filled"}]

NumberedOf(k) == \A h \in Hooks : k[h].applied <= k[h].sent

HeldOf(H, k, cs, m, q) ==
  \A h \in H : /\ k[h].sent > 0
               /\ h # "settings" /\ k[h].applied = k[h].sent => k[h].range = Selected(h, m, q)
               /\ k[h].loading => \E c \in cs : c.hook = h

UnderwayOf(H, k, cs, m, q) ==
  \A c \in cs : /\ c.hook \in H /\ c.number <= k[c.hook].sent
                /\ c.number = k[c.hook].sent => c.range = Selected(c.hook, m, q)

Requested ==
  /\ NumberedOf(hook)
  /\ HeldOf(HooksOf(page), hook, calls, metrics, quarter)
  /\ UnderwayOf(HooksOf(page), hook, calls, metrics, quarter)

\* Fetching the hooks hs again, when the others hold what m and q select.
LEMMA FetchKeeps ==
  ASSUME NEW k \in [Hooks -> HookStates], NEW cs, cs \subseteq CallStates, NEW H, H \subseteq Hooks,
         NEW hs, hs \subseteq H, NEW m \in Metrics, NEW q \in Nat,
         NumberedOf(k), HeldOf(H \ hs, k, cs, m, q),
         \A c \in cs : /\ c.hook \in H /\ c.number <= k[c.hook].sent
                       /\ c.number = k[c.hook].sent /\ c.hook \notin hs
                            => c.range = Selected(c.hook, m, q)
  PROVE  /\ NumberedOf(Sending(k, hs))
         /\ HeldOf(H, Sending(k, hs), cs \cup Sent(k, hs, m, q), m, q)
         /\ UnderwayOf(H, Sending(k, hs), cs \cup Sent(k, hs, m, q), m, q)
<1> DEFINE K == Sending(k, hs)
           C == cs \cup Sent(k, hs, m, q)
<1>1. ASSUME NEW h \in Hooks, h \notin hs PROVE K[h] = k[h]
  BY <1>1 DEF Sending
<1>2. ASSUME NEW h \in hs
      PROVE  K[h].sent = k[h].sent + 1 /\ K[h].applied = k[h].applied /\ K[h].loading
             /\ k[h].sent \in Nat /\ k[h].applied \in Nat /\ k[h].applied <= k[h].sent
  <2>1. h \in Hooks /\ k[h] \in HookStates
    BY <1>2
  <2>2. K[h] = [k[h] EXCEPT !.loading = TRUE, !.failed = FALSE, !.sent = @ + 1]
    BY <1>2, <2>1 DEF Sending
  <2>3. QED
    BY <2>1, <2>2 DEF HookStates, NumberedOf
<1>3. ASSUME NEW h \in hs
      PROVE  CallOf(h, k[h].sent + 1, Selected(h, m, q)) \in C
  BY <1>3 DEF Sent
<1>4. ASSUME NEW c \in C, c \notin cs
      PROVE  \E h \in hs : c.hook = h /\ c.number = k[h].sent + 1 /\ c.range = Selected(h, m, q)
  BY <1>4 DEF Sent, CallOf
<1> HIDE DEF K, C
<1>5. NumberedOf(K)
  <2>1. ASSUME NEW h \in hs PROVE K[h].applied <= K[h].sent
    BY <1>2, <2>1
  <2>2. ASSUME NEW h \in Hooks, h \notin hs PROVE K[h].applied <= K[h].sent
    BY <1>1, <2>2 DEF NumberedOf
  <2>3. QED
    BY <2>1, <2>2 DEF NumberedOf
<1>6. HeldOf(H, K, C, m, q)
  <2>1. ASSUME NEW h \in H \ hs
        PROVE  /\ K[h].sent > 0
               /\ h # "settings" /\ K[h].applied = K[h].sent => K[h].range = Selected(h, m, q)
               /\ K[h].loading => \E c \in C : c.hook = h
    BY <1>1, <2>1 DEF HeldOf, C
  <2>2. ASSUME NEW h \in hs
        PROVE  K[h].sent > 0 /\ K[h].applied # K[h].sent /\ \E c \in C : c.hook = h
    <3>1. K[h].sent = k[h].sent + 1 /\ K[h].applied = k[h].applied
          /\ k[h].sent \in Nat /\ k[h].applied \in Nat /\ k[h].applied <= k[h].sent
      BY <1>2, <2>2
    <3>2. CallOf(h, k[h].sent + 1, Selected(h, m, q)).hook = h
      BY DEF CallOf
    <3>3. \E c \in C : c.hook = h
      BY <1>3, <2>2, <3>2
    <3>4. QED
      BY <3>1, <3>3
  <2>3. QED
    BY <2>1, <2>2 DEF HeldOf
<1>7. UnderwayOf(H, K, C, m, q)
  <2>1. ASSUME NEW c \in cs
        PROVE  /\ c.hook \in H /\ c.number <= K[c.hook].sent
               /\ c.number = K[c.hook].sent => c.range = Selected(c.hook, m, q)
    <3>1. c.number \in Nat /\ c.hook \in Hooks /\ k[c.hook].sent \in Nat
      BY DEF CallStates, HookStates
    <3>2. CASE c.hook \in hs
      BY <1>2, <3>1, <3>2
    <3>3. CASE c.hook \notin hs
      BY <1>1, <3>1, <3>3
    <3>4. QED
      BY <3>2, <3>3
  <2>2. ASSUME NEW c \in C, c \notin cs
        PROVE  /\ c.hook \in H /\ c.number <= K[c.hook].sent
               /\ c.range = Selected(c.hook, m, q)
    BY <1>2, <1>4, <2>2
  <2>3. QED
    BY <2>1, <2>2 DEF UnderwayOf
<1>8. QED
  BY <1>5, <1>6, <1>7 DEF K, C

\* A request that goes on keeps its hook, its number and its range.
LEMMA GoingOn ==
  ASSUME Requested, NEW c \in calls, NEW d,
         d.hook = c.hook, d.number = c.number, d.range = c.range,
         calls' = (calls \ {c}) \cup {d}, UNCHANGED <<page, hook, metrics, quarter>>
  PROVE  Requested'
<1>1. UnderwayOf(HooksOf(page), hook, calls', metrics, quarter)
  BY DEF Requested, UnderwayOf
<1>2. HeldOf(HooksOf(page), hook, calls', metrics, quarter)
  <2>1. ASSUME NEW h, \E x \in calls : x.hook = h PROVE \E x \in calls' : x.hook = h
    BY <2>1
  <2>2. QED
    BY <2>1 DEF Requested, HeldOf
<1>3. QED
  BY <1>1, <1>2 DEF Requested

LEMMA RequestedAtFirst == Init => Requested
BY DEF Init, Requested, NumberedOf, HeldOf, UnderwayOf, FreshHook, HooksOf

\* What an event makes the page fetch again belongs to it.
LEMMA RefetchesHere == \A p, type : Refetches(p, type) \subseteq HooksOf(p)
BY DEF Refetches, HooksOf

\* Only the hook whose parameters changed is asked for something else.
LEMMA OthersSelected ==
  ASSUME NEW m, NEW q, NEW h, NEW g, g # h,
         (h = "availability" /\ q = quarter) \/ (h = "history" /\ m = metrics)
  PROVE  Selected(g, m, q) = Selected(g, metrics, quarter)
BY DEF Selected

LEMMA RequestedStep == TypeOK /\ Socketed /\ Requested /\ [Next]_vars => Requested'
<1>1. SUFFICES ASSUME TypeOK, Socketed, Requested, [Next]_vars PROVE Requested'
  OBVIOUS
<1> DEFINE H == HooksOf(page)
<1>2. /\ NumberedOf(hook) /\ HeldOf(H, hook, calls, metrics, quarter)
      /\ UnderwayOf(H, hook, calls, metrics, quarter)
      /\ hook \in [Hooks -> HookStates] /\ calls \subseteq CallStates
      /\ metrics \in Metrics /\ quarter \in Nat /\ H \subseteq Hooks
  BY <1>1, HooksHere DEF Requested, TypeOK, Metrics
<1>3. CASE UNCHANGED <<page, hook, calls, metrics, quarter>>
  BY <1>1, <1>3 DEF Requested
<1>4. ASSUME NEW c \in calls, ReadTable(c) PROVE Requested'
  <2> DEFINE d == [c EXCEPT !.data[Head(c.todo)] = db[Head(c.todo)], !.todo = Tail(@)]
  <2>1. c \in CallStates
    BY <1>2
  <2>2. d.hook = c.hook /\ d.number = c.number /\ d.range = c.range
    BY <2>1 DEF CallStates
  <2>3. calls' = (calls \ {c}) \cup {d} /\ UNCHANGED <<page, hook, metrics, quarter>>
    BY <1>4 DEF ReadTable
  <2> HIDE DEF d
  <2>4. QED
    BY <1>1, <2>2, <2>3, GoingOn
<1>5. ASSUME NEW c \in calls, Lose(c) PROVE Requested'
  <2> DEFINE d == [c EXCEPT !.lost = TRUE]
  <2>1. c \in CallStates
    BY <1>2
  <2>2. d.hook = c.hook /\ d.number = c.number /\ d.range = c.range
    BY <2>1 DEF CallStates
  <2>3. calls' = (calls \ {c}) \cup {d} /\ UNCHANGED <<page, hook, metrics, quarter>>
    BY <1>5 DEF Lose
  <2> HIDE DEF d
  <2>4. QED
    BY <1>1, <2>2, <2>3, GoingOn
<1>6. ASSUME NEW c \in calls, Answered(c) PROVE Requested'
  <2> DEFINE k == IF c.lost THEN Failing(hook[c.hook], c.hook) ELSE Holding(hook[c.hook], c)
  <2>1. c \in CallStates /\ c.hook \in H /\ c.hook \in Hooks /\ c.number \in Nat
        /\ hook[c.hook] \in HookStates /\ c.number <= hook[c.hook].sent
        /\ (c.number = hook[c.hook].sent => c.range = Selected(c.hook, metrics, quarter))
    BY <1>2 DEF UnderwayOf, CallStates
  <2>2. /\ calls' = calls \ {c} /\ hook' = [hook EXCEPT ![c.hook] = k]
        /\ UNCHANGED <<page, metrics, quarter>>
    BY <1>6 DEF Answered
  <2>3. /\ k.sent = hook[c.hook].sent /\ ~k.loading
        /\ \/ k.applied = hook[c.hook].applied /\ k.range = hook[c.hook].range
           \/ k.applied = 0
           \/ k.applied = c.number /\ k.range = c.range
    BY <2>1 DEF Failing, Holding, HookStates
  <2> HIDE DEF k
  <2>4. hook'[c.hook] = k /\ \A h \in Hooks : h # c.hook => hook'[h] = hook[h]
    BY <1>2, <2>1, <2>2
  <2>5. hook[c.hook].sent \in Nat /\ hook[c.hook].sent > 0
        /\ hook[c.hook].applied <= hook[c.hook].sent
        /\ (c.hook # "settings" /\ hook[c.hook].applied = hook[c.hook].sent
              => hook[c.hook].range = Selected(c.hook, metrics, quarter))
    BY <1>2, <2>1 DEF HookStates, HeldOf, NumberedOf
  <2>6. k.applied <= k.sent
        /\ (c.hook # "settings" /\ k.applied = k.sent => k.range = Selected(c.hook, metrics, quarter))
    BY <2>1, <2>3, <2>5
  <2>7. NumberedOf(hook')
    BY <1>2, <2>4, <2>6 DEF NumberedOf
  <2>8. HeldOf(H, hook', calls', metrics, quarter)
    <3>1. ASSUME NEW h \in H, h # c.hook
          PROVE  /\ hook'[h].sent > 0
                 /\ h # "settings" /\ hook'[h].applied = hook'[h].sent
                      => hook'[h].range = Selected(h, metrics, quarter)
                 /\ hook'[h].loading => \E x \in calls' : x.hook = h
      BY <1>2, <2>2, <2>4, <3>1 DEF HeldOf
    <3>2. hook'[c.hook].sent > 0 /\ ~hook'[c.hook].loading
          /\ (c.hook # "settings" /\ hook'[c.hook].applied = hook'[c.hook].sent
                => hook'[c.hook].range = Selected(c.hook, metrics, quarter))
      BY <2>3, <2>4, <2>5, <2>6
    <3>3. QED
      BY <3>1, <3>2 DEF HeldOf
  <2>9. UnderwayOf(H, hook', calls', metrics, quarter)
    <3>1. \A h \in Hooks : hook'[h].sent = hook[h].sent
      BY <2>3, <2>4
    <3>2. QED
      BY <1>2, <2>2, <3>1 DEF UnderwayOf
  <2>10. QED
    BY <2>2, <2>7, <2>8, <2>9 DEF Requested
<1>7. ASSUME NEW v \in DOMAIN chain, OnMessage(v) PROVE Requested'
  <2> DEFINE e == Head(chain[v].queue)
             again == IF Shown(v) THEN Refetches(chain[v].page, e.type) ELSE {}
             takes == chain[v].page = "status" /\ e.type = "status_page_settings_updated"
             k == IF takes /\ Shown(v) /\ "settings" \in Hooks
                  THEN [hook EXCEPT !["settings"].sent = @ + 1,
                                    !["settings"].applied = hook["settings"].sent + 1]
                  ELSE hook
  <2>1. hook' = Sending(k, again) /\ calls' = calls \cup Sent(k, again, metrics, quarter)
        /\ UNCHANGED <<page, metrics, quarter>>
    BY <1>7 DEF OnMessage
  <2>2. again \subseteq H
    BY <1>1, <1>7, RefetchesHere DEF Shown, Socketed
  <2>3. k \in [Hooks -> HookStates] /\ NumberedOf(k)
        /\ \A h \in Hooks : /\ h # "settings" => k[h] = hook[h]
                            /\ k[h].loading = hook[h].loading
                            /\ k[h].sent = hook[h].sent \/ k[h].sent = hook[h].sent + 1
    <3>1. CASE k = hook
      BY <1>2, <3>1
    <3>2. CASE "settings" \in Hooks
               /\ k = [hook EXCEPT !["settings"].sent = @ + 1,
                                   !["settings"].applied = hook["settings"].sent + 1]
      <4> DEFINE s == hook["settings"]
                 t == [[s EXCEPT !.sent = @ + 1] EXCEPT !.applied = s.sent + 1]
      <4>1. s \in HookStates /\ s.sent + 1 \in Nat
        BY <1>2, <3>2 DEF HookStates
      <4>2. t \in HookStates /\ t.sent = s.sent + 1 /\ t.applied = s.sent + 1 /\ t.loading = s.loading
        BY <4>1 DEF HookStates
      <4>3. k = [hook EXCEPT !["settings"] = t]
        BY <1>2, <3>2
      <4> HIDE DEF t, k
      <4>4. k["settings"] = t /\ \A h \in Hooks : h # "settings" => k[h] = hook[h]
        BY <1>2, <3>2, <4>3
      <4>5. k \in [Hooks -> HookStates]
        BY <1>2, <4>2, <4>3
      <4>6. NumberedOf(k)
        <5>1. k["settings"].applied <= k["settings"].sent
          BY <4>1, <4>2, <4>4
        <5>2. QED
          BY <1>2, <4>4, <5>1 DEF NumberedOf
      <4>7. QED
        BY <4>2, <4>4, <4>5, <4>6
    <3>3. QED
      BY <3>1, <3>2
  <2> HIDE DEF k, again
  <2>4. HeldOf(H \ again, k, calls, metrics, quarter)
    <3>1. ASSUME NEW h \in H
          PROVE  /\ k[h].sent > 0
                 /\ h # "settings" /\ k[h].applied = k[h].sent
                      => k[h].range = Selected(h, metrics, quarter)
                 /\ k[h].loading => \E x \in calls : x.hook = h
      <4>1. h \in Hooks /\ hook[h].sent \in Nat
        BY <1>2 DEF HookStates
      <4>2. QED
        BY <1>2, <2>3, <4>1 DEF HeldOf
    <3>2. QED
      BY <3>1 DEF HeldOf
  <2>5. \A c \in calls : /\ c.hook \in H /\ c.number <= k[c.hook].sent
                         /\ c.number = k[c.hook].sent /\ c.hook \notin again
                              => c.range = Selected(c.hook, metrics, quarter)
    <3>1. SUFFICES ASSUME NEW c \in calls
                   PROVE  /\ c.hook \in H /\ c.number <= k[c.hook].sent
                          /\ c.number = k[c.hook].sent => c.range = Selected(c.hook, metrics, quarter)
      OBVIOUS
    <3>2. c.hook \in Hooks /\ c.number \in Nat /\ hook[c.hook].sent \in Nat
      BY <1>2 DEF CallStates, HookStates
    <3>3. c.hook \in H /\ c.number <= hook[c.hook].sent
          /\ (c.number = hook[c.hook].sent => c.range = Selected(c.hook, metrics, quarter))
      BY <1>2 DEF UnderwayOf
    <3>4. k[c.hook].sent = hook[c.hook].sent \/ k[c.hook].sent = hook[c.hook].sent + 1
      BY <2>3, <3>2
    <3>5. QED
      BY <3>2, <3>3, <3>4
  <2>6. QED
    <3>1. /\ NumberedOf(Sending(k, again))
          /\ HeldOf(H, Sending(k, again), calls \cup Sent(k, again, metrics, quarter), metrics, quarter)
          /\ UnderwayOf(H, Sending(k, again), calls \cup Sent(k, again, metrics, quarter), metrics, quarter)
      <4> HIDE DEF H
      <4> QED
        BY <1>2, <2>2, <2>3, <2>4, <2>5, FetchKeeps
    <3>2. QED
      BY <2>1, <3>1 DEF Requested
<1>8. ASSUME NEW p \in Pages, Visit(p) PROVE Requested'
  <2> DEFINE fresh == [h \in Hooks |-> FreshHook]
             none == {}
  <2>1. hook' = Sending(fresh, HooksOf(p)) /\ calls' = none \cup Sent(fresh, HooksOf(p), FreshMetrics, 0)
        /\ page' = p /\ metrics' = FreshMetrics /\ quarter' = 0
    BY <1>8 DEF Visit
  <2>2. fresh \in [Hooks -> HookStates] /\ FreshMetrics \in Metrics /\ HooksOf(p) \subseteq Hooks
    BY FreshTyped, HooksHere DEF Metrics
  <2>3. NumberedOf(fresh) /\ HeldOf(HooksOf(p) \ HooksOf(p), fresh, none, FreshMetrics, 0)
    BY DEF NumberedOf, HeldOf, FreshHook
  <2> HIDE DEF fresh
  <2>4. /\ NumberedOf(Sending(fresh, HooksOf(p)))
        /\ HeldOf(HooksOf(p), Sending(fresh, HooksOf(p)),
                  none \cup Sent(fresh, HooksOf(p), FreshMetrics, 0), FreshMetrics, 0)
        /\ UnderwayOf(HooksOf(p), Sending(fresh, HooksOf(p)),
                  none \cup Sent(fresh, HooksOf(p), FreshMetrics, 0), FreshMetrics, 0)
    BY <2>2, <2>3, FetchKeeps
  <2>5. QED
    BY <2>1, <2>4 DEF Requested
<1>9. ASSUME NEW h, NEW m \in Metrics, NEW q \in Nat, Select(h, m, q),
             (h = "availability" /\ q = quarter) \/ (h = "history" /\ m = metrics)
      PROVE  Requested'
  <2>1. /\ h \in H /\ metrics' = m /\ quarter' = q /\ page' = page
        /\ \/ /\ Selected(h, m, q) # Selected(h, metrics, quarter)
              /\ hook' = Sending(hook, {h}) /\ calls' = calls \cup Sent(hook, {h}, m, q)
           \/ /\ Selected(h, m, q) = Selected(h, metrics, quarter)
              /\ hook' = hook /\ calls' = calls
    BY <1>9 DEF Select, ParamsChange, Elsewhere
  <2>2. \A g : g # h => Selected(g, m, q) = Selected(g, metrics, quarter)
    BY <1>9, OthersSelected
  <2>3. CASE hook' = Sending(hook, {h}) /\ calls' = calls \cup Sent(hook, {h}, m, q)
    <3>1. HeldOf(H \ {h}, hook, calls, m, q)
      BY <1>2, <2>2 DEF HeldOf
    <3>2. \A c \in calls : /\ c.hook \in H /\ c.number <= hook[c.hook].sent
                           /\ c.number = hook[c.hook].sent /\ c.hook \notin {h}
                                => c.range = Selected(c.hook, m, q)
      BY <1>2, <2>2 DEF UnderwayOf
    <3>3. {h} \subseteq H
      BY <2>1
    <3>4. /\ NumberedOf(hook') /\ HeldOf(H, hook', calls', m, q) /\ UnderwayOf(H, hook', calls', m, q)
      <4>1. m \in Metrics /\ q \in Nat
        BY <1>9
      <4> HIDE DEF H
      <4>2. /\ NumberedOf(Sending(hook, {h}))
            /\ HeldOf(H, Sending(hook, {h}), calls \cup Sent(hook, {h}, m, q), m, q)
            /\ UnderwayOf(H, Sending(hook, {h}), calls \cup Sent(hook, {h}, m, q), m, q)
        BY <1>2, <3>1, <3>2, <3>3, <4>1, FetchKeeps
      <4>3. QED
        BY <2>3, <4>2
    <3>5. QED
      BY <2>1, <3>4 DEF Requested
  <2>4. CASE Selected(h, m, q) = Selected(h, metrics, quarter) /\ hook' = hook /\ calls' = calls
    <3>1. \A g : Selected(g, m, q) = Selected(g, metrics, quarter)
      BY <2>2, <2>4
    <3>2. HeldOf(H, hook, calls, m, q) /\ UnderwayOf(H, hook, calls, m, q)
      BY <1>2, <3>1 DEF HeldOf, UnderwayOf
    <3>3. QED
      BY <1>2, <2>1, <2>4, <3>2 DEF Requested
  <2>5. QED
    BY <2>1, <2>3, <2>4
<1>10. CASE Again
  <2>1. {"availability"} \subseteq H /\ UNCHANGED <<page, metrics, quarter>>
        /\ hook' = Sending(hook, {"availability"})
        /\ calls' = calls \cup Sent(hook, {"availability"}, metrics, quarter)
    BY <1>10 DEF Again, Fetch, Elsewhere
  <2>2. HeldOf(H \ {"availability"}, hook, calls, metrics, quarter)
    BY <1>2 DEF HeldOf
  <2>3. \A c \in calls : /\ c.hook \in H /\ c.number <= hook[c.hook].sent
                         /\ c.number = hook[c.hook].sent /\ c.hook \notin {"availability"}
                              => c.range = Selected(c.hook, metrics, quarter)
    BY <1>2 DEF UnderwayOf
  <2>4. QED
    <3> DEFINE hs == {"availability"}
    <3>1. /\ NumberedOf(Sending(hook, hs))
          /\ HeldOf(H, Sending(hook, hs), calls \cup Sent(hook, hs, metrics, quarter), metrics, quarter)
          /\ UnderwayOf(H, Sending(hook, hs), calls \cup Sent(hook, hs, metrics, quarter), metrics, quarter)
      <4> HIDE DEF H
      <4> QED
        BY <1>2, <2>1, <2>2, <2>3, FetchKeeps
    <3>2. QED
      BY <2>1, <3>1 DEF Requested
<1>11. CASE UNCHANGED vars
  BY <1>3, <1>11 DEF vars
<1>12. CASE ServerActs \/ Linking \/ (\E v \in DOMAIN chain : Breaks(v))
  BY <1>3, <1>12 DEF ServerActs, Change, BroadcastEvent, Linking, Opens, OnClose, TimerFires,
                     Breaks, Moves
<1>13. CASE (\E p \in Presets : ChoosePeriod(p)) \/ (\E dates \in {"empty", "filled"} : ChooseCustom(dates))
  <2>1. ASSUME NEW p \in Presets
        PROVE  [metrics EXCEPT !.period = p, !.custom = "off"] \in Metrics
    BY <1>2, LivePageAssumption DEF Metrics
  <2>2. ASSUME NEW dates \in {"empty", "filled"}
        PROVE  [metrics EXCEPT !.custom = dates] \in Metrics
    BY <1>2 DEF Metrics
  <2>3. PICK m \in Metrics : Select("availability", m, quarter)
    BY <1>13, <2>1, <2>2 DEF ChoosePeriod, ChooseCustom
  <2>4. QED
    BY <1>2, <1>9, <2>3
<1>14. CASE PrevQuarter \/ NextQuarter
  <2>1. quarter + 1 \in Nat /\ (quarter > 0 => quarter - 1 \in Nat)
    BY <1>2
  <2>2. Select("history", metrics, quarter + 1) \/ (quarter > 0 /\ Select("history", metrics, quarter - 1))
    BY <1>14 DEF PrevQuarter, NextQuarter, CanGoNext
  <2>3. QED
    BY <1>2, <1>9, <2>1, <2>2
<1>15. QED
  BY <1>1, <1>4, <1>5, <1>6, <1>7, <1>8, <1>10, <1>11, <1>12, <1>13, <1>14
     DEF Next, Answering, Hearing, Faults, VisitorActs

LEMMA RequestedHolds == Spec => [](TypeOK /\ Socketed /\ Requested)
<1>1. Init => TypeOK /\ Socketed /\ Requested
  BY TypesHold, RequestedAtFirst DEF Init, Socketed, HasSocket
<1>2. TypeOK /\ Socketed /\ Requested /\ [Next]_vars => (TypeOK /\ Socketed /\ Requested)'
  BY TypeStep, SocketedStep, RequestedStep
<1>3. QED
  BY <1>1, <1>2, PTL DEF Spec

\* However requests, events, failures and visits interleave, a page that says it
\* is loading has a request under way (useApi, useCategorySummary).
THEOREM LoadingAwaited == Spec => []LoadingIsAwaited
<1>1. Requested => LoadingIsAwaited
  BY DEF Requested, HeldOf, LoadingIsAwaited
<1>2. QED
  BY <1>1, RequestedHolds, PTL

\* With nothing under way and unless an older answer came last, what appears is
\* what was selected (AvailabilityMetrics, HistoryPage, StatusCategoryPage).
THEOREM SelectionAppears == Spec => []SelectionShown
<1>1. ASSUME TypeOK, Requested PROVE SelectionShown
  <2>1. ASSUME NEW h \in Hooks, Undisturbed(h), h # "settings"
        PROVE  ~hook[h].loading /\ hook[h].range = Selected(h, metrics, quarter)
               /\ hook[h].range # None
    <3>1. h \in HooksOf(page) /\ hook[h].applied = hook[h].sent /\ \A c \in calls : c.hook # h
      BY <2>1 DEF Undisturbed, Current
    <3>2. hook[h].range = Selected(h, metrics, quarter) /\ (hook[h].loading => \E c \in calls : c.hook = h)
      BY <1>1, <2>1, <3>1 DEF Requested, HeldOf
    <3>3. hook[h].loading \in BOOLEAN
      BY <1>1 DEF TypeOK, HookStates
    <3>4. Selected(h, metrics, quarter) \in Ranges
      BY <1>1, SelectedTyped DEF TypeOK
    <3>5. QED
      BY <3>1, <3>2, <3>3, <3>4, LivePageAssumption DEF Ranges
  <2>2. ASSUME Undisturbed("availability")
        PROVE  AvailabilityShows(hook["availability"]) \in {"error", ApiParams(metrics)}
    <3>1. "availability" \in Hooks
      BY <2>2 DEF Undisturbed
    <3>2. ~hook["availability"].loading /\ hook["availability"].range # None
          /\ hook["availability"].range = Selected("availability", metrics, quarter)
      BY <2>1, <2>2, <3>1
    <3>3. Selected("availability", metrics, quarter).period = ApiParams(metrics)
      BY DEF Selected
    <3>4. QED
      BY <3>2, <3>3 DEF AvailabilityShows
  <2>3. ASSUME Undisturbed("history") PROVE HistoryShows(hook["history"]) \in {"error", "incidents"}
    <3>1. "history" \in Hooks
      BY <2>3 DEF Undisturbed
    <3>2. ~hook["history"].loading /\ hook["history"].range # None
          /\ hook["history"].range = Selected("history", metrics, quarter)
      BY <2>1, <2>3, <3>1
    <3>3. Selected("history", metrics, quarter).quarter = quarter
      BY DEF Selected
    <3>4. QED
      BY <3>2, <3>3 DEF HistoryShows
  <2>4. ASSUME Undisturbed("category"), ~hook["category"].failed
        PROVE  CategoryShows(hook["category"]) = "services"
    <3>1. "category" \in Hooks
      BY <2>4 DEF Undisturbed
    <3>2. ~hook["category"].loading /\ hook["category"].range # None
      BY <2>1, <2>4, <3>1
    <3>3. QED
      BY <2>4, <3>2 DEF CategoryShows
  <2>5. QED
    BY <2>2, <2>3, <2>4 DEF SelectionShown
<1>2. QED
  BY <1>1, RequestedHolds, PTL

(***************************************************************************)
(* Events and what is shown.  An event is never newer than the database,   *)
(* so whatever is read after it was heard is at least as new; and the      *)
(* newest request of a hook has read, or has yet to read, every table an   *)
(* event heard was about.                                                  *)
(***************************************************************************)
SettingsEvent == "status_page_settings_updated"
Concern(p, h) ==
  EventsFor(h) \cup (IF h = "settings" /\ p = "status" THEN {SettingsEvent} ELSE {})

Known(e, d) == e.table = TableOf(e.type) /\ e.version <= d[e.table]
Heard ==
  /\ \A e \in pending : Known(e, db)
  /\ \A v \in DOMAIN chain : \A i \in DOMAIN chain[v].queue : Known(chain[v].queue[i], db)
  /\ \A t \in EventTypes : told[t] <= db[TableOf(t)]

YetToRead(c, t) == \E i \in DOMAIN c.todo : c.todo[i] = t
Covers(p, c, s) == \A e \in Concern(p, c.hook) : YetToRead(c, TableOf(e)) \/ c.data[TableOf(e)] >= s[e]
ReadingOf(p, k, cs, s) == \A c \in cs : c.number = k[c.hook].sent => Covers(p, c, s)
HoldingOf(H, k, s) ==
  \A h \in H : k[h].applied = k[h].sent => \A e \in EventsFor(h) : k[h].data[TableOf(e)] >= s[e]

LEMMA EventTables ==
  /\ \A t \in EventTypes : TableOf(t) \in Tables
  /\ \A h : EventsFor(h) \subseteq EventTypes
  /\ \A p, h : Concern(p, h) \subseteq EventTypes
BY DEF EventTypes, TableOf, Tables, EventsFor, Concern, ComponentEvents, IncidentEvents, SettingsEvent

\* A new request reads every table its events are about.
LEMMA ReadsItsConcern ==
  ASSUME NEW h \in AllHooks, NEW p, NEW e \in Concern(p, h), NEW n, NEW r
  PROVE  YetToRead(CallOf(h, n, r), TableOf(e))
<1>1. CallOf(h, n, r).todo = Reads(h)
  BY DEF CallOf
<1>2. CASE h \in {"summary", "components", "category"}
  <2>1. Reads(h) = <<"component", "incident">>
    BY <1>2 DEF Reads
  <2>2. TableOf(e) = "component" \/ TableOf(e) = "incident"
    BY <1>2 DEF Concern, EventsFor, TableOf, ComponentEvents, IncidentEvents
  <2>3. 1 \in DOMAIN Reads(h) /\ 2 \in DOMAIN Reads(h)
        /\ Reads(h)[1] = "component" /\ Reads(h)[2] = "incident"
    BY <2>1
  <2>4. QED
    BY <1>1, <2>2, <2>3 DEF YetToRead
<1>3. CASE h = "incidents"
  <2>1. Reads(h) = <<"incident">>
    BY <1>3 DEF Reads
  <2>2. TableOf(e) = "incident"
    BY <1>3 DEF Concern, EventsFor, TableOf, ComponentEvents, IncidentEvents
  <2>3. 1 \in DOMAIN Reads(h) /\ Reads(h)[1] = "incident"
    BY <2>1
  <2>4. QED
    BY <1>1, <2>2, <2>3 DEF YetToRead
<1>4. CASE h = "settings"
  <2>1. Reads(h) = <<"settings">>
    BY <1>4 DEF Reads
  <2>2. TableOf(e) = "settings"
    BY <1>4 DEF Concern, EventsFor, TableOf, ComponentEvents, SettingsEvent
  <2>3. 1 \in DOMAIN Reads(h) /\ Reads(h)[1] = "settings"
    BY <2>1
  <2>4. QED
    BY <1>1, <2>2, <2>3 DEF YetToRead
<1>5. CASE h \in {"history", "availability", "maintenance"}
  BY <1>5 DEF Concern, EventsFor
<1>6. QED
  BY <1>2, <1>3, <1>4, <1>5 DEF AllHooks

\* Fetching the hooks hs again, when the others hold and read what s tells of.
LEMMA FetchHears ==
  ASSUME NEW k \in [Hooks -> HookStates], NEW cs, cs \subseteq CallStates, NEW p,
         NEW hs, hs \subseteq HooksOf(p), NEW m, NEW q, NEW s,
         NumberedOf(k), \A c \in cs : c.number <= k[c.hook].sent,
         \A c \in cs : c.number = k[c.hook].sent /\ c.hook \notin hs => Covers(p, c, s),
         HoldingOf(HooksOf(p) \ hs, k, s)
  PROVE  /\ ReadingOf(p, Sending(k, hs), cs \cup Sent(k, hs, m, q), s)
         /\ HoldingOf(HooksOf(p), Sending(k, hs), s)
<1> DEFINE K == Sending(k, hs)
           C == cs \cup Sent(k, hs, m, q)
<1>1. hs \subseteq Hooks
  BY HooksHere
<1>2. ASSUME NEW h \in Hooks, h \notin hs PROVE K[h] = k[h]
  BY <1>2 DEF Sending
<1>3. ASSUME NEW h \in hs
      PROVE  K[h].sent = k[h].sent + 1 /\ K[h].applied = k[h].applied
             /\ k[h].sent \in Nat /\ k[h].applied \in Nat /\ k[h].applied <= k[h].sent
  <2>1. h \in Hooks /\ k[h] \in HookStates
    BY <1>1, <1>3
  <2>2. K[h] = [k[h] EXCEPT !.loading = TRUE, !.failed = FALSE, !.sent = @ + 1]
    BY <1>3, <2>1 DEF Sending
  <2>3. QED
    BY <2>1, <2>2 DEF HookStates, NumberedOf
<1>4. ASSUME NEW c \in C, c \notin cs PROVE \E h \in hs : \E n, r : c = CallOf(h, n, r)
  BY <1>4 DEF Sent
<1> HIDE DEF K, C
<1>5. ASSUME NEW c \in cs, c.number = K[c.hook].sent PROVE Covers(p, c, s)
  <2>1. c.hook \in Hooks /\ c.number \in Nat /\ c.number <= k[c.hook].sent
    BY DEF CallStates
  <2>2. c.hook \notin hs
    BY <1>3, <1>5, <2>1
  <2>3. QED
    BY <1>2, <1>5, <2>1, <2>2
<1>6. ASSUME NEW c \in C, c \notin cs PROVE Covers(p, c, s)
  <2>1. PICK h \in hs : \E n, r : c = CallOf(h, n, r)
    BY <1>4, <1>6
  <2>2. h \in AllHooks /\ c.hook = h
    BY <1>1, <2>1, LivePageAssumption DEF CallOf
  <2>3. QED
    BY <2>1, <2>2, ReadsItsConcern DEF Covers
<1>7. ReadingOf(p, K, C, s)
  BY <1>5, <1>6 DEF ReadingOf
<1>8. HoldingOf(HooksOf(p), K, s)
  <2>1. ASSUME NEW h \in HooksOf(p), h \in hs PROVE K[h].applied # K[h].sent
    BY <1>3, <2>1
  <2>2. ASSUME NEW h \in HooksOf(p), h \notin hs PROVE K[h] = k[h]
    BY <1>2, <2>2, HooksHere
  <2>3. QED
    BY <2>1, <2>2 DEF HoldingOf
<1>9. QED
  BY <1>7, <1>8 DEF K, C

LEMMA HeardStep == TypeOK /\ Heard /\ [Next]_vars => Heard'
<1>1. SUFFICES ASSUME TypeOK, Heard, [Next]_vars PROVE Heard'
  OBVIOUS
<1>2. /\ chain \in [1..Len(chain) -> ChainStates] /\ Len(chain) \in Nat
      /\ pending \subseteq Events /\ db \in [Tables -> Nat]
  BY <1>1 DEF TypeOK, Events
<1>3. ASSUME NEW v \in DOMAIN chain
      PROVE  chain[v].queue \in Seq(Events) /\ \A i \in DOMAIN chain[v].queue : chain[v].queue[i] \in Events
  <2>1. v \in 1..Len(chain) /\ chain[v] \in ChainStates
    BY <1>2, <1>3
  <2>2. chain[v].queue \in Seq(Events)
    BY <2>1 DEF ChainStates, Events
  <2>3. QED
    BY <2>2
<1>4. CASE UNCHANGED <<db, pending, chain, told>>
  BY <1>1, <1>4 DEF Heard, Known
<1>5. ASSUME NEW c \in Changes, Change(c) PROVE Heard'
  <2>1. c[1] \in Tables /\ c[2] \in EventTypes \cup {None} /\ (c[2] # None => c[1] = TableOf(c[2]))
    BY LivePageAssumption
  <2>2. db[c[1]] \in Nat /\ db' = [db EXCEPT ![c[1]] = db[c[1]] + 1]
    BY <1>2, <1>5, <2>1 DEF Change
  <2>3. \A t \in Tables : db[t] \in Nat /\ db'[t] \in Nat /\ db[t] <= db'[t]
    BY <1>2, <2>1, <2>2
  <2>4. ASSUME NEW e \in Events, Known(e, db) PROVE Known(e, db')
    BY <2>3, <2>4 DEF Known, Events
  <2>5. \A e \in pending' : Known(e, db')
    <3> DEFINE new == [type |-> c[2], table |-> c[1], version |-> db[c[1]] + 1]
    <3>1. pending' = pending \/ (c[2] # None /\ pending' = pending \cup {new})
      BY <1>5 DEF Change
    <3>2. c[2] # None => Known(new, db')
      BY <1>2, <2>1, <2>2 DEF Known
    <3> HIDE DEF new
    <3>3. \A e \in pending : Known(e, db')
      BY <1>1, <1>2, <2>4 DEF Heard
    <3>4. QED
      BY <3>1, <3>2, <3>3
  <2>6. chain' = chain /\ told' = told
    BY <1>5 DEF Change
  <2>7. \A v \in DOMAIN chain : \A i \in DOMAIN chain[v].queue : Known(chain[v].queue[i], db')
    BY <1>1, <1>3, <2>4, <2>6 DEF Heard
  <2>8. \A t \in EventTypes : told[t] <= db'[TableOf(t)]
    <3>1. ASSUME NEW t \in EventTypes PROVE told[t] <= db'[TableOf(t)]
      <4>1. TableOf(t) \in Tables /\ told[t] \in Nat /\ told[t] <= db[TableOf(t)]
        BY <1>1, <3>1, EventTables DEF Heard, TypeOK
      <4>2. db'[TableOf(t)] \in Nat
        BY <1>2, <2>1, <2>2, <4>1
      <4>3. QED
        BY <2>3, <4>1, <4>2
    <3>2. QED
      BY <3>1
  <2>9. QED
    BY <2>5, <2>6, <2>7, <2>8 DEF Heard
<1>6. ASSUME NEW e \in pending, BroadcastEvent(e) PROVE Heard'
  <2>1. UNCHANGED <<db, told>> /\ pending' \subseteq pending /\ Known(e, db)
        /\ chain' = [v \in DOMAIN chain |->
             IF chain[v].state = "open" THEN [chain[v] EXCEPT !.queue = Append(@, e)] ELSE chain[v]]
    BY <1>1, <1>6 DEF BroadcastEvent, Heard
  <2>2. ASSUME NEW v \in DOMAIN chain, NEW i \in DOMAIN chain'[v].queue
        PROVE  Known(chain'[v].queue[i], db)
    <3>1. chain[v].queue \in Seq(Events) /\ chain[v] \in ChainStates
      BY <1>2, <1>3
    <3>2. chain'[v].queue = chain[v].queue \/ chain'[v].queue = Append(chain[v].queue, e)
      BY <2>1, <3>1 DEF ChainStates
    <3>3. \A j \in DOMAIN chain[v].queue : Known(chain[v].queue[j], db)
      BY <1>1 DEF Heard
    <3>4. e \in Events
      BY <1>2
    <3>5. CASE chain'[v].queue = Append(chain[v].queue, e)
      <4>1. i \in 1..(Len(chain[v].queue) + 1) /\ Len(chain[v].queue) \in Nat
        BY <2>2, <3>1, <3>4, <3>5
      <4>2. CASE i = Len(chain[v].queue) + 1
        BY <2>1, <3>1, <3>4, <3>5, <4>2
      <4>3. CASE i \in 1..Len(chain[v].queue)
        BY <3>1, <3>3, <3>4, <3>5, <4>3
      <4>4. QED
        BY <4>1, <4>2, <4>3
    <3>6. QED
      BY <2>2, <3>2, <3>3, <3>5
  <2>3. DOMAIN chain' = DOMAIN chain
    BY <2>1
  <2>4. QED
    BY <1>1, <2>1, <2>2, <2>3 DEF Heard
<1>7. ASSUME NEW v \in DOMAIN chain, Opens(v) \/ OnClose(v) \/ TimerFires(v) \/ Breaks(v) PROVE Heard'
  <2>1. PICK from, to : Moves(v, from, to)
    BY <1>7 DEF Opens, OnClose, TimerFires, Breaks
  <2>2. UNCHANGED <<db, pending, told>> /\ chain' = [chain EXCEPT ![v].state = to, ![v].queue = <<>>]
    BY <2>1 DEF Moves
  <2>3. ASSUME NEW u \in DOMAIN chain
        PROVE  chain'[u].queue = <<>> \/ chain'[u].queue = chain[u].queue
    BY <1>2, <1>7, <2>2 DEF ChainStates
  <2>4. DOMAIN chain' = DOMAIN chain
    BY <2>2
  <2>5. QED
    BY <1>1, <2>2, <2>3, <2>4 DEF Heard, Known
<1>8. ASSUME NEW v \in DOMAIN chain, OnMessage(v) PROVE Heard'
  <2> DEFINE e == Head(chain[v].queue)
  <2>1. UNCHANGED <<db, pending>> /\ chain' = [chain EXCEPT ![v].queue = Tail(@)]
        /\ chain[v].queue # <<>>
    BY <1>8 DEF OnMessage
  <2>2. told' = told \/ told' = [told EXCEPT ![e.type] = e.version]
        \/ told' = [told EXCEPT ![e.type] = Newer(@, e.version)]
    BY <1>8 DEF OnMessage
  <2>3. chain[v].queue \in Seq(Events)
    BY <1>3
  <2>4. e \in Events /\ Known(e, db) /\ 1 \in DOMAIN chain[v].queue
    <3>1. 1 \in DOMAIN chain[v].queue /\ e = chain[v].queue[1]
      BY <2>1, <2>3
    <3>2. QED
      BY <1>1, <1>3, <3>1 DEF Heard
  <2>5. \A t \in EventTypes : told'[t] <= db[TableOf(t)]
    <3>1. e.type \in EventTypes /\ e.version \in Nat /\ e.version <= db[TableOf(e.type)]
      BY <2>4 DEF Events, Known
    <3>2. told \in [EventTypes -> Nat] /\ \A t \in EventTypes : told[t] <= db[TableOf(t)]
      BY <1>1 DEF TypeOK, Heard
    <3> HIDE DEF e
    <3>3. QED
      BY <2>2, <3>1, <3>2 DEF Newer
  <2>6. ASSUME NEW u \in DOMAIN chain, NEW i \in DOMAIN chain'[u].queue
        PROVE  Known(chain'[u].queue[i], db)
    <3>1. CASE u # v
      <4>1. chain'[u] = chain[u]
        BY <2>1, <3>1
      <4>2. QED
        BY <1>1, <2>6, <4>1 DEF Heard
    <3>2. CASE u = v
      <4>1. chain'[v].queue = Tail(chain[v].queue)
        BY <1>2, <2>1 DEF ChainStates
      <4>2. i + 1 \in DOMAIN chain[v].queue /\ Tail(chain[v].queue)[i] = chain[v].queue[i + 1]
        <5>1. /\ Tail(chain[v].queue) \in Seq(Events)
              /\ Len(Tail(chain[v].queue)) = Len(chain[v].queue) - 1
              /\ \A j \in 1..Len(Tail(chain[v].queue)) :
                   Tail(chain[v].queue)[j] = chain[v].queue[j + 1]
          BY <2>1, <2>3, HeadTailProperties
        <5>2. i \in 1..Len(Tail(chain[v].queue)) /\ Len(chain[v].queue) \in Nat
          BY <2>3, <2>6, <3>2, <4>1, <5>1
        <5>3. QED
          BY <2>3, <5>1, <5>2
      <4>3. QED
        BY <1>1, <3>2, <4>1, <4>2 DEF Heard
    <3>3. QED
      BY <3>1, <3>2
  <2>7. DOMAIN chain' = DOMAIN chain
    BY <2>1
  <2>8. QED
    BY <1>1, <2>1, <2>5, <2>6, <2>7 DEF Heard
<1>9. ASSUME NEW p \in Pages, Visit(p) PROVE Heard'
  <2> DEFINE old == [v \in DOMAIN chain |-> IF Shown(v) THEN Unmounted(chain[v]) ELSE chain[v]]
             new == IF HasSocket(p) THEN <<Link(p)>> ELSE <<>>
  <2>1. UNCHANGED <<db, pending>> /\ told' = NothingTold /\ chain' = old \o new
    BY <1>9 DEF Visit
  <2>2. ASSUME NEW v \in DOMAIN chain
        PROVE  old[v] \in ChainStates /\ (old[v].queue = <<>> \/ old[v].queue = chain[v].queue)
    <3>1. chain[v] \in ChainStates /\ <<>> \in Seq(Events)
      BY <1>2, <2>2
    <3>2. QED
      BY <3>1 DEF Unmounted, ChainStates, Events
  <2>3. old \in Seq(ChainStates) /\ Len(old) = Len(chain) /\ DOMAIN old = DOMAIN chain
    BY <1>2, <2>2, ChainOf
  <2>4. Link(p).queue = <<>> /\ new \in Seq({Link(p)})
        /\ \A i \in DOMAIN new : new[i] = Link(p)
    <3>1. Link(p).queue = <<>>
      BY DEF Link
    <3>2. /\ <<Link(p)>> \in Seq({Link(p)}) /\ DOMAIN <<Link(p)>> = {1} /\ <<Link(p)>>[1] = Link(p)
          /\ <<>> \in Seq({Link(p)}) /\ DOMAIN <<>> = {}
      OBVIOUS
    <3>3. QED
      BY <3>1, <3>2
  <2> HIDE DEF old, new
  <2>5. ASSUME NEW v \in DOMAIN chain'
        PROVE  chain'[v].queue = <<>> \/ (v \in DOMAIN chain /\ chain'[v].queue = chain[v].queue)
    <3>1. v \in 1..(Len(old) + Len(new)) /\ Len(old) \in Nat /\ Len(new) \in Nat
      BY <2>1, <2>3, <2>4, <2>5
    <3>2. CASE v <= Len(old)
      <4>1. v \in DOMAIN chain /\ chain'[v] = old[v]
        BY <2>1, <2>3, <2>4, <3>1, <3>2
      <4>2. QED
        BY <2>2, <4>1
    <3>3. CASE v > Len(old)
      <4>1. v - Len(old) \in DOMAIN new /\ chain'[v] = new[v - Len(old)]
        BY <2>1, <2>3, <2>4, <3>1, <3>3
      <4>2. QED
        BY <2>4, <4>1
    <3>4. QED
      BY <3>1, <3>2, <3>3
  <2>6. \A t \in EventTypes : NothingTold[t] <= db[TableOf(t)]
    <3>1. ASSUME NEW t \in EventTypes PROVE NothingTold[t] = 0 /\ db[TableOf(t)] \in Nat
      BY <1>2, <3>1, EventTables DEF NothingTold
    <3>2. QED
      BY <3>1
  <2>7. QED
    BY <1>1, <2>1, <2>5, <2>6 DEF Heard
<1>10. CASE Answering \/ (\E c \in calls : Lose(c)) \/ UNCHANGED vars
  BY <1>4, <1>10 DEF Answering, ReadTable, Answered, Lose, vars
<1>11. CASE (\E p \in Presets : ChoosePeriod(p)) \/ (\E dates \in {"empty", "filled"} : ChooseCustom(dates))
            \/ PrevQuarter \/ NextQuarter \/ Again
  BY <1>4, <1>11 DEF ChoosePeriod, ChooseCustom, PrevQuarter, NextQuarter, Again, Select, Elsewhere
<1>12. QED
  BY <1>1, <1>5, <1>6, <1>7, <1>8, <1>9, <1>10, <1>11
     DEF Next, ServerActs, Linking, Hearing, Faults, VisitorActs

(***************************************************************************)
(* What was heard of is shown.                                             *)
(***************************************************************************)
Shows ==
  /\ ReadingOf(page, hook, calls, told)
  /\ HoldingOf(HooksOf(page), hook, told)
  /\ page = "status" /\ "settings" \in Hooks /\ hook["settings"].applied = hook["settings"].sent
       => settings >= told[SettingsEvent]

LEMMA ShowsAtFirst == Init => Shows
BY DEF Init, Shows, ReadingOf, HoldingOf, HooksOf

LEMMA ShowsStep ==
  TypeOK /\ Socketed /\ Requested /\ Heard /\ Shows /\ [Next]_vars => Shows'
<1>1. SUFFICES ASSUME TypeOK, Socketed, Requested, Heard, Shows, [Next]_vars PROVE Shows'
  OBVIOUS
<1> DEFINE H == HooksOf(page)
<1>2. /\ ReadingOf(page, hook, calls, told) /\ HoldingOf(H, hook, told)
      /\ NumberedOf(hook) /\ H \subseteq Hooks
      /\ hook \in [Hooks -> HookStates] /\ calls \subseteq CallStates /\ told \in [EventTypes -> Nat]
      /\ \A c \in calls : c.hook \in H /\ c.hook \in Hooks /\ c.number <= hook[c.hook].sent
  BY <1>1, HooksHere DEF Requested, UnderwayOf, TypeOK, Shows
<1>3. CASE UNCHANGED <<page, hook, calls, settings, told>>
  BY <1>1, <1>3 DEF Shows
<1>4. ASSUME NEW c \in calls, ReadTable(c) PROVE Shows'
  <2> DEFINE d == [c EXCEPT !.data[Head(c.todo)] = db[Head(c.todo)], !.todo = Tail(@)]
  <2>1. c \in CallStates /\ c.todo \in Seq(Tables) /\ c.todo # <<>> /\ c.data \in [Tables -> Nat]
    BY <1>2, <1>4 DEF CallStates, ReadTable
  <2>2. d.hook = c.hook /\ d.number = c.number /\ d.todo = Tail(c.todo)
        /\ d.data = [c.data EXCEPT ![Head(c.todo)] = db[Head(c.todo)]]
    BY <2>1 DEF CallStates
  <2>3. calls' = (calls \ {c}) \cup {d} /\ UNCHANGED <<page, hook, settings, told>>
    BY <1>4 DEF ReadTable
  <2> HIDE DEF d
  <2>4. ASSUME Covers(page, c, told) PROVE Covers(page, d, told)
    <3>1. SUFFICES ASSUME NEW e \in Concern(page, c.hook)
                   PROVE  YetToRead(d, TableOf(e)) \/ d.data[TableOf(e)] >= told[e]
      BY <2>2 DEF Covers
    <3>2. e \in EventTypes /\ TableOf(e) \in Tables /\ told[e] \in Nat
      BY <1>2, EventTables
    <3>3. CASE TableOf(e) = Head(c.todo)
      BY <1>1, <2>1, <2>2, <3>2, <3>3 DEF Heard
    <3>4. CASE TableOf(e) # Head(c.todo) /\ YetToRead(c, TableOf(e))
      <4>1. PICK i \in DOMAIN c.todo : c.todo[i] = TableOf(e)
        BY <3>4 DEF YetToRead
      <4>2. i \in 1..Len(c.todo) /\ i # 1 /\ Len(c.todo) \in Nat
        BY <2>1, <3>4, <4>1
      <4>3. /\ Len(Tail(c.todo)) = Len(c.todo) - 1 /\ Tail(c.todo) \in Seq(Tables)
            /\ \A j \in 1..Len(Tail(c.todo)) : Tail(c.todo)[j] = c.todo[j + 1]
        BY <2>1, HeadTailProperties
      <4>4. i - 1 \in DOMAIN Tail(c.todo) /\ Tail(c.todo)[i - 1] = c.todo[i]
        BY <4>2, <4>3
      <4>5. QED
        BY <2>2, <4>1, <4>4 DEF YetToRead
    <3>5. CASE TableOf(e) # Head(c.todo) /\ c.data[TableOf(e)] >= told[e]
      BY <2>1, <2>2, <3>2, <3>5
    <3>6. QED
      BY <2>4, <3>3, <3>4, <3>5 DEF Covers
  <2>5. ReadingOf(page, hook, calls', told)
    BY <1>2, <2>2, <2>3, <2>4 DEF ReadingOf
  <2>6. QED
    BY <1>1, <2>3, <2>5 DEF Shows
<1>5. ASSUME NEW c \in calls, Lose(c) PROVE Shows'
  <2> DEFINE d == [c EXCEPT !.lost = TRUE]
  <2>1. c \in CallStates
    BY <1>2
  <2>2. d.hook = c.hook /\ d.number = c.number /\ d.todo = c.todo /\ d.data = c.data
    BY <2>1 DEF CallStates
  <2>3. calls' = (calls \ {c}) \cup {d} /\ UNCHANGED <<page, hook, settings, told>>
    BY <1>5 DEF Lose
  <2> HIDE DEF d
  <2>4. Covers(page, c, told) => Covers(page, d, told)
    BY <2>2 DEF Covers, YetToRead
  <2>5. ReadingOf(page, hook, calls', told)
    BY <1>2, <2>2, <2>3, <2>4 DEF ReadingOf
  <2>6. QED
    BY <1>1, <2>3, <2>5 DEF Shows
<1>6. ASSUME NEW c \in calls, Answered(c) PROVE Shows'
  <2> DEFINE k == IF c.lost THEN Failing(hook[c.hook], c.hook) ELSE Holding(hook[c.hook], c)
  <2>1. c \in CallStates /\ c.hook \in H /\ c.hook \in Hooks /\ c.number \in Nat
        /\ hook[c.hook] \in HookStates
    BY <1>2 DEF CallStates
  <2>2. /\ calls' = calls \ {c} /\ hook' = [hook EXCEPT ![c.hook] = k]
        /\ UNCHANGED <<page, told>> /\ (c.lost \/ c.todo = <<>>)
        /\ \/ c.hook = "settings" /\ page = "status" /\ ~c.lost /\ settings' = c.data["settings"]
           \/ ~(c.hook = "settings" /\ page = "status" /\ ~c.lost) /\ settings' = settings
    BY <1>6 DEF Answered
  <2>3. hook[c.hook].sent > 0 /\ hook[c.hook].sent \in Nat
    BY <1>1, <2>1 DEF Requested, HeldOf, HookStates
  <2>4. /\ k.sent = hook[c.hook].sent
        /\ \/ c.lost /\ k.applied = hook[c.hook].applied /\ k.data = hook[c.hook].data
           \/ c.lost /\ c.hook = "category" /\ k.applied = 0
           \/ ~c.lost /\ k.applied = c.number /\ k.data = c.data
    BY <2>1 DEF Failing, Holding, HookStates
  <2> HIDE DEF k
  <2>5. hook'[c.hook] = k /\ \A h \in Hooks : h # c.hook => hook'[h] = hook[h]
    BY <1>2, <2>1, <2>2
  <2>6. ASSUME ~c.lost, c.number = hook[c.hook].sent
        PROVE  \A e \in Concern(page, c.hook) : c.data[TableOf(e)] >= told[e]
    <3>1. Covers(page, c, told) /\ c.todo = <<>>
      BY <1>2, <2>2, <2>6 DEF ReadingOf
    <3>2. \A t : ~YetToRead(c, t)
      BY <3>1 DEF YetToRead
    <3>3. QED
      BY <3>1, <3>2 DEF Covers
  <2>7. ReadingOf(page, hook', calls', told)
    <3>1. \A h \in Hooks : hook'[h].sent = hook[h].sent
      BY <2>4, <2>5
    <3>2. QED
      BY <1>2, <2>2, <3>1 DEF ReadingOf
  <2>8. HoldingOf(H, hook', told)
    <3>1. ASSUME k.applied = k.sent, NEW e \in EventsFor(c.hook) PROVE k.data[TableOf(e)] >= told[e]
      <4>1. e \in Concern(page, c.hook)
        BY DEF Concern
      <4>2. CASE c.lost
        BY <1>2, <2>1, <2>3, <2>4, <3>1, <4>2 DEF HoldingOf
      <4>3. CASE ~c.lost
        BY <2>4, <2>6, <3>1, <4>1, <4>3
      <4>4. QED
        BY <4>2, <4>3
    <3>2. QED
      BY <1>2, <2>5, <3>1 DEF HoldingOf
  <2>9. ASSUME page = "status", "settings" \in Hooks, hook'["settings"].applied = hook'["settings"].sent
        PROVE  settings' >= told[SettingsEvent]
    <3>1. CASE c.hook # "settings"
      BY <1>1, <2>2, <2>5, <2>9, <3>1 DEF Shows
    <3>2. CASE c.hook = "settings" /\ c.lost
      BY <1>1, <2>2, <2>4, <2>5, <2>9, <3>2 DEF Shows
    <3>3. CASE c.hook = "settings" /\ ~c.lost
      <4>1. settings' = c.data["settings"] /\ c.number = hook[c.hook].sent
        BY <2>2, <2>4, <2>5, <2>9, <3>3
      <4>2. SettingsEvent \in Concern(page, c.hook) /\ TableOf(SettingsEvent) = "settings"
        BY <2>9, <3>3 DEF Concern, TableOf, ComponentEvents, SettingsEvent
      <4>3. QED
        BY <2>6, <3>3, <4>1, <4>2
    <3>4. QED
      BY <3>1, <3>2, <3>3
  <2>10. QED
    BY <2>2, <2>7, <2>8, <2>9 DEF Shows
<1>7. ASSUME NEW v \in DOMAIN chain, OnMessage(v) PROVE Shows'
  <2> DEFINE e == Head(chain[v].queue)
             again == IF Shown(v) THEN Refetches(chain[v].page, e.type) ELSE {}
             takes == chain[v].page = "status" /\ e.type = "status_page_settings_updated"
             k == IF takes /\ Shown(v) /\ "settings" \in Hooks
                  THEN [hook EXCEPT !["settings"].sent = @ + 1,
                                    !["settings"].applied = hook["settings"].sent + 1]
                  ELSE hook
  <2>1. hook' = Sending(k, again) /\ calls' = calls \cup Sent(k, again, metrics, quarter)
        /\ page' = page
    BY <1>7 DEF OnMessage
  <2>2. /\ settings' = IF takes /\ Shown(v) THEN e.version ELSE settings
        /\ told' = IF ~Shown(v) THEN told
                   ELSE [told EXCEPT ![e.type] = IF takes THEN e.version ELSE Newer(@, e.version)]
    BY <1>7 DEF OnMessage
  <2>3. Shown(v) => chain[v].page = page
    BY <1>1 DEF Shown, Socketed
  <2>4. e.type \in EventTypes /\ e.version \in Nat
    <3>1. v \in 1..Len(chain) /\ chain[v] \in ChainStates /\ chain[v].queue # <<>>
      BY <1>1, <1>7 DEF TypeOK, OnMessage
    <3>2. chain[v].queue \in Seq(Events)
      BY <3>1 DEF ChainStates, Events
    <3>3. e \in Events
      BY <3>1, <3>2
    <3>4. QED
      BY <3>3 DEF Events
  <2>5. again \subseteq H
    BY <2>3, RefetchesHere
  <2>6. k \in [Hooks -> HookStates] /\ NumberedOf(k)
        /\ \A h \in Hooks : /\ h # "settings" => k[h] = hook[h]
                            /\ \/ k[h].sent = hook[h].sent /\ k[h].applied = hook[h].applied
                                  /\ ~(h = "settings" /\ takes /\ Shown(v))
                               \/ h = "settings" /\ takes /\ Shown(v) /\ k[h].sent = hook[h].sent + 1
    <3>1. CASE k = hook /\ ~(takes /\ Shown(v) /\ "settings" \in Hooks)
      BY <1>2, <3>1
    <3>2. CASE "settings" \in Hooks /\ takes /\ Shown(v)
               /\ k = [hook EXCEPT !["settings"].sent = @ + 1,
                                   !["settings"].applied = hook["settings"].sent + 1]
      <4> DEFINE s == hook["settings"]
                 t == [[s EXCEPT !.sent = @ + 1] EXCEPT !.applied = s.sent + 1]
      <4>1. s \in HookStates /\ s.sent + 1 \in Nat
        BY <1>2, <3>2 DEF HookStates
      <4>2. t \in HookStates /\ t.sent = s.sent + 1 /\ t.applied = s.sent + 1
        BY <4>1 DEF HookStates
      <4>3. k = [hook EXCEPT !["settings"] = t]
        BY <1>2, <3>2
      <4> HIDE DEF t, k
      <4>4. k["settings"] = t /\ \A h \in Hooks : h # "settings" => k[h] = hook[h]
        BY <1>2, <3>2, <4>3
      <4>5. k \in [Hooks -> HookStates]
        BY <1>2, <4>2, <4>3
      <4>6. NumberedOf(k)
        <5>1. k["settings"].applied <= k["settings"].sent
          BY <4>1, <4>2, <4>4
        <5>2. QED
          BY <1>2, <4>4, <5>1 DEF NumberedOf
      <4>7. QED
        BY <3>2, <4>2, <4>4, <4>5, <4>6
    <3>3. QED
      BY <3>1, <3>2
  \* An event that concerns a hook of the page makes it fetch again, or is the settings'.
  <2>7. ASSUME NEW h \in H, Shown(v), e.type \in Concern(page, h)
        PROVE  h \in again \/ (h = "settings" /\ takes)
    <3>1. HasSocket(page) /\ chain[v].page = page
      BY <2>3, <2>7 DEF Shown
    <3>2. again = Refetches(page, e.type) /\ (takes <=> page = "status" /\ e.type = SettingsEvent)
      BY <2>7, <3>1 DEF SettingsEvent
    <3> HIDE DEF e, again, takes
    <3>3. CASE e.type \in EventsFor(h)
      <4>1. h \in Hooks /\ h \in HooksOf(page)
        BY <1>2, <2>7
      <4>2. h \in Refetches(page, e.type)
        <5>1. CASE page = "status"
          <6>1. h \in {"summary", "components", "incidents"}
            BY <3>3, <4>1, <5>1 DEF EventsFor, HooksOf
          <6>2. QED
            BY <3>3, <4>1, <5>1, <6>1 DEF EventsFor, Refetches, ComponentEvents, IncidentEvents
        <5>2. CASE page = "category"
          <6>1. h = "category"
            BY <3>3, <4>1, <5>2 DEF EventsFor, HooksOf
          <6>2. QED
            BY <3>3, <4>1, <5>2, <6>1 DEF EventsFor, Refetches
        <5>3. QED
          BY <3>1, <5>1, <5>2 DEF HasSocket
      <4>3. QED
        BY <3>2, <4>2
    <3>4. CASE h = "settings" /\ page = "status" /\ e.type = SettingsEvent
      BY <3>2, <3>4
    <3>5. QED
      BY <2>7, <3>3, <3>4 DEF Concern
  <2>8. \A x \in EventTypes : x # e.type \/ ~Shown(v) => told'[x] = told[x]
    BY <1>2, <2>2, <2>4
  <2>9. \A c \in calls : c.number <= k[c.hook].sent
    <3>1. SUFFICES ASSUME NEW c \in calls PROVE c.number <= k[c.hook].sent
      OBVIOUS
    <3>2. c.hook \in Hooks /\ c.number \in Nat /\ hook[c.hook].sent \in Nat
          /\ c.number <= hook[c.hook].sent
      BY <1>2 DEF CallStates, HookStates
    <3>3. QED
      BY <2>6, <3>2
  <2> HIDE DEF k, again
  <2>10. \A c \in calls : c.number = k[c.hook].sent /\ c.hook \notin again => Covers(page, c, told')
    <3>1. SUFFICES ASSUME NEW c \in calls, c.number = k[c.hook].sent, c.hook \notin again
                   PROVE  Covers(page, c, told')
      OBVIOUS
    <3>2. c.hook \in H /\ c.hook \in Hooks /\ c.number \in Nat /\ hook[c.hook].sent \in Nat
          /\ c.number <= hook[c.hook].sent
      BY <1>2 DEF CallStates, HookStates
    <3>3. c.number = hook[c.hook].sent /\ ~(c.hook = "settings" /\ takes /\ Shown(v))
      BY <2>6, <3>1, <3>2
    <3>4. ASSUME NEW x \in Concern(page, c.hook) PROVE told'[x] = told[x]
      <4>1. x \in EventTypes
        BY EventTables
      <4>2. x # e.type \/ ~Shown(v)
        BY <2>7, <3>1, <3>2, <3>3
      <4>3. QED
        BY <2>8, <4>1, <4>2
    <3>5. Covers(page, c, told)
      BY <1>2, <3>3 DEF ReadingOf
    <3>6. QED
      BY <3>4, <3>5 DEF Covers
  <2>11. HoldingOf(H \ again, k, told')
    <3>1. SUFFICES ASSUME NEW h \in H, h \notin again, k[h].applied = k[h].sent, NEW x \in EventsFor(h)
                   PROVE  k[h].data[TableOf(x)] >= told'[x]
      BY DEF HoldingOf
    <3>2. x \in Concern(page, h) /\ x \in EventTypes /\ h # "settings" /\ h \in Hooks
      BY <1>2, EventTables DEF Concern, EventsFor
    <3>3. told'[x] = told[x]
      BY <2>7, <2>8, <3>1, <3>2
    <3>4. QED
      BY <1>2, <2>6, <3>1, <3>2, <3>3 DEF HoldingOf
  <2>12. ReadingOf(page, hook', calls', told') /\ HoldingOf(H, hook', told')
    <3> DEFINE told2 == told'
    <3>1. /\ \A c \in calls : c.number = k[c.hook].sent /\ c.hook \notin again => Covers(page, c, told2)
          /\ HoldingOf(HooksOf(page) \ again, k, told2)
      BY <2>10, <2>11
    <3> HIDE DEF told2
    <3>2. /\ ReadingOf(page, Sending(k, again), calls \cup Sent(k, again, metrics, quarter), told2)
          /\ HoldingOf(HooksOf(page), Sending(k, again), told2)
      BY <1>2, <2>5, <2>6, <2>9, <3>1, FetchHears
    <3>3. QED
      BY <2>1, <3>2 DEF told2
  <2>13. ASSUME page = "status", "settings" \in Hooks, hook'["settings"].applied = hook'["settings"].sent
         PROVE  settings' >= told'[SettingsEvent]
    <3>1. "settings" \notin again
      BY DEF again, Refetches
    <3>2. hook'["settings"] = k["settings"]
      BY <2>1, <2>13, <3>1 DEF Sending
    <3>3. CASE takes /\ Shown(v)
      BY <1>2, <2>2, <2>4, <3>3 DEF SettingsEvent
    <3>4. CASE ~(takes /\ Shown(v))
      <4>1. settings' = settings /\ hook["settings"].applied = hook["settings"].sent
        BY <2>2, <2>6, <2>13, <3>2, <3>4
      <4>2. SettingsEvent # e.type \/ ~Shown(v)
        BY <2>3, <2>13, <3>4 DEF SettingsEvent
      <4>3. told'[SettingsEvent] = told[SettingsEvent]
        BY <2>8, <4>2 DEF SettingsEvent, EventTypes
      <4>4. QED
        BY <1>1, <2>13, <4>1, <4>3 DEF Shows
    <3>5. QED
      BY <3>3, <3>4
  <2>14. QED
    BY <2>1, <2>12, <2>13 DEF Shows
<1>8. ASSUME NEW p \in Pages, Visit(p) PROVE Shows'
  <2> DEFINE fresh == [h \in Hooks |-> FreshHook]
             none == {}
  <2>1. hook' = Sending(fresh, HooksOf(p)) /\ calls' = none \cup Sent(fresh, HooksOf(p), FreshMetrics, 0)
        /\ page' = p /\ told' = NothingTold
    BY <1>8 DEF Visit
  <2>2. fresh \in [Hooks -> HookStates] /\ NumberedOf(fresh)
        /\ HoldingOf(HooksOf(p) \ HooksOf(p), fresh, NothingTold)
    BY FreshTyped DEF NumberedOf, HoldingOf, FreshHook
  <2> HIDE DEF fresh
  <2>3. /\ ReadingOf(p, Sending(fresh, HooksOf(p)),
                     none \cup Sent(fresh, HooksOf(p), FreshMetrics, 0), NothingTold)
        /\ HoldingOf(HooksOf(p), Sending(fresh, HooksOf(p)), NothingTold)
    <3>1. none \subseteq CallStates /\ \A c \in none : FALSE
      OBVIOUS
    <3> HIDE DEF none
    <3>2. QED
      BY <2>2, <3>1, FetchHears
  <2>4. settings' >= told'[SettingsEvent]
    <3>1. TypeOK'
      BY <1>1, TypeStep
    <3>2. QED
      BY <2>1, <3>1 DEF TypeOK, NothingTold, SettingsEvent, EventTypes
  <2>5. QED
    BY <2>1, <2>3, <2>4 DEF Shows
<1>9. ASSUME NEW h, NEW m, NEW q, Select(h, m, q), h # "settings" PROVE Shows'
  <2>1. /\ {h} \subseteq H /\ page' = page /\ settings' = settings /\ told' = told
        /\ \/ hook' = Sending(hook, {h}) /\ calls' = calls \cup Sent(hook, {h}, m, q)
           \/ hook' = hook /\ calls' = calls
    BY <1>9 DEF Select, Elsewhere
  <2>2. CASE hook' = Sending(hook, {h}) /\ calls' = calls \cup Sent(hook, {h}, m, q)
    <3>1. HoldingOf(H \ {h}, hook, told)
      BY <1>2 DEF HoldingOf
    <3>2. \A c \in calls : c.number = hook[c.hook].sent /\ c.hook \notin {h} => Covers(page, c, told)
      BY <1>2 DEF ReadingOf
    <3>3. ReadingOf(page, Sending(hook, {h}), calls \cup Sent(hook, {h}, m, q), told)
          /\ HoldingOf(HooksOf(page), Sending(hook, {h}), told)
      BY <1>2, <2>1, <3>1, <3>2, FetchHears
    <3>4. "settings" \in Hooks => hook'["settings"] = hook["settings"]
      BY <1>9, <2>2 DEF Sending
    <3>5. QED
      BY <1>1, <2>1, <2>2, <3>3, <3>4 DEF Shows
  <2>3. QED
    BY <1>1, <2>1, <2>2 DEF Shows
<1>10. CASE Again
  <2> DEFINE hs == {"availability"}
  <2>1. /\ hs \subseteq H /\ page' = page /\ settings' = settings /\ told' = told
        /\ hook' = Sending(hook, hs) /\ calls' = calls \cup Sent(hook, hs, metrics, quarter)
    BY <1>10 DEF Again, Fetch, Elsewhere
  <2>2. HoldingOf(H \ hs, hook, told)
    BY <1>2 DEF HoldingOf
  <2>3. \A c \in calls : c.number = hook[c.hook].sent /\ c.hook \notin hs => Covers(page, c, told)
    BY <1>2 DEF ReadingOf
  <2>4. "settings" \in Hooks => hook'["settings"] = hook["settings"]
    BY <2>1 DEF Sending
  <2> HIDE DEF hs
  <2>5. ReadingOf(page, Sending(hook, hs), calls \cup Sent(hook, hs, metrics, quarter), told)
        /\ HoldingOf(HooksOf(page), Sending(hook, hs), told)
    BY <1>2, <2>1, <2>2, <2>3, FetchHears
  <2>6. QED
    BY <1>1, <2>1, <2>4, <2>5 DEF Shows
<1>11. CASE ServerActs \/ Linking \/ (\E v \in DOMAIN chain : Breaks(v)) \/ UNCHANGED vars
  BY <1>3, <1>11 DEF ServerActs, Change, BroadcastEvent, Linking, Opens, OnClose, TimerFires,
                     Breaks, Moves, vars
<1>12. CASE (\E p \in Presets : ChoosePeriod(p)) \/ (\E dates \in {"empty", "filled"} : ChooseCustom(dates))
            \/ PrevQuarter \/ NextQuarter
  <2>1. ASSUME NEW p \in Presets, ChoosePeriod(p) PROVE Shows'
    BY <1>9, <2>1 DEF ChoosePeriod
  <2>2. ASSUME NEW dates \in {"empty", "filled"}, ChooseCustom(dates) PROVE Shows'
    BY <1>9, <2>2 DEF ChooseCustom
  <2>3. ASSUME PrevQuarter \/ NextQuarter PROVE Shows'
    BY <1>9, <2>3 DEF PrevQuarter, NextQuarter
  <2>4. QED
    BY <1>12, <2>1, <2>2, <2>3
<1>13. QED
  BY <1>1, <1>4, <1>5, <1>6, <1>7, <1>8, <1>10, <1>11, <1>12
     DEF Next, Answering, Hearing, Faults, VisitorActs

\* However events, reads, answers, broken connections and visits interleave, a
\* page whose newest request was answered last shows nothing older than what it
\* was told of (handleWsMessage, useApi).
THEOREM ToldShown == Spec => []ToldIsShown
<1>1. Init => Heard
  <2>1. \A t \in EventTypes : TableOf(t) \in Tables
    BY EventTables
  <2>2. QED
    BY <2>1 DEF Init, Heard, NothingTold
<1>2. Heard /\ TypeOK /\ [Next]_vars => Heard'
  BY HeardStep
<1>3. Shows => ToldIsShown
  BY HooksHere DEF Shows, HoldingOf, ToldIsShown, Current, StatusShows, SettingsEvent
<1>4. QED
  BY <1>1, <1>2, <1>3, RequestedHolds, ShowsAtFirst, ShowsStep, PTL DEF Spec
=============================================================================
