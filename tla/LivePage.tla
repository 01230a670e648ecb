------------------------------ MODULE LivePage ------------------------------
(***************************************************************************)
(* The public pages of one browser tab against the server: the requests of *)
(* useApi and useCategorySummary, the WebSocket of useWebSocket, and what  *)
(* StatusPage, StatusCategoryPage, HistoryPage and AvailabilityMetrics     *)
(* make of answers and events.                                             *)
(*                                                                         *)
(* The database is a version per table.  An endpoint reads its tables one  *)
(* call after the other; a handler writes first and broadcasts later;      *)
(* answers arrive in any order; the events of a connection arrive in order *)
(* (Hub.tla) until it breaks.                                              *)
(***************************************************************************)
EXTENDS Naturals, Sequences

CONSTANTS
  Hooks,      \* the requests followed, of those the pages make
  Changes,    \* what the server may do to the database: <<table, event>>
  Presets,    \* periods the visitor chooses from, with "30d"
  MaxQuarter, \* bound on the quarters back
  MaxWrites,  \* bound on the changes
  Budget,     \* bound on what the visitor does and the network breaks
  None        \* no range, no event

Tables == {"component", "incident", "maintenance", "settings"}
EventTypes == {"component_created", "component_updated", "incident_created",
  "incident_updated", "incident_resolved", "incident_update_added",
  "incident_deleted", "status_page_settings_updated"}
AllHooks == {"summary", "components", "incidents", "settings", "maintenance",
             "availability", "category", "history"}

Periods == {"24h", "7d", "30d", "90d", "ytd"}

ComponentEvents == {"component_created", "component_updated"}
TableOf(type) == IF type \in ComponentEvents THEN "component"
                 ELSE IF type = "status_page_settings_updated" THEN "settings" ELSE "incident"

\* A handler announces what it wrote.
ASSUME LivePageAssumption ==
  /\ Hooks \subseteq AllHooks /\ Changes \subseteq Tables \X (EventTypes \cup {None})
  /\ \A c \in Changes : c[2] # None => c[1] = TableOf(c[2])
  /\ None \notin EventTypes \cup [period : Periods \cup {"custom", "none"}, quarter : Nat]
  /\ MaxWrites \in Nat /\ Budget \in Nat /\ MaxQuarter \in Nat /\ Presets \subseteq Periods

VARIABLES
  db,        \* version of each table
  pending,   \* changes made and not yet broadcast
  page,      \* what the tab shows
  hook,      \* per request: what the page holds of it
  calls,     \* requests in flight for the page shown
  chain,     \* per visit to a page with a WebSocket: the connection or its timer
  metrics,   \* AvailabilityMetrics: the period, and whether "Custom" is chosen with or
             \* without its two dates
  quarter,   \* HistoryPage: quarters back from the current one
  settings,  \* StatusPage: the settings state
  cache,     \* the settings in localStorage and in bootstrappedStatusPageSettings
  left,      \* what the bounds still allow
  told       \* newest version the page shown was told of, per event (history)

vars == <<db, pending, page, hook, calls, chain, metrics, quarter, settings, cache, left, told>>

-----------------------------------------------------------------------------
(* Requests of the pages *)

Pages == {"status", "category", "history", "away"}

HooksOf(p) == Hooks \cap
  CASE p = "status" -> {"summary", "components", "incidents", "settings", "maintenance",
                        "availability"}
    [] p = "category" -> {"category", "settings"}
    [] p = "history" -> {"history", "settings"}
    [] OTHER -> {}

\* The tables an endpoint reads, in the order of its calls; what no
\* event concerns (sub-components, monitors, uptime, maintenance) is left out.
Reads(h) ==
  CASE h \in {"summary", "components", "category"} -> <<"component", "incident">>
    [] h \in {"incidents", "history", "availability"} -> <<"incident">>
    [] OTHER -> <<h>>

\* What a request asks for: the params or the URL of its hook.
Ranges == [period : Periods \cup {"custom", "none"}, quarter : Nat]
ApiParams(m) == IF m.custom = "filled" THEN "custom" ELSE m.period
Selected(h, m, q) ==
  [period |-> IF h = "availability" THEN ApiParams(m) ELSE "none",
   quarter |-> IF h = "history" THEN q ELSE 0]

NoVersion == [t \in Tables |-> 0]
NothingTold == [e \in EventTypes |-> 0]
Newer(a, b) == IF a >= b THEN a ELSE b

\* `sent` and `applied` number the requests and say whose answer is held; the
\* code has no such numbers (history).
FreshHook == [data |-> NoVersion, range |-> None, loading |-> TRUE, failed |-> FALSE,
              sent |-> 0, applied |-> 0]
HookStates == [data : [Tables -> Nat], range : Ranges \cup {None}, loading : BOOLEAN,
               failed : BOOLEAN, sent : Nat, applied : Nat]

CallOf(h, n, range) ==
  [hook |-> h, number |-> n, range |-> range, todo |-> Reads(h), data |-> NoVersion,
   lost |-> FALSE]
CallStates == [hook : Hooks, number : Nat, range : Ranges, todo : Seq(Tables),
               data : [Tables -> Nat], lost : BOOLEAN]

\* `fetch` of the hooks hs, out of the hooks k.
Sending(k, hs) ==
  [h \in Hooks |-> IF h \in hs
                   THEN [k[h] EXCEPT !.loading = TRUE, !.failed = FALSE, !.sent = @ + 1]
                   ELSE k[h]]
Sent(k, hs, m, q) == {CallOf(h, k[h].sent + 1, Selected(h, m, q)) : h \in hs}

Fetch(hs) ==
  /\ hook' = Sending(hook, hs)
  /\ calls' = calls \cup Sent(hook, hs, metrics, quarter)

-----------------------------------------------------------------------------
(* Initial state: an empty tab without cached settings *)

HasSocket(p) == p \in {"status", "category"}
FreshMetrics == [period |-> "30d", custom |-> "off"]

Init ==
  /\ db = [t \in Tables |-> 1] /\ pending = {}
  /\ page = "away" /\ hook = [h \in Hooks |-> FreshHook] /\ calls = {}
  /\ chain = <<>>
  /\ metrics = FreshMetrics /\ quarter = 0
  /\ settings = 0 /\ cache = 0
  /\ left = [writes |-> MaxWrites, budget |-> Budget]
  /\ told = NothingTold

-----------------------------------------------------------------------------
(* The server *)

Spends == left.budget > 0 /\ left' = [left EXCEPT !.budget = @ - 1]

\* A handler, the worker or a failing handler writes; only some announce it.
Change(c) ==
  /\ left.writes > 0 /\ left' = [left EXCEPT !.writes = @ - 1]
  /\ db' = [db EXCEPT ![c[1]] = @ + 1]
  /\ pending' = IF c[2] = None THEN pending
                ELSE pending \cup {[type |-> c[2], table |-> c[1], version |-> db[c[1]] + 1]}
  /\ UNCHANGED <<page, hook, calls, chain, metrics, quarter, settings, cache, told>>

BroadcastEvent(e) ==
  /\ e \in pending /\ pending' = pending \ {e}
  /\ chain' = [v \in DOMAIN chain |->
                 IF chain[v].state = "open" THEN [chain[v] EXCEPT !.queue = Append(@, e)]
                 ELSE chain[v]]
  /\ UNCHANGED <<db, page, hook, calls, metrics, quarter, settings, cache, left, told>>

ReadTable(c) ==
  /\ c \in calls /\ ~c.lost /\ c.todo # <<>>
  /\ calls' = (calls \ {c}) \cup
       {[c EXCEPT !.data[Head(c.todo)] = db[Head(c.todo)], !.todo = Tail(@)]}
  /\ UNCHANGED <<db, pending, page, hook, chain, metrics, quarter, settings, cache,
                 left, told>>

\* The request or its answer is lost, or the server fails.
Lose(c) ==
  /\ c \in calls /\ ~c.lost
  /\ Spends
  /\ calls' = (calls \ {c}) \cup {[c EXCEPT !.lost = TRUE]}
  /\ UNCHANGED <<db, pending, page, hook, chain, metrics, quarter, settings, cache, told>>

-----------------------------------------------------------------------------
(* Answers *)

\* Faulty variant: only success ends the loading.
FailingForEver(k, h) == [k EXCEPT !.failed = TRUE]
\* useApi keeps its data when a request fails; useCategorySummary drops it.
\* Nothing cancels an older request, and any answer ends the loading.
Failing(k, h) ==
  IF h = "category"
  THEN [k EXCEPT !.loading = FALSE, !.failed = TRUE, !.data = NoVersion, !.range = None,
                 !.applied = 0]
  ELSE [k EXCEPT !.loading = FALSE, !.failed = TRUE]
\* Answers leave the error of another request as it is.
Holding(k, c) ==
  [k EXCEPT !.loading = FALSE, !.data = c.data, !.range = c.range, !.applied = c.number]

Answered(c) ==
  /\ c \in calls /\ (c.lost \/ c.todo = <<>>)
  /\ calls' = calls \ {c}
  /\ hook' = [hook EXCEPT ![c.hook] = IF c.lost THEN Failing(@, c.hook) ELSE Holding(@, c)]
  /\ IF c.hook = "settings" /\ page = "status" /\ ~c.lost
     THEN settings' = c.data["settings"] /\ cache' = c.data["settings"]
     ELSE UNCHANGED <<settings, cache>>
  /\ UNCHANGED <<db, pending, page, chain, metrics, quarter, left, told>>

-----------------------------------------------------------------------------
(* What the pages show of their hooks *)

\* The status page has no loading and no error: its sections show what is held,
\* the defaults before the first answer (version 0).  So do the services of a
\* category once CategoryShows lets them appear.
StatusShows(h) == hook[h].data

\* The period named above the figures is the one of the answer.
AvailabilityShows(k) ==
  CASE k.loading -> "loading"
    [] ~k.loading /\ k.failed -> "error"
    [] OTHER -> IF k.range = None THEN "nothing" ELSE k.range.period

\* Incidents are shown under the months of the quarter selected: those of another
\* quarter fall in none of them.
HistoryShows(k) ==
  CASE k.loading -> "loading"
    [] ~k.loading /\ k.failed -> "error"
    [] OTHER -> IF k.range # None /\ k.range.quarter = quarter THEN "incidents"
                ELSE "empty months"

CategoryShows(k) ==
  CASE k.loading -> "loading"
    [] ~k.loading /\ (k.failed \/ k.range = None) -> "unavailable"
    [] OTHER -> "services"

-----------------------------------------------------------------------------
(* The WebSocket *)

\* The chain of the page shown is the last one, if the page has a WebSocket.
Shown(v) == HasSocket(page) /\ v = Len(chain)
Link(p) == [page |-> p, state |-> "connecting", queue |-> <<>>]

Moves(v, from, to) ==
  /\ v \in DOMAIN chain /\ chain[v].state \in from
  /\ chain' = [chain EXCEPT ![v].state = to, ![v].queue = <<>>]
  /\ UNCHANGED <<db, pending, page, hook, calls, metrics, quarter, settings, cache, told>>

Opens(v) == Moves(v, {"connecting"}, "open") /\ UNCHANGED left

\* The connection fails, breaks, or is dropped by the hub: onerror closes it.
Breaks(v) ==
  /\ Spends
  /\ Moves(v, {"connecting", "open"}, "closing")

\* Faulty variant: gives up.
OnCloseGivesUp(v) == Moves(v, {"closing"}, "closed") /\ UNCHANGED left
\* onclose sets the timer, even when the page that opened the connection is gone.
OnClose(v) == Moves(v, {"closing"}, "waiting") /\ UNCHANGED left
TimerFires(v) == Moves(v, {"waiting"}, "connecting") /\ UNCHANGED left

\* handleWsMessage of the two pages: the hooks an event fetches again.
IncidentEvents == {"incident_created", "incident_updated", "incident_resolved",
                   "incident_update_added"}
\* Faulty variant: the summary is left alone.
RefetchesList(p, type) ==
  Hooks \cap
  (CASE p = "status" /\ type \in ComponentEvents -> {"components"}
     [] p = "status" /\ type \in IncidentEvents -> {"incidents"}
     [] p = "category" /\ type \in ComponentEvents \cup IncidentEvents -> {"category"}
     [] OTHER -> {})
Refetches(p, type) ==
  Hooks \cap
  (CASE p = "status" /\ type \in ComponentEvents
          -> {"components", "summary"}
     [] p = "status" /\ type \in IncidentEvents -> {"incidents", "summary"}
     [] p = "category" /\ type \in ComponentEvents \cup IncidentEvents -> {"category"}
     [] OTHER -> {})

\* Of a page that is gone only the cache still feels it.
OnMessage(v) ==
  /\ v \in DOMAIN chain /\ chain[v].state = "open" /\ chain[v].queue # <<>>
  /\ LET e == Head(chain[v].queue)
         again == IF Shown(v) THEN Refetches(chain[v].page, e.type) ELSE {}
         takes == chain[v].page = "status" /\ e.type = "status_page_settings_updated"
         k == IF takes /\ Shown(v) /\ "settings" \in Hooks
              THEN [hook EXCEPT !["settings"].sent = @ + 1,
                                !["settings"].applied = hook["settings"].sent + 1]
              ELSE hook
     IN /\ chain' = [chain EXCEPT ![v].queue = Tail(@)]
        /\ hook' = Sending(k, again)
        /\ calls' = calls \cup Sent(k, again, metrics, quarter)
        /\ settings' = IF takes /\ Shown(v) THEN e.version ELSE settings
        /\ cache' = IF takes THEN e.version ELSE cache
        /\ told' = IF ~Shown(v) THEN told
                   ELSE [told EXCEPT ![e.type] = IF takes THEN e.version ELSE Newer(@, e.version)]
  /\ UNCHANGED <<db, pending, page, metrics, quarter, left>>

-----------------------------------------------------------------------------
(* The visitor *)

Elsewhere == UNCHANGED <<db, pending, page, chain, settings, cache, told>>

\* A link of the application: the old page unmounts, which stops a timer and
\* closes a connection, and the new one fetches and connects.
Unmounted(l) ==
  [l EXCEPT !.state = CASE @ \in {"connecting", "open"} -> "closing"
                        [] @ = "waiting" -> "closed" [] OTHER -> @,
            !.queue = <<>>]
Visit(p) ==
  /\ p # page /\ Spends
  /\ page' = p
  /\ metrics' = FreshMetrics /\ quarter' = 0
  /\ LET fresh == [h \in Hooks |-> FreshHook]
     IN /\ hook' = Sending(fresh, HooksOf(p))
        /\ calls' = Sent(fresh, HooksOf(p), FreshMetrics, 0)
  /\ chain' = [v \in DOMAIN chain |-> IF Shown(v) THEN Unmounted(chain[v]) ELSE chain[v]]
              \o (IF HasSocket(p) THEN <<Link(p)>> ELSE <<>>)
  /\ settings' = IF p = "status" THEN cache ELSE 0
  /\ told' = NothingTold
  /\ UNCHANGED <<db, pending, cache>>

\* The effect fetches again when the parameters have changed.
\* Faulty variant: never.
KeepsParams(h, m, q) == FALSE
ParamsChange(h, m, q) == Selected(h, m, q) # Selected(h, metrics, quarter)
Select(h, m, q) ==
  /\ Spends /\ h \in HooksOf(page) /\ ~(m = metrics /\ q = quarter)
  /\ metrics' = m /\ quarter' = q
  /\ IF ParamsChange(h, m, q)
     THEN /\ hook' = Sending(hook, {h}) /\ calls' = calls \cup Sent(hook, {h}, m, q)
     ELSE UNCHANGED <<hook, calls>>
  /\ Elsewhere

ChoosePeriod(p) ==
  Select("availability", [metrics EXCEPT !.period = p, !.custom = "off"], quarter)
ChooseCustom(dates) == Select("availability", [metrics EXCEPT !.custom = dates], quarter)
\* Quarters go back from the current one and never beyond it.
CanGoNext == quarter > 0
PrevQuarter == quarter < MaxQuarter /\ Select("history", metrics, quarter + 1)
NextQuarter == CanGoNext /\ Select("history", metrics, quarter - 1)

\* The Apply and Retry buttons.
Again ==
  /\ Spends /\ "availability" \in HooksOf(page)
  /\ \/ metrics.custom = "filled"
     \/ AvailabilityShows(hook["availability"]) = "error"
  /\ Fetch({"availability"}) /\ Elsewhere /\ UNCHANGED <<metrics, quarter>>

-----------------------------------------------------------------------------
ServerActs ==
  \/ \E c \in Changes : Change(c)
  \/ \E e \in pending : BroadcastEvent(e)
Answering == \E c \in calls : ReadTable(c) \/ Answered(c)
Linking == \E v \in DOMAIN chain : Opens(v) \/ OnClose(v) \/ TimerFires(v)
Hearing == \E v \in DOMAIN chain : OnMessage(v)
Faults ==
  \/ \E c \in calls : Lose(c)
  \/ \E v \in DOMAIN chain : Breaks(v)
VisitorActs ==
  \/ \E p \in Pages : Visit(p)
  \/ \E p \in Presets : ChoosePeriod(p)
  \/ \E dates \in {"empty", "filled"} : ChooseCustom(dates)
  \/ PrevQuarter \/ NextQuarter
  \/ Again

Next ==
  ServerActs \/ Answering \/ Linking \/ Hearing \/ Faults \/ VisitorActs

Spec == Init /\ [][Next]_vars

\* Requests are answered, timers fire and connections succeed once the network
\* stops failing.  The visitor and the administrators owe nothing.
FairSpec ==
  /\ Spec
  /\ WF_vars(Answering) /\ WF_vars(Linking) /\ WF_vars(Hearing)

-----------------------------------------------------------------------------
(* Correctness *)

ChainStates == [page : {"status", "category"},
                state : {"connecting", "open", "closing", "waiting", "closed"},
                queue : Seq([type : EventTypes, table : Tables, version : Nat])]

\* The types of the page's state, its requests and its connections.
TypeOK ==
  /\ db \in [Tables -> Nat] /\ pending \subseteq [type : EventTypes, table : Tables, version : Nat]
  /\ page \in Pages /\ hook \in [Hooks -> HookStates] /\ calls \subseteq CallStates
  /\ chain \in Seq(ChainStates)
  /\ metrics \in [period : Periods, custom : {"off", "empty", "filled"}]
  /\ quarter \in Nat /\ settings \in Nat /\ cache \in Nat
  /\ left \in [writes : Nat, budget : Nat]
  /\ told \in [EventTypes -> Nat]

\* The newest request of h was answered and no older answer came after it.
Current(h) == h \in HooksOf(page) /\ hook[h].applied = hook[h].sent

\* The events that make what h shows out of date (README: "Real-time status
\* refresh through WebSocket updates").
EventsFor(h) ==
  CASE h \in {"summary", "category"} -> ComponentEvents \cup IncidentEvents
    [] h = "components" -> ComponentEvents
    [] h = "incidents" -> IncidentEvents
    [] OTHER -> {}

\* Unless an older answer overtook a newer one, a page shows nothing older than
\* what it was told of: its handlers fetch everything an event concerns, and
\* an event is never broadcast before its change can be read (handleWsMessage,
\* useApi; handlers/incident.go, handlers/component.go).
ToldIsShown ==
  /\ \A h \in Hooks : Current(h) =>
       \A e \in EventsFor(h) : StatusShows(h)[TableOf(e)] >= told[e]
  /\ page = "status" /\ "settings" \in Hooks /\ Current("settings")
       => settings >= told["status_page_settings_updated"]

\* With nothing under way and unless overtaken, the page shows an error or what
\* was asked for last: the figures of the period selected, the incidents of the
\* quarter selected, the category (AvailabilityMetrics, HistoryPage,
\* StatusCategoryPage, useApi).
Undisturbed(h) == h \in Hooks /\ Current(h) /\ \A c \in calls : c.hook # h
SelectionShown ==
  /\ Undisturbed("availability") =>
       AvailabilityShows(hook["availability"]) \in {"error", ApiParams(metrics)}
  /\ Undisturbed("history") => HistoryShows(hook["history"]) \in {"error", "incidents"}
  /\ Undisturbed("category") /\ ~hook["category"].failed
       => CategoryShows(hook["category"]) = "services"

\* A page that says it is loading awaits an answer, however requests, events and
\* failures interleave (useApi, useCategorySummary).
LoadingIsAwaited ==
  \A h \in HooksOf(page) : hook[h].loading => \E c \in calls : c.hook = h

\* Once the visitor stops and the network holds, nothing is loading any more and
\* a page that follows events is connected and has heard all it was sent
\* (useApi, useWebSocket's reconnecting).
AtRest ==
  /\ \A h \in HooksOf(page) : ~hook[h].loading
  /\ HasSocket(page) => chain[Len(chain)].state = "open" /\ chain[Len(chain)].queue = <<>>
Settles == <>[]AtRest

\* docs/architecture.md: "The public status pages use those events to trigger
\* refreshes for changing operational data", after naming "incident creation,
\* updates, update additions, deletion, and resolution".
DeletionIsShown ==
  \A h \in Hooks \cap {"summary", "incidents"} :
    Current(h) => hook[h].data["incident"] >= told["incident_deleted"]
=============================================================================
