------------------------------ MODULE AdminDesk ------------------------------
(***************************************************************************)
(* One tab on one list page of the admin console: incidents, maintenance   *)
(* windows, monitors, components, sub-components, webhook channels,        *)
(* subscribers or the log of a monitor.  The pages share one shape: a      *)
(* table fed by useApi under the page and limit of the URL, a form, row    *)
(* buttons, dialogs, and async handlers that write, read the table again   *)
(* and clear the flags that disable the buttons.  What a page offers is    *)
(* data (the page records and the operators below them); the actions read  *)
(* it.                                                                     *)
(*                                                                         *)
(* The tab, the server, other writers (other administrators, the worker,   *)
(* visitors) and the network interleave.  A handler is a job: it goes on   *)
(* while the user closes its dialog, opens another one or turns the page.  *)
(* Bounds: MaxItems, MaxSubmissions, MaxTurns.                             *)
(***************************************************************************)
EXTENDS Naturals, FiniteSets, FiniteSetsExt

CONSTANTS Pages,          \* the pages looked at, names of Desk
          MaxItems,       \* records the collection may ever hold
          InitialItems,   \* records there are at first, by page
          Limits,         \* sizes of a table page the tab may ask for
          DefaultLimit,   \* the one it asks for first
          MaxSubmissions, \* writes and tests the user starts
          MaxTurns        \* writes by anyone else, requests lost, and page,
                          \* limit and filter changes, together

ASSUME DeskBounds ==
  /\ MaxItems \in Nat \ {0} /\ InitialItems \in [Pages -> 0..MaxItems]
  /\ Limits \subseteq Nat \ {0} /\ DefaultLimit \in Limits
  /\ {MaxSubmissions, MaxTurns} \subseteq Nat

Ids == 1..MaxItems

\* A record is not there yet, open (of a subscriber: not verified), done
\* (an incident: resolved), or deleted; identifiers are never reused.
ItemStates == {"none", "open", "done", "gone"}

(***************************************************************************)
(* What a page is made of.  form: how it creates and edits; dialogs: what  *)
(* is asked in a modal of the page; confirms: what window.confirm asks;    *)
(* marks: a delete marks its row; writes: the states its form can give a   *)
(* record; twoLists: its refetch awaits the parents' list too.             *)
(***************************************************************************)
Plain == [form |-> "modal", dialogs |-> {}, confirms |-> {}, marks |-> FALSE,
          writes |-> {"open"}, tests |-> FALSE, twoLists |-> FALSE,
          newestFirst |-> TRUE]

IncidentPage     == [Plain EXCEPT !.dialogs = {"delete", "resolve"}, !.writes = {"open", "done"}]
MaintenancePage  == [Plain EXCEPT !.dialogs = {"delete"}]
MonitorPage      == [Plain EXCEPT !.confirms = {"delete"}, !.tests = TRUE]
ComponentPage    == [Plain EXCEPT !.confirms = {"delete"}, !.newestFirst = FALSE]
SubComponentPage == [Plain EXCEPT !.confirms = {"delete"}, !.twoLists = TRUE, !.newestFirst = FALSE]
WebhookPage      == [Plain EXCEPT !.form = "inline", !.confirms = {"delete"}, !.marks = TRUE]
SubscriberPage   == [Plain EXCEPT !.form = "none", !.confirms = {"delete"}, !.marks = TRUE]
LogPage          == [Plain EXCEPT !.form = "none"]

Desk == [incidents     |-> IncidentPage,     maintenance |-> MaintenancePage,
         monitors      |-> MonitorPage,      components  |-> ComponentPage,
         subcomponents |-> SubComponentPage, webhooks    |-> WebhookPage,
         subscribers   |-> SubscriberPage,   logs        |-> LogPage]

ASSUME DeskPages == Pages \subseteq DOMAIN Desk

\* The buttons of a row, by page.
IncidentOffers(row)     == {"view", "edit", "delete", "post"}
                             \cup (IF row.status = "done" THEN {} ELSE {"resolve"})
MaintenanceOffers(row)  == {"view", "edit", "delete"}
MonitorOffers(row)      == {"edit", "delete"}
ComponentOffers(row)    == {"edit", "delete"}
SubComponentOffers(row) == {"edit", "delete"}
WebhookOffers(row)      == {"delete"}
SubscriberOffers(row)   == {"delete"} \cup (IF row.status = "open" THEN {"resend"} ELSE {})
LogOffers(row)          == {}

RowOffers(at, row) ==
  CASE at = "incidents"     -> IncidentOffers(row)
    [] at = "maintenance"   -> MaintenanceOffers(row)
    [] at = "monitors"      -> MonitorOffers(row)
    [] at = "components"    -> ComponentOffers(row)
    [] at = "subcomponents" -> SubComponentOffers(row)
    [] at = "webhooks"      -> WebhookOffers(row)
    [] at = "subscribers"   -> SubscriberOffers(row)
    [] at = "logs"          -> LogOffers(row)

\* The enabled buttons of a page's form, given its flags.
Unless(flag, button) == IF flag THEN {} ELSE {button}
IncidentForm(busy)     == {"cancel"} \cup Unless(busy.saving, "submit")
MaintenanceForm(busy)  == {"cancel"} \cup Unless(busy.saving, "submit")
MonitorForm(busy)      == {"cancel"} \cup Unless(busy.saving, "submit") \cup Unless(busy.testing, "test")
ComponentForm(busy)    == {"cancel"} \cup Unless(busy.saving, "submit")
SubComponentForm(busy) == {"cancel"} \cup Unless(busy.saving, "submit")
WebhookForm(busy)      == Unless(busy.saving, "submit")

FormOffers(at, busy) ==
  CASE at = "incidents"     -> IncidentForm(busy)
    [] at = "maintenance"   -> MaintenanceForm(busy)
    [] at = "monitors"      -> MonitorForm(busy)
    [] at = "components"    -> ComponentForm(busy)
    [] at = "subcomponents" -> SubComponentForm(busy)
    [] at = "webhooks"      -> WebhookForm(busy)
    [] OTHER                -> {}

(***************************************************************************)
(* State                                                                   *)
(***************************************************************************)
VARIABLES
  at,       \* the page of the tab
  items,    \* the collection in the database
  writes,   \* how often the collection was written
  view,     \* page, limit and filter the tab looks through
  table,    \* the useApi hook of the table
  parents,  \* the parents' list has arrived (sub-components)
  overlay,  \* the modal that is open and the record it is about; 0: a new one
  busy,     \* the flags that disable buttons
  jobs,     \* handlers that have not returned
  reads,    \* list requests that have not been answered
  acked,    \* the newest write of this tab the server acknowledged
  left      \* what the user, the others and the network may still do

vars == <<at, items, writes, view, table, parents, overlay, busy, jobs, reads, acked, left>>

Ops     == {"create", "update", "delete", "resolve", "post", "resend", "test"}
Filters == {"all", "active", "resolved"}
Closed  == [kind |-> "closed", id |-> 0]
Idle    == [saving |-> FALSE, testing |-> FALSE, deleting |-> 0, resending |-> 0, posting |-> {}]

\* The page and limit of the URL; what useApi sends.
ApiParams(v) == [page |-> v.page, limit |-> v.limit]

(***************************************************************************)
(* The table                                                               *)
(***************************************************************************)
Present == {i \in Ids : items[i] \in {"open", "done"}}

\* Records before i in the order of the list.
Before(i) == {j \in Present : IF Desk[at].newestFirst THEN j > i ELSE j < i}

Slice(sel) ==
  {[id |-> i, status |-> items[i]] :
     i \in {j \in Present : Cardinality(Before(j)) \div sel.limit = sel.page - 1}}

\* total_pages of an answer; the hook makes a page of none.
PagesOf(total, limit) == IF total = 0 THEN 1 ELSE (total + limit - 1) \div limit

Filtered(rows, filter) ==
  {r \in rows : CASE filter = "active"   -> r.status # "done"
                  [] filter = "resolved" -> r.status = "done"
                  [] OTHER               -> TRUE}

Rows == Filtered(table.rows, view.filter)

\* The n-th list request: asked, then carrying its answer.
TableRead(n, sel)   == [of |-> "table", n |-> n, sel |-> sel, step |-> "asked",
                        total |-> 0, rows |-> {}, asof |-> 0, ok |-> TRUE]
ParentsRead(n, sel) == [TableRead(n, sel) EXCEPT !.of = "parents", !.step = "answer"]

\* A fetch of the table hook starts.
Fetching(t) == [t EXCEPT !.loading = TRUE, !.sent = @ + 1]

\* What a refetch asks for.
Refetch(n, sel) ==
  {TableRead(n, sel)} \cup (IF Desk[at].twoLists THEN {ParentsRead(n, sel)} ELSE {})

Keys(rs) == {<<r.of, r.n>> : r \in rs}

\* The mount effects: an empty table, its first request, the parents' one.
FreshTable == Fetching([rows |-> {}, total |-> 0, pages |-> 1, loading |-> TRUE,
                        asof |-> 0, sent |-> 0, applied |-> 0])

Init ==
  /\ at \in Pages
  /\ items = [i \in Ids |-> IF i <= InitialItems[at] THEN "open" ELSE "none"]
  /\ writes = 0
  /\ view = [page |-> 1, limit |-> DefaultLimit, filter |-> "all"]
  /\ table = FreshTable
  /\ parents = FALSE
  /\ overlay = Closed
  /\ busy = Idle
  /\ jobs = {}
  /\ reads = Refetch(1, ApiParams(view))
  /\ acked = 0
  /\ left = [submissions |-> MaxSubmissions, turns |-> MaxTurns]

(***************************************************************************)
(* The user: dialogs, forms, row buttons                                   *)
(***************************************************************************)
\* A modal covers the page: only its own buttons can be reached.
Reachable == overlay = Closed

OpenCreate ==
  /\ Reachable /\ Desk[at].form = "modal"
  /\ Desk[at].twoLists => parents
  /\ overlay' = [kind |-> "form", id |-> 0]
  /\ UNCHANGED <<at, items, writes, view, table, parents, busy, jobs, reads, acked, left>>

OpenEdit ==
  /\ Reachable
  /\ \E r \in Rows : /\ "edit" \in RowOffers(at, r)
                     /\ overlay' = [kind |-> "form", id |-> r.id]
  /\ UNCHANGED <<at, items, writes, view, table, parents, busy, jobs, reads, acked, left>>

\* The view, the update form and the questions asked in a modal.
OpenDialog ==
  /\ Reachable
  /\ \E r \in Rows : \E kind \in RowOffers(at, r) \cap ({"view", "post"} \cup Desk[at].dialogs) :
       overlay' = [kind |-> kind, id |-> r.id]
  /\ UNCHANGED <<at, items, writes, view, table, parents, busy, jobs, reads, acked, left>>

CloseDialog ==
  /\ ~Reachable
  /\ overlay' = Closed
  /\ UNCHANGED <<at, items, writes, view, table, parents, busy, jobs, reads, acked, left>>

\* The flag a handler sets before its request and clears at its end.
FlagOf(op) ==
  CASE op \in {"create", "update"}                 -> "saving"
    [] op \in {"delete", "resolve"} \cap Desk[at].dialogs -> "saving"
    [] op = "delete" /\ Desk[at].marks             -> "deleting"
    [] op = "resend"                               -> "resending"
    [] op = "test"                                 -> "testing"
    [] op = "post"                                 -> "posting"
    [] OTHER                                       -> "none"

RaisedByForms(n, op, id) == IF op \in {"create", "update"} THEN [busy EXCEPT !.saving = TRUE] ELSE busy

Raised(n, op, id) ==
  LET flag == FlagOf(op)
  IN  CASE flag = "saving"    -> [busy EXCEPT !.saving = TRUE]
        [] flag = "deleting"  -> [busy EXCEPT !.deleting = id]
        [] flag = "resending" -> [busy EXCEPT !.resending = id]
        [] flag = "testing"   -> [busy EXCEPT !.testing = TRUE]
        [] flag = "posting"   -> [busy EXCEPT !.posting = @ \cup {n}]
        [] OTHER              -> busy

ClearedOnSuccess(j) == IF j.stage = "failed" THEN busy ELSE [busy EXCEPT !.saving = FALSE]

Cleared(j) ==
  LET flag == FlagOf(j.op)
  IN  CASE flag = "saving"    -> [busy EXCEPT !.saving = FALSE]
        [] flag = "deleting"  -> [busy EXCEPT !.deleting = 0]
        [] flag = "resending" -> [busy EXCEPT !.resending = 0]
        [] flag = "testing"   -> [busy EXCEPT !.testing = FALSE]
        [] flag = "posting"   -> [busy EXCEPT !.posting = @ \ {j.n}]
        [] OTHER              -> busy

\* A handler starts: its flag, its request, the page and limit it closed over.
Submit(op, id, status) ==
  /\ left.submissions > 0
  /\ left' = [left EXCEPT !.submissions = @ - 1]
  /\ LET n == left.submissions
     IN  /\ jobs' = jobs \cup {[n |-> n, op |-> op, id |-> id, status |-> status,
                                sel |-> ApiParams(view), stage |-> "sent", wrote |-> 0, waits |-> {}]}
         /\ busy' = Raised(n, op, id)
  /\ UNCHANGED <<at, items, writes, view, table, parents, overlay, reads, acked>>

Save ==
  /\ overlay.kind = "form" /\ "submit" \in FormOffers(at, busy)
  /\ \E status \in Desk[at].writes :
       Submit(IF overlay.id = 0 THEN "create" ELSE "update", overlay.id, status)

CreateInline ==
  /\ Reachable /\ Desk[at].form = "inline" /\ "submit" \in FormOffers(at, busy)
  /\ Submit("create", 0, "open")

\* The red or green button of a question; questions and the form share saving.
Confirm ==
  /\ overlay.kind \in Desk[at].dialogs /\ ~busy.saving
  /\ Submit(overlay.kind, overlay.id, "done")

SubmitUpdate ==
  /\ overlay.kind = "post"
  /\ \A j \in jobs : j.id = overlay.id => j.n \notin busy.posting
  /\ \E status \in {"open", "done"} : Submit("post", overlay.id, status)

\* A delete asked by window.confirm.
DeleteAtOnce ==
  /\ Reachable /\ "delete" \in Desk[at].confirms
  /\ \E r \in Rows : /\ "delete" \in RowOffers(at, r)
                     /\ busy.deleting # r.id
                     /\ Submit("delete", r.id, "gone")

Resend ==
  /\ Reachable
  /\ \E r \in Rows : /\ "resend" \in RowOffers(at, r)
                     /\ busy.resending # r.id
                     /\ Submit("resend", r.id, "open")

Test ==
  /\ overlay.kind = "form" /\ Desk[at].tests /\ "test" \in FormOffers(at, busy)
  /\ Submit("test", overlay.id, "open")

(***************************************************************************)
(* The user: the controls under the table                                  *)
(***************************************************************************)
SafePage == Min({view.page, table.pages})

\* First, last, and the neighbours of the current page; Previous and Next
\* lead to neighbours too.
PageButtons == {p \in 1..table.pages : p \in {1, table.pages} \/ p + 1 = SafePage \/ p = SafePage + 1}

Controls == table.total > 0 /\ table.pages > 1

\* A row that leaves the table takes its flag and its modal with it.
Mounted(b, rows) ==
  [b EXCEPT !.posting = {n \in @ : \E j \in jobs : j.n = n /\ \E r \in rows : r.id = j.id}]
OverRows(o, rows) == IF o.kind = "post" /\ \A r \in rows : r.id # o.id THEN Closed ELSE o

Turn(v) ==
  /\ Reachable /\ left.turns > 0
  /\ left' = [left EXCEPT !.turns = @ - 1]
  /\ view' = v
  /\ UNCHANGED <<at, items, writes, parents, jobs, acked>>

\* The URL changes, so useApi's key does: no button leads where the tab is.
TurnTo(v) ==
  /\ Turn(v)
  /\ Controls /\ ~table.loading
  /\ table' = Fetching(table)
  /\ reads' = reads \cup {TableRead(table'.sent, ApiParams(v))}
  /\ UNCHANGED <<overlay, busy>>

SetPage  == \E p \in PageButtons \ {SafePage} : TurnTo([view EXCEPT !.page = p])
SetLimit == \E l \in Limits \ {view.limit} : TurnTo([view EXCEPT !.page = 1, !.limit = l])

SetFilter ==
  /\ at = "incidents"
  /\ \E f \in Filters \ {view.filter} :
       /\ Turn([view EXCEPT !.filter = f])
       /\ busy' = Mounted(busy, Filtered(table.rows, f))
  /\ UNCHANGED <<table, overlay, reads>>

(***************************************************************************)
(* The server and the other writers                                        *)
(***************************************************************************)
Free == {i \in Ids : items[i] = "none"}

Write(i, status) ==
  /\ items' = [items EXCEPT ![i] = status]
  /\ writes' = writes + 1

\* A record that is gone is refused with 404, a subscriber that is verified
\* with 400.  MaxItems bounds the collection.
Accepts(j) ==
  CASE j.op = "test"               -> TRUE
    [] j.op = "create"             -> Free # {}
    [] j.op = "resend"             -> items[j.id] = "open"
    [] OTHER                       -> j.id \in Present

Target(j) == IF j.op = "create" THEN Min(Free) ELSE j.id

Becomes(j, stage, wrote) == jobs' = (jobs \ {j}) \cup {[j EXCEPT !.stage = stage, !.wrote = wrote]}

Serve(j) ==
  /\ j.stage = "sent" /\ Accepts(j)
  /\ IF j.op = "test" THEN UNCHANGED <<items, writes>>
                      ELSE Write(Target(j), IF j.op = "delete" THEN "gone" ELSE j.status)
  /\ Becomes(j, "done", IF j.op = "test" THEN 0 ELSE writes')
  /\ UNCHANGED <<at, view, table, parents, overlay, busy, reads, acked, left>>

\* 404, a validation error, a failing database.
Refuse(j) ==
  /\ j.stage = "sent"
  /\ Becomes(j, "failed", 0)
  /\ UNCHANGED <<at, items, writes, view, table, parents, overlay, busy, reads, acked, left>>

\* The request is lost, or its answer after the server has written.
LoseJob(j) ==
  /\ j.stage \in {"sent", "done"} /\ left.turns > 0
  /\ left' = [left EXCEPT !.turns = @ - 1]
  /\ Becomes(j, "failed", j.wrote)
  /\ UNCHANGED <<at, items, writes, view, table, parents, overlay, busy, reads, acked>>

Others ==
  /\ left.turns > 0
  /\ left' = [left EXCEPT !.turns = @ - 1]
  /\ \/ Free # {} /\ Write(Min(Free), "open")
     \/ \E i \in Present : \E status \in {"open", "done", "gone"} \ {items[i]} : Write(i, status)
  /\ UNCHANGED <<at, view, table, parents, overlay, busy, jobs, reads, acked>>

\* A list request.  The server counts and finds in two calls; a write between
\* them would only leave the total behind the rows, so they are one step.
Find(r) ==
  /\ r.step = "asked"
  /\ reads' = (reads \ {r}) \cup {[r EXCEPT !.step = "answer", !.total = Cardinality(Present),
                                            !.rows = Slice(r.sel), !.asof = writes]}
  /\ UNCHANGED <<at, items, writes, view, table, parents, overlay, busy, jobs, acked, left>>

LoseRead(r) ==
  /\ r.ok /\ left.turns > 0
  /\ left' = [left EXCEPT !.turns = @ - 1]
  /\ reads' = (reads \ {r}) \cup {[r EXCEPT !.step = "answer", !.ok = FALSE]}
  /\ UNCHANGED <<at, items, writes, view, table, parents, overlay, busy, jobs, acked>>

(***************************************************************************)
(* The handlers go on                                                      *)
(***************************************************************************)
Finished(j) == jobs' = jobs \ {j}

\* After the write and before the refetch a question closes its modal,
\* whichever record it asks about by now, and an update its row's modal.
ClosedByAnswer(j) ==
  IF \/ j.op \in Desk[at].dialogs /\ overlay.kind = j.op
     \/ j.n \in busy.posting /\ overlay = [kind |-> "post", id |-> j.id]
  THEN Closed ELSE overlay

\* A save closes the form once the table has been read again, whichever
\* record the form edits by now.
ClosedByEnd(j) ==
  IF j.op \in {"create", "update"} /\ overlay.kind = "form" THEN Closed ELSE overlay

\* The handlers that read the table again.
RereadsAfterSaves(op) == op \in {"create", "update", "post"}

Rereads(op) == op # "test"

\* The acknowledged write leads to a refetch under the page and limit the
\* handler closed over; an update reads the incident's updates meanwhile.
Resume(j) ==
  /\ j.stage = "done"
  /\ acked' = Max({acked, j.wrote})
  /\ overlay' = ClosedByAnswer(j)
  /\ IF ~Rereads(j.op)
     THEN /\ Finished(j)
          /\ busy' = Cleared(j)
          /\ UNCHANGED <<table, reads>>
     ELSE /\ table' = Fetching(table)
          /\ reads' = reads \cup Refetch(table'.sent, j.sel)
          /\ jobs' = (jobs \ {j}) \cup
                {IF j.op = "post" THEN [j EXCEPT !.stage = "updates"]
                 ELSE [j EXCEPT !.stage = "refetch", !.waits = Keys(Refetch(table'.sent, j.sel))]}
          /\ UNCHANGED busy
  /\ UNCHANGED <<at, items, writes, view, parents, left>>

\* A refusal or a loss is shown, the form or question stays open.
Fail(j) ==
  /\ j.stage = "failed"
  /\ Finished(j)
  /\ busy' = Cleared(j)
  /\ UNCHANGED <<at, items, writes, view, table, parents, overlay, reads, acked, left>>

\* GET /incidents/:id/updates has been answered or has failed.
UpdatesRead(j) ==
  /\ j.stage = "updates"
  /\ Finished(j)
  /\ busy' = Cleared(j)
  /\ UNCHANGED <<at, items, writes, view, table, parents, overlay, reads, acked, left>>

\* What an answer leaves in the table hook; a refetch never throws.
Applied(r) ==
  IF r.of = "parents" THEN table
  ELSE IF ~r.ok THEN [table EXCEPT !.loading = FALSE]
  ELSE [table EXCEPT !.loading = FALSE, !.rows = r.rows, !.total = r.total,
                     !.pages = PagesOf(r.total, r.sel.limit), !.asof = r.asof, !.applied = r.n]

AnswerRead(r) ==
  /\ r.step = "answer"
  /\ reads' = reads \ {r}
  /\ table' = Applied(r)
  /\ parents' = (parents \/ (r.of = "parents" /\ r.ok))
  /\ LET shown   == Filtered(table'.rows, view.filter)
         waiting == {j \in jobs : <<r.of, r.n>> \in j.waits}
         ended   == {j \in waiting : j.waits = {<<r.of, r.n>>}}
     IN  /\ jobs' = (jobs \ waiting) \cup
                      {[j EXCEPT !.waits = @ \ {<<r.of, r.n>>}] : j \in waiting \ ended}
         /\ IF ended = {}
            THEN busy' = Mounted(busy, shown) /\ overlay' = OverRows(overlay, shown)
            ELSE \E j \in ended : /\ busy' = Mounted(Cleared(j), shown)
                                  /\ overlay' = OverRows(ClosedByEnd(j), shown)
  /\ UNCHANGED <<at, items, writes, view, acked, left>>

(***************************************************************************)
(* The specification                                                       *)
(***************************************************************************)
User == OpenCreate \/ OpenEdit \/ OpenDialog \/ CloseDialog \/ Save \/ CreateInline \/ Confirm
          \/ SubmitUpdate \/ DeleteAtOnce \/ Resend \/ Test \/ SetPage \/ SetLimit \/ SetFilter

Server  == \/ \E j \in jobs : Serve(j) \/ Refuse(j)
           \/ \E r \in reads : Find(r)
Tab     == \/ \E j \in jobs : Resume(j) \/ Fail(j) \/ UpdatesRead(j)
           \/ \E r \in reads : AnswerRead(r)
Network == \/ \E j \in jobs : LoseJob(j)
           \/ \E r \in reads : LoseRead(r)

Next == User \/ Server \/ Tab \/ Network \/ Others

Spec == Init /\ [][Next]_vars

\* Requests are served or fail, and the browser runs what has been answered:
\* axios and fetch settle every request.  Nobody owes the page a click.
FairSpec == Spec /\ WF_vars(Server) /\ WF_vars(Tab)

(***************************************************************************)
(* Properties                                                              *)
(***************************************************************************)
Selections == [page : Nat \ {0}, limit : Limits]
TableRows  == [id : Ids, status : {"open", "done"}]
Views      == [page : Nat \ {0}, limit : Limits, filter : Filters]
Tables     == [rows : SUBSET TableRows, total : Nat, pages : Nat \ {0}, loading : BOOLEAN,
               asof : Nat, sent : Nat, applied : Nat]
Overlays   == [kind : {"closed", "form", "view", "post", "delete", "resolve"}, id : Ids \cup {0}]
Flags      == [saving : BOOLEAN, testing : BOOLEAN, deleting : Ids \cup {0},
               resending : Ids \cup {0}, posting : SUBSET Nat]
Jobs       == [n : Nat, op : Ops, id : Ids \cup {0}, status : {"open", "done", "gone"},
               sel : Selections, stage : {"sent", "done", "failed", "updates", "refetch"},
               wrote : Nat, waits : SUBSET ({"table", "parents"} \X Nat)]
Reads      == [of : {"table", "parents"}, n : Nat, sel : Selections, step : {"asked", "answer"},
               total : Nat, rows : SUBSET TableRows, asof : Nat, ok : BOOLEAN]

TypeOK ==
  /\ at \in Pages /\ items \in [Ids -> ItemStates]
  /\ view \in Views /\ table \in Tables /\ parents \in BOOLEAN
  /\ overlay \in Overlays /\ busy \in Flags
  /\ jobs \subseteq Jobs /\ reads \subseteq Reads
  /\ writes \in Nat /\ acked \in Nat
  /\ left \in [submissions : Nat, turns : Nat]

\* Once the newest list request of the page has been answered, the table is
\* at least as new as every write of this tab the server acknowledged: no
\* handler may report success over a table that was read before its write
\* (await refetch() after api.post, patch, put and delete).
OwnWritesListed == table.applied = table.sent => table.asof >= acked

\* The flag that disables the form's and the questions' buttons is up exactly
\* while the one handler that owns it runs, through its write and its
\* refetch, whatever the user closes and opens meanwhile: no second save
\* starts and no button stays dead.
SavingTells ==
  LET owners == {j \in jobs : FlagOf(j.op) = "saving"}
  IN  busy.saving = (owners # {}) /\ Cardinality(owners) <= 1

\* Every flag comes down again, on success, refusal and loss alike: once the
\* user stops, every button of the page works.
ButtonsComeBack == []<>(busy = Idle)
=============================================================================
