--------------------------- MODULE AdminDesk_proofs ---------------------------
(***************************************************************************)
(* Theorems about the list pages of the console: the state keeps its type, *)
(* a table read last shows what the tab wrote (OwnWritesListed), and the   *)
(* saving flag is owned by one running handler (SavingTells), whatever the *)
(* sizes, the pages, the other writers and the network do.                 *)
(***************************************************************************)
EXTENDS AdminDesk, FiniteSetTheorems, TLAPS

(***************************************************************************)
(* What the pages are made of                                              *)
(***************************************************************************)
\* The pages there are.
LEMMA PageNames ==
  ASSUME at \in Pages
  PROVE  at \in {"incidents", "maintenance", "monitors", "components",
                 "subcomponents", "webhooks", "subscribers", "logs"}
BY DeskPages DEF Desk

\* A page asks either in a modal or by window.confirm, forms write open or
\* resolved records, and modals ask about deleting and resolving only.
LEMMA PageShape ==
  ASSUME at \in Pages
  PROVE  /\ Desk[at].dialogs \subseteq {"delete", "resolve"}
         /\ Desk[at].writes \subseteq {"open", "done"}
         /\ "delete" \in Desk[at].confirms => Desk[at].dialogs = {}
         /\ Desk[at].marks => Desk[at].dialogs = {}
<1>1. CASE at = "incidents"
  BY <1>1 DEF Desk, IncidentPage, Plain
<1>2. CASE at = "maintenance"
  BY <1>2 DEF Desk, MaintenancePage, Plain
<1>3. CASE at = "monitors"
  BY <1>3 DEF Desk, MonitorPage, Plain
<1>4. CASE at = "components"
  BY <1>4 DEF Desk, ComponentPage, Plain
<1>5. CASE at = "subcomponents"
  BY <1>5 DEF Desk, SubComponentPage, Plain
<1>6. CASE at = "webhooks"
  BY <1>6 DEF Desk, WebhookPage, Plain
<1>7. CASE at = "subscribers"
  BY <1>7 DEF Desk, SubscriberPage, Plain
<1>8. CASE at = "logs"
  BY <1>8 DEF Desk, LogPage, Plain
<1> QED
  BY <1>1, <1>2, <1>3, <1>4, <1>5, <1>6, <1>7, <1>8, PageNames

\* The submit button of a form is enabled only while nothing is saved.
LEMMA SubmitNeedsIdle ==
  ASSUME at \in Pages, busy \in Flags, "submit" \in FormOffers(at, busy)
  PROVE  ~busy.saving
BY PageNames DEF Flags, FormOffers, Unless, IncidentForm, MaintenanceForm, MonitorForm,
                 ComponentForm, SubComponentForm, WebhookForm

\* The handlers that own the saving flag.
LEMMA SavingOps ==
  ASSUME at \in Pages, NEW op \in Ops
  PROVE  /\ FlagOf(op) = "saving" <=> \/ op \in {"create", "update"}
                                      \/ op \in Desk[at].dialogs
         /\ FlagOf(op) = "posting" => op = "post"
BY PageShape DEF FlagOf, Ops

\* The smaller and the larger of two numbers.
LEMMA MaxOfTwo ==
  ASSUME NEW a \in Nat, NEW b \in Nat
  PROVE  Max({a, b}) = IF a >= b THEN a ELSE b
<1> DEFINE P(x) == \A y \in {a, b} : x >= y
<1>1. \E x \in {a, b} : P(x)
  BY SMT
<1>2. /\ Max({a, b}) \in {a, b}
      /\ P(Max({a, b}))
  BY <1>1 DEF Max
<1> QED
  BY <1>2, SMT

\* An answer has at least one page.
LEMMA SomePage ==
  ASSUME NEW total \in Nat, NEW limit \in Nat \ {0}
  PROVE  PagesOf(total, limit) \in Nat \ {0}
BY SMT DEF PagesOf

(***************************************************************************)
(* The state keeps its type                                                *)
(***************************************************************************)
\* What the tab may show is made of table rows.
LEMMA RowsTyped ==
  ASSUME TypeOK
  PROVE  /\ Rows \subseteq TableRows
         /\ \A sel : Slice(sel) \subseteq TableRows
<1>1. Rows \subseteq TableRows
  BY DEF TypeOK, Rows, Filtered, Tables
<1>2. ASSUME NEW sel PROVE Slice(sel) \subseteq TableRows
  BY DEF Slice, Present, TableRows
<1> QED
  BY <1>1, <1>2

LEMMA PresentFinite == Cardinality(Present) \in Nat
<1>1. IsFiniteSet(Ids)
  BY DeskBounds, FS_Interval DEF Ids
<1>2. IsFiniteSet(Present)
  BY <1>1, FS_Subset DEF Present
<1> QED
  BY <1>2, FS_CardinalityType

\* The records a refetch adds.
LEMMA RefetchTyped ==
  ASSUME NEW n \in Nat, NEW sel \in Selections
  PROVE  /\ Refetch(n, sel) \subseteq Reads
         /\ TableRead(n, sel) \in Reads
         /\ Keys(Refetch(n, sel)) \subseteq {"table", "parents"} \X {n}
<1>1. TableRead(n, sel) \in Reads
  BY DEF TableRead, Reads
<1>2. ParentsRead(n, sel) \in Reads
  BY DEF TableRead, ParentsRead, Reads
<1>3. TableRead(n, sel).n = n /\ TableRead(n, sel).of = "table"
  BY DEF TableRead
<1>4. ParentsRead(n, sel).n = n /\ ParentsRead(n, sel).of = "parents"
  BY DEF TableRead, ParentsRead
<1>5. Refetch(n, sel) \subseteq {TableRead(n, sel), ParentsRead(n, sel)}
  BY DEF Refetch
<1>6. \A r \in Refetch(n, sel) : r.n = n /\ r.of \in {"table", "parents"}
  BY <1>3, <1>4, <1>5
<1> QED
  BY <1>1, <1>2, <1>5, <1>6 DEF Keys

LEMMA FetchTyped ==
  ASSUME table \in Tables
  PROVE  /\ Fetching(table) \in Tables
         /\ Fetching(table).sent = table.sent + 1
         /\ Fetching(table).applied = table.applied
         /\ Fetching(table).asof = table.asof
<1>1. table.sent + 1 \in Nat
  BY DEF Tables
<1> QED
  BY <1>1 DEF Fetching, Tables

LEMMA ViewTyped ==
  ASSUME NEW v \in Views
  PROVE  ApiParams(v) \in Selections
BY DEF Views, ApiParams, Selections

LEMMA FlagsTyped ==
  ASSUME TypeOK
  PROVE  /\ \A n \in Nat, op \in Ops, id \in Ids \cup {0} : Raised(n, op, id) \in Flags
         /\ \A j : Cleared(j) \in Flags
         /\ \A b \in Flags : \A rows : Mounted(b, rows) \in Flags
<1>1. ASSUME NEW n \in Nat, NEW op \in Ops, NEW id \in Ids \cup {0} PROVE Raised(n, op, id) \in Flags
  BY DEF TypeOK, Raised, Flags
<1>2. ASSUME NEW j PROVE Cleared(j) \in Flags
  BY DEF TypeOK, Cleared, Flags
<1>3. ASSUME NEW b \in Flags, NEW rows PROVE Mounted(b, rows) \in Flags
  BY DEF Mounted, Flags
<1> QED
  BY <1>1, <1>2, <1>3

LEMMA InitTyped == Init => TypeOK
<1> SUFFICES ASSUME Init PROVE TypeOK
  OBVIOUS
<1> USE DEF Init
<1>1. items \in [Ids -> ItemStates]
  BY DEF ItemStates
<1>2. view \in Views
  BY DeskBounds DEF Views, Filters
<1>3. table \in Tables /\ table.sent = 1
  <2> DEFINE empty == [rows |-> {}, total |-> 0, pages |-> 1, loading |-> TRUE,
                       asof |-> 0, sent |-> 0, applied |-> 0]
  <2>1. empty \in Tables /\ empty.sent = 0
    BY DEF Tables
  <2>2. table = [empty EXCEPT !.loading = TRUE, !.sent = 1]
    BY <2>1 DEF FreshTable, Fetching
  <2> QED
    BY <2>1, <2>2 DEF Tables
<1>4. reads \subseteq Reads
  BY <1>2, ViewTyped, RefetchTyped
<1>5. overlay \in Overlays /\ busy \in Flags
  BY DEF Closed, Overlays, Idle, Flags
<1>6. left \in [submissions : Nat, turns : Nat]
  BY DeskBounds
<1> QED
  BY <1>1, <1>2, <1>3, <1>4, <1>5, <1>6 DEF TypeOK

LEMMA SubmitTyped ==
  ASSUME TypeOK, NEW op \in Ops, NEW id \in Ids \cup {0}, NEW status \in {"open", "done", "gone"},
         Submit(op, id, status)
  PROVE  TypeOK'
<1> USE DEF TypeOK
<1>1. left.submissions \in Nat /\ left.submissions - 1 \in Nat
  BY DEF Submit
<1>2. jobs' \subseteq Jobs
  <2>1. ApiParams(view) \in Selections
    BY ViewTyped
  <2>2. [n |-> left.submissions, op |-> op, id |-> id, status |-> status, sel |-> ApiParams(view),
         stage |-> "sent", wrote |-> 0, waits |-> {}] \in Jobs
    BY <1>1, <2>1 DEF Jobs
  <2> QED
    BY <2>2 DEF Submit
<1>3. busy' \in Flags
  BY <1>1, FlagsTyped DEF Submit
<1>4. left' \in [submissions : Nat, turns : Nat]
  BY <1>1 DEF Submit
<1> QED
  BY <1>2, <1>3, <1>4 DEF Submit

\* What the user opens, closes and starts.
LEMMA UserTyped ==
  ASSUME TypeOK, User, ~(SetPage \/ SetLimit \/ SetFilter)
  PROVE  TypeOK'
<1> USE DEF TypeOK
<1>0. \A r \in Rows : r.id \in Ids
  BY RowsTyped DEF TableRows
<1>s. overlay.id \in Ids \cup {0}
  BY DEF Overlays
<1>1. CASE OpenCreate
  BY <1>1 DEF OpenCreate, Overlays
<1>2. CASE OpenEdit
  BY <1>0, <1>2 DEF OpenEdit, Overlays
<1>3. CASE OpenDialog
  BY <1>0, <1>3, PageShape DEF OpenDialog, Overlays
<1>4. CASE CloseDialog
  BY <1>4 DEF CloseDialog, Closed, Overlays
<1>5. CASE Save
  BY <1>5, <1>s, PageShape, SubmitTyped DEF Save, Ops
<1>6. CASE CreateInline
  BY <1>6, SubmitTyped DEF CreateInline, Ops
<1>7. CASE Confirm
  BY <1>7, <1>s, PageShape, SubmitTyped DEF Confirm, Ops
<1>8. CASE SubmitUpdate
  BY <1>8, <1>s, SubmitTyped DEF SubmitUpdate, Ops
<1>9. CASE DeleteAtOnce
  BY <1>9, <1>0, SubmitTyped DEF DeleteAtOnce, Ops
<1>10. CASE Resend
  BY <1>10, <1>0, SubmitTyped DEF Resend, Ops
<1>11. CASE Test
  BY <1>11, <1>s, SubmitTyped DEF Test, Ops
<1> QED
  BY <1>1, <1>2, <1>3, <1>4, <1>5, <1>6, <1>7, <1>8, <1>9, <1>10, <1>11 DEF User

\* The controls under the table.
LEMMA TurnTyped ==
  ASSUME TypeOK, SetPage \/ SetLimit \/ SetFilter
  PROVE  TypeOK'
<1> USE DEF TypeOK
<1>1. ASSUME NEW v \in Views, Turn(v) PROVE left' \in [submissions : Nat, turns : Nat] /\ view' \in Views
  <2>1. left.turns - 1 \in Nat
    BY <1>1 DEF Turn
  <2> QED
    BY <1>1, <2>1 DEF Turn
<1>2. ASSUME NEW v \in Views, TurnTo(v) PROVE TypeOK'
  <2>1. Turn(v)
    BY <1>2 DEF TurnTo
  <2>2. table' \in Tables /\ table'.sent \in Nat
    BY <1>2, FetchTyped DEF TurnTo, Tables
  <2>3. reads' \subseteq Reads
    BY <1>2, <2>2, ViewTyped, RefetchTyped DEF TurnTo
  <2> QED
    BY <1>1, <1>2, <2>1, <2>2, <2>3 DEF Turn, TurnTo
<1>3. CASE SetPage
  <2>1. \A p \in PageButtons : [view EXCEPT !.page = p] \in Views
    BY DEF PageButtons, Views, Tables
  <2> QED
    BY <1>2, <1>3, <2>1 DEF SetPage
<1>4. CASE SetLimit
  <2>1. ASSUME NEW l \in Limits PROVE [view EXCEPT !.page = 1, !.limit = l] \in Views
    <3> DEFINE first == [view EXCEPT !.page = 1]
    <3>1. first \in Views
      BY DEF Views
    <3>2. [first EXCEPT !.limit = l] \in Views
      BY <3>1 DEF Views
    <3> QED
      BY <3>2
  <2> QED
    BY <1>2, <1>4, <2>1 DEF SetLimit
<1>5. CASE SetFilter
  <2>1. \A f \in Filters : [view EXCEPT !.filter = f] \in Views
    BY DEF Views
  <2> QED
    BY <1>1, <1>5, <2>1, FlagsTyped DEF SetFilter, Turn
<1> QED
  BY <1>3, <1>4, <1>5

LEMMA WriteTyped ==
  ASSUME TypeOK, NEW i, NEW status \in ItemStates, Write(i, status)
  PROVE  items' \in [Ids -> ItemStates] /\ writes' = writes + 1
BY DEF TypeOK, Write

LEMMA BecomesTyped ==
  ASSUME TypeOK, NEW j \in jobs, NEW stage \in {"done", "failed"}, NEW wrote \in Nat,
         Becomes(j, stage, wrote)
  PROVE  jobs' \subseteq Jobs
<1>1. [j EXCEPT !.stage = stage, !.wrote = wrote] \in Jobs
  BY DEF TypeOK, Jobs
<1> QED
  BY <1>1 DEF TypeOK, Becomes

LEMMA ServeTyped ==
  ASSUME TypeOK, NEW j \in jobs, Serve(j)
  PROVE  TypeOK'
<1> USE DEF TypeOK
<1>1. j.status \in ItemStates /\ "gone" \in ItemStates
  BY DEF Jobs, ItemStates
<1>2. items' \in [Ids -> ItemStates] /\ writes' \in Nat
  <2>1. CASE j.op = "test"
    BY <2>1 DEF Serve
  <2>2. CASE j.op # "test"
    BY <1>1, <2>2, WriteTyped DEF Serve
  <2> QED
    BY <2>1, <2>2
<1>3. jobs' \subseteq Jobs
  BY <1>2, BecomesTyped DEF Serve
<1> QED
  BY <1>2, <1>3 DEF Serve

LEMMA FindTyped ==
  ASSUME TypeOK, NEW r \in reads, Find(r)
  PROVE  TypeOK'
<1> DEFINE found == [r EXCEPT !.step = "answer", !.total = Cardinality(Present),
                              !.rows = Slice(r.sel), !.asof = writes]
<1>1. Slice(r.sel) \subseteq TableRows
  BY RowsTyped
<1>2. found \in Reads
  BY <1>1, PresentFinite DEF TypeOK, Reads
<1>3. reads' = (reads \ {r}) \cup {found}
  BY DEF Find
<1> QED
  BY <1>2, <1>3 DEF TypeOK, Find

LEMMA NetworkTyped ==
  ASSUME TypeOK, Network \/ Others
  PROVE  TypeOK'
<1> USE DEF TypeOK
<1>1. ASSUME left.turns > 0, left' = [left EXCEPT !.turns = @ - 1]
      PROVE  left' \in [submissions : Nat, turns : Nat]
  <2>1. left.turns - 1 \in Nat
    BY <1>1
  <2> QED
    BY <1>1, <2>1
<1>2. ASSUME NEW j \in jobs, LoseJob(j) PROVE TypeOK'
  <2>1. j.wrote \in Nat
    BY DEF Jobs
  <2> QED
    BY <1>1, <1>2, <2>1, BecomesTyped DEF LoseJob
<1>3. ASSUME NEW r \in reads, LoseRead(r) PROVE TypeOK'
  <2>1. [r EXCEPT !.step = "answer", !.ok = FALSE] \in Reads
    BY DEF Reads
  <2> QED
    BY <1>1, <1>3, <2>1 DEF LoseRead
<1>4. CASE Others
  BY <1>1, <1>4, WriteTyped DEF Others, ItemStates
<1> QED
  BY <1>2, <1>3, <1>4 DEF Network

LEMMA ClosingTyped ==
  ASSUME TypeOK
  PROVE  /\ \A j : ClosedByAnswer(j) \in Overlays
         /\ \A j, rows : OverRows(ClosedByEnd(j), rows) \in Overlays
         /\ \A rows : OverRows(overlay, rows) \in Overlays
BY DEF TypeOK, ClosedByAnswer, ClosedByEnd, OverRows, Closed, Overlays

LEMMA ResumeTyped ==
  ASSUME TypeOK, NEW j \in jobs, Resume(j)
  PROVE  TypeOK'
<1> USE DEF TypeOK
<1>1. acked' \in Nat
  BY MaxOfTwo DEF Resume, Jobs
<1>2. overlay' \in Overlays
  BY ClosingTyped DEF Resume
<1>3. CASE ~Rereads(j.op)
  BY <1>1, <1>2, <1>3, FlagsTyped DEF Resume, Finished
<1>4. CASE Rereads(j.op)
  <2>1. table' \in Tables /\ table'.sent \in Nat
    BY <1>4, FetchTyped DEF Resume, Tables
  <2>2. j.sel \in Selections
    BY DEF Jobs
  <2>3. reads' \subseteq Reads
    BY <1>4, <2>1, <2>2, RefetchTyped DEF Resume
  <2>4. Keys(Refetch(table'.sent, j.sel)) \subseteq {"table", "parents"} \X Nat
    BY <2>1, <2>2, RefetchTyped
  <2>5. [j EXCEPT !.stage = "updates"] \in Jobs
    BY DEF Jobs
  <2>6. [j EXCEPT !.stage = "refetch", !.waits = Keys(Refetch(table'.sent, j.sel))] \in Jobs
    BY <2>4 DEF Jobs
  <2>7. jobs' \subseteq Jobs
    BY <1>4, <2>5, <2>6 DEF Resume
  <2> QED
    BY <1>1, <1>2, <1>4, <2>1, <2>3, <2>7 DEF Resume
<1> QED
  BY <1>3, <1>4

LEMMA AppliedTyped ==
  ASSUME TypeOK, NEW r \in reads
  PROVE  /\ Applied(r) \in Tables
         /\ Applied(r).sent = table.sent
<1>1. PagesOf(r.total, r.sel.limit) \in Nat \ {0}
  BY DeskBounds, SomePage DEF TypeOK, Reads, Selections
<1> QED
  BY <1>1 DEF TypeOK, Applied, Tables, Reads

LEMMA AnswerTyped ==
  ASSUME TypeOK, NEW r \in reads, AnswerRead(r)
  PROVE  TypeOK'
<1> USE DEF TypeOK
<1>1. table' \in Tables
  BY AppliedTyped DEF AnswerRead
<1>2. parents' \in BOOLEAN
  BY DEF AnswerRead, Reads
<1>3. busy' \in Flags /\ overlay' \in Overlays
  BY FlagsTyped, ClosingTyped DEF AnswerRead
<1>4. jobs' \subseteq Jobs
  <2>1. \A j \in jobs : [j EXCEPT !.waits = @ \ {<<r.of, r.n>>}] \in Jobs
    BY DEF Jobs
  <2> QED
    BY <2>1 DEF AnswerRead
<1> QED
  BY <1>1, <1>2, <1>3, <1>4 DEF AnswerRead

LEMMA TypeStep == TypeOK /\ [Next]_vars => TypeOK'
<1> SUFFICES ASSUME TypeOK, [Next]_vars PROVE TypeOK'
  OBVIOUS
<1>1. CASE User
  BY <1>1, UserTyped, TurnTyped
<1>2. CASE Network \/ Others
  BY <1>2, NetworkTyped
<1>3. ASSUME NEW j \in jobs, Serve(j) PROVE TypeOK'
  BY <1>3, ServeTyped
<1>4. ASSUME NEW j \in jobs, Refuse(j) PROVE TypeOK'
  BY <1>4, BecomesTyped DEF Refuse, TypeOK
<1>5. ASSUME NEW r \in reads, Find(r) PROVE TypeOK'
  BY <1>5, FindTyped
<1>6. ASSUME NEW j \in jobs, Resume(j) PROVE TypeOK'
  BY <1>6, ResumeTyped
<1>7. ASSUME NEW j \in jobs, Fail(j) \/ UpdatesRead(j) PROVE TypeOK'
  BY <1>7, FlagsTyped DEF Fail, UpdatesRead, Finished, TypeOK
<1>8. ASSUME NEW r \in reads, AnswerRead(r) PROVE TypeOK'
  BY <1>8, AnswerTyped
<1>9. CASE UNCHANGED vars
  BY <1>9 DEF vars, TypeOK
<1> QED
  BY <1>1, <1>2, <1>3, <1>4, <1>5, <1>6, <1>7, <1>8, <1>9 DEF Next, Server, Tab

\* The state of every page keeps its type.
THEOREM TypeCorrect == Spec => []TypeOK
BY InitTyped, TypeStep, PTL DEF Spec

(***************************************************************************)
(* A table read last shows what the tab wrote                              *)
(***************************************************************************)
\* Requests are numbered up to the newest and writes up to the latest; a
\* test writes nothing.
Counted ==
  /\ table.applied <= table.sent
  /\ acked <= writes
  /\ \A j \in jobs : j.wrote <= writes /\ (j.op = "test" => j.wrote = 0)
  /\ \A r \in reads : r.n <= table.sent

\* An answer to the newest request is as new as the acknowledged writes: it
\* was found after the handler that asked for it heard of its write.
ReadAfterWrite ==
  \A r \in reads : r.of = "table" /\ r.n = table.sent /\ r.step = "answer" /\ r.ok => r.asof >= acked

ListedInv == TypeOK /\ Counted /\ ReadAfterWrite /\ OwnWritesListed

\* The records of a refetch are the newest, and none of the table answers yet.
LEMMA RefetchAsks ==
  ASSUME NEW n, NEW sel
  PROVE  \A r \in Refetch(n, sel) : r.n = n /\ (r.of = "table" => r.step = "asked")
<1>1. TableRead(n, sel).n = n /\ TableRead(n, sel).step = "asked"
  BY DEF TableRead
<1>2. ParentsRead(n, sel).n = n /\ ParentsRead(n, sel).of = "parents"
  BY DEF TableRead, ParentsRead
<1>3. Refetch(n, sel) \subseteq {TableRead(n, sel), ParentsRead(n, sel)}
  BY DEF Refetch
<1> QED
  BY <1>1, <1>2, <1>3

LEMMA ListedInit == Init => ListedInv
<1> SUFFICES ASSUME Init PROVE ListedInv
  OBVIOUS
<1>1. TypeOK
  BY InitTyped
<1>2. table.sent = 1 /\ table.applied = 0
  <2> DEFINE empty == [rows |-> {}, total |-> 0, pages |-> 1, loading |-> TRUE,
                       asof |-> 0, sent |-> 0, applied |-> 0]
  <2>1. table = [empty EXCEPT !.loading = TRUE, !.sent = @ + 1]
    BY DEF Init, FreshTable, Fetching
  <2> QED
    BY <2>1
<1>3. Counted
  BY <1>2, RefetchAsks DEF Init, Counted
<1>4. ReadAfterWrite
  BY <1>2, RefetchAsks DEF Init, ReadAfterWrite
<1>5. OwnWritesListed
  BY <1>2 DEF OwnWritesListed
<1> QED
  BY <1>1, <1>3, <1>4, <1>5 DEF ListedInv

\* What neither reads nor writes keeps the invariant.
LEMMA ListedAside ==
  ASSUME ListedInv, TypeOK', UNCHANGED <<writes, table, reads, acked>>,
         \A j \in jobs' : j.wrote <= writes /\ (j.op = "test" => j.wrote = 0)
  PROVE  ListedInv'
BY DEF ListedInv, Counted, ReadAfterWrite, OwnWritesListed

LEMMA ListedSubmit ==
  ASSUME ListedInv, TypeOK', NEW op, NEW id, NEW status, Submit(op, id, status)
  PROVE  ListedInv'
<1>1. \A j \in jobs' : j.wrote <= writes /\ (j.op = "test" => j.wrote = 0)
  BY DEF Submit, ListedInv, Counted, TypeOK
<1> QED
  BY <1>1, ListedAside DEF Submit

LEMMA ListedTurn ==
  ASSUME ListedInv, TypeOK', NEW v, TurnTo(v)
  PROVE  ListedInv'
<1>1. table' = Fetching(table) /\ reads' = reads \cup {TableRead(table'.sent, ApiParams(v))}
  BY DEF TurnTo
<1>2. table'.sent = table.sent + 1 /\ table'.applied = table.applied /\ table'.asof = table.asof
  BY <1>1, FetchTyped DEF ListedInv, TypeOK
<1>3. TableRead(table'.sent, ApiParams(v)).n = table'.sent
      /\ TableRead(table'.sent, ApiParams(v)).step = "asked"
  BY DEF TableRead
<1>4. UNCHANGED <<writes, acked, jobs>>
  BY DEF TurnTo, Turn
<1>5. table.sent \in Nat /\ table.applied \in Nat /\ \A r \in reads : r.n \in Nat
  BY DEF ListedInv, TypeOK, Tables, Reads
<1> QED
  BY <1>1, <1>2, <1>3, <1>4, <1>5 DEF ListedInv, Counted, ReadAfterWrite, OwnWritesListed

LEMMA ListedUser ==
  ASSUME ListedInv, TypeOK', User
  PROVE  ListedInv'
<1> USE ListedSubmit, ListedAside
<1>0. \A j \in jobs : j.wrote <= writes /\ (j.op = "test" => j.wrote = 0)
  BY DEF ListedInv, Counted
<1>1. CASE OpenCreate \/ OpenEdit \/ OpenDialog \/ CloseDialog
  BY <1>0, <1>1 DEF OpenCreate, OpenEdit, OpenDialog, CloseDialog
<1>2. CASE Save \/ CreateInline \/ Confirm \/ SubmitUpdate
  BY <1>2 DEF Save, CreateInline, Confirm, SubmitUpdate
<1>3. CASE DeleteAtOnce \/ Resend \/ Test
  BY <1>3 DEF DeleteAtOnce, Resend, Test
<1>4. CASE SetPage \/ SetLimit
  BY <1>4, ListedTurn DEF SetPage, SetLimit
<1>5. CASE SetFilter
  BY <1>0, <1>5 DEF SetFilter, Turn
<1> QED
  BY <1>1, <1>2, <1>3, <1>4, <1>5 DEF User

LEMMA ListedServe ==
  ASSUME ListedInv, TypeOK', NEW j \in jobs, Serve(j)
  PROVE  ListedInv'
<1>1. writes \in Nat /\ (IF j.op = "test" THEN writes' = writes ELSE writes' = writes + 1)
  BY DEF ListedInv, TypeOK, Serve, Write
<1> DEFINE wrote == IF j.op = "test" THEN 0 ELSE writes'
           served == [j EXCEPT !.stage = "done", !.wrote = wrote]
<1>2. \A i : i = served => i.wrote = wrote /\ i.op = j.op
  BY DEF ListedInv, TypeOK, Jobs
<1>3. jobs' = (jobs \ {j}) \cup {served}
  BY DEF Serve, Becomes
<1>4. \A i \in jobs : i.wrote \in Nat
  BY DEF ListedInv, TypeOK, Jobs
<1>5. \A i \in jobs' : i.wrote <= writes' /\ (i.op = "test" => i.wrote = 0)
  BY <1>1, <1>2, <1>3, <1>4 DEF ListedInv, Counted
<1>6. UNCHANGED <<table, reads, acked>> /\ acked \in Nat
  BY DEF Serve, ListedInv, TypeOK
<1> QED
  BY <1>1, <1>5, <1>6 DEF ListedInv, Counted, ReadAfterWrite, OwnWritesListed

LEMMA ListedBecomes ==
  ASSUME ListedInv, TypeOK', NEW j \in jobs, NEW wrote \in {0, j.wrote}, Becomes(j, "failed", wrote),
         UNCHANGED <<writes, table, reads, acked>>
  PROVE  ListedInv'
<1>1. \A i : i = [j EXCEPT !.stage = "failed", !.wrote = wrote] => i.wrote = wrote /\ i.op = j.op
  BY DEF ListedInv, TypeOK, Jobs
<1>2. \A i \in jobs' : i.wrote <= writes /\ (i.op = "test" => i.wrote = 0)
  BY <1>1 DEF Becomes, ListedInv, Counted, TypeOK
<1> QED
  BY <1>2, ListedAside

LEMMA ListedOthers ==
  ASSUME ListedInv, TypeOK', Others
  PROVE  ListedInv'
<1>1. writes' = writes + 1 /\ UNCHANGED <<table, jobs, reads, acked>>
  BY DEF Others, Write
<1>2. writes \in Nat /\ acked \in Nat /\ \A j \in jobs : j.wrote \in Nat
  BY DEF ListedInv, TypeOK, Jobs
<1> QED
  BY <1>1, <1>2 DEF ListedInv, Counted, ReadAfterWrite, OwnWritesListed

\* The server reads the collection as it stands: every acknowledged write is
\* in it.
LEMMA ListedFind ==
  ASSUME ListedInv, TypeOK', NEW r \in reads, Find(r) \/ LoseRead(r)
  PROVE  ListedInv'
<1>1. UNCHANGED <<writes, table, jobs, acked>>
  BY DEF Find, LoseRead
<1>2. CASE Find(r)
  <2> DEFINE found == [r EXCEPT !.step = "answer", !.total = Cardinality(Present),
                                !.rows = Slice(r.sel), !.asof = writes]
  <2>1. found.asof = writes /\ found.n = r.n
    BY DEF ListedInv, TypeOK, Reads
  <2>2. reads' = (reads \ {r}) \cup {found}
    BY <1>2 DEF Find
  <2> QED
    BY <1>1, <2>1, <2>2 DEF ListedInv, Counted, ReadAfterWrite, OwnWritesListed
<1>3. CASE LoseRead(r)
  <2> DEFINE lost == [r EXCEPT !.step = "answer", !.ok = FALSE]
  <2>1. ~lost.ok /\ lost.n = r.n
    BY DEF ListedInv, TypeOK, Reads
  <2>2. reads' = (reads \ {r}) \cup {lost}
    BY <1>3 DEF LoseRead
  <2> QED
    BY <1>1, <2>1, <2>2 DEF ListedInv, Counted, ReadAfterWrite, OwnWritesListed
<1> QED
  BY <1>2, <1>3

LEMMA ListedResume ==
  ASSUME ListedInv, TypeOK', NEW j \in jobs, Resume(j)
  PROVE  ListedInv'
<1>1. j.wrote \in Nat /\ acked \in Nat /\ writes \in Nat /\ j.op \in Ops
  BY DEF ListedInv, TypeOK, Jobs
<1>2. acked' = IF acked >= j.wrote THEN acked ELSE j.wrote
  BY <1>1, MaxOfTwo DEF Resume
<1>3. writes' = writes /\ acked' <= writes
  BY <1>1, <1>2 DEF Resume, ListedInv, Counted
<1>4. CASE ~Rereads(j.op)
  <2>1. acked' = acked
    BY <1>1, <1>2, <1>4 DEF Rereads, ListedInv, Counted
  <2>2. jobs' \subseteq jobs /\ UNCHANGED <<table, reads>>
    BY <1>4 DEF Resume, Finished
  <2> QED
    BY <1>3, <2>1, <2>2, ListedAside DEF ListedInv, Counted
<1>5. CASE Rereads(j.op)
  <2>1. table' = Fetching(table) /\ reads' = reads \cup Refetch(table'.sent, j.sel)
    BY <1>5 DEF Resume
  <2>2. table'.sent = table.sent + 1 /\ table'.applied = table.applied /\ table'.asof = table.asof
    BY <2>1, FetchTyped DEF ListedInv, TypeOK
  <2>3. table.sent \in Nat /\ table.applied \in Nat /\ \A r \in reads : r.n \in Nat
    BY DEF ListedInv, TypeOK, Tables, Reads
  <2>4. \A r \in reads' : /\ r.n <= table'.sent
                          /\ r.of = "table" /\ r.n = table'.sent => r.step = "asked"
    BY <2>1, <2>2, <2>3, RefetchAsks DEF ListedInv, Counted
  <2>5. \A i : i = [j EXCEPT !.stage = "updates"] => i.wrote = j.wrote /\ i.op = j.op
    BY DEF ListedInv, TypeOK, Jobs
  <2>6. \A i, ks : i = [j EXCEPT !.stage = "refetch", !.waits = ks] => i.wrote = j.wrote /\ i.op = j.op
    BY DEF ListedInv, TypeOK, Jobs
  <2>7. \A i \in jobs' : i.wrote <= writes /\ (i.op = "test" => i.wrote = 0)
    BY <1>5, <2>5, <2>6 DEF Resume, ListedInv, Counted
  <2>8. Counted'
    BY <1>3, <2>2, <2>3, <2>4, <2>7 DEF Counted, ListedInv
  <2>9. ReadAfterWrite'
    BY <2>4 DEF ReadAfterWrite
  <2>10. OwnWritesListed'
    BY <2>2, <2>3 DEF OwnWritesListed, ListedInv, Counted
  <2> QED
    BY <2>8, <2>9, <2>10 DEF ListedInv
<1> QED
  BY <1>4, <1>5

LEMMA ListedAnswer ==
  ASSUME ListedInv, TypeOK', NEW r \in reads, AnswerRead(r)
  PROVE  ListedInv'
<1>1. table' = Applied(r) /\ reads' = reads \ {r} /\ r.step = "answer" /\ UNCHANGED <<writes, acked>>
  BY DEF AnswerRead
<1>2. table'.sent = table.sent
  BY <1>1, AppliedTyped DEF ListedInv
<1>3. \/ table'.applied = table.applied /\ table'.asof = table.asof
      \/ r.of # "parents" /\ r.ok /\ table'.applied = r.n /\ table'.asof = r.asof
  BY <1>1 DEF Applied, ListedInv, TypeOK, Tables
<1>4. r.of \in {"table", "parents"} /\ r.ok \in BOOLEAN
  BY DEF ListedInv, TypeOK, Reads
<1>5. \A i \in jobs' : i.wrote <= writes /\ (i.op = "test" => i.wrote = 0)
  <2>1. \A j \in jobs : \A i, ks : i = [j EXCEPT !.waits = ks] => i.wrote = j.wrote /\ i.op = j.op
    BY DEF ListedInv, TypeOK, Jobs
  <2>2. \A i \in jobs' : \E j \in jobs : i.wrote = j.wrote /\ i.op = j.op
    BY <2>1 DEF AnswerRead
  <2> QED
    BY <2>2 DEF ListedInv, Counted
<1>6. Counted'
  BY <1>1, <1>2, <1>3, <1>5 DEF ListedInv, Counted
<1>7. ReadAfterWrite'
  BY <1>1, <1>2 DEF ListedInv, ReadAfterWrite
<1>8. OwnWritesListed'
  BY <1>1, <1>2, <1>3, <1>4 DEF ListedInv, OwnWritesListed, ReadAfterWrite
<1> QED
  BY <1>6, <1>7, <1>8 DEF ListedInv

LEMMA ListedStep == ListedInv /\ [Next]_vars => ListedInv'
<1> SUFFICES ASSUME ListedInv, [Next]_vars PROVE ListedInv'
  OBVIOUS
<1>1. TypeOK'
  BY TypeStep DEF ListedInv
<1>2. CASE User
  BY <1>1, <1>2, ListedUser
<1>3. ASSUME NEW j \in jobs, Serve(j) PROVE ListedInv'
  BY <1>1, <1>3, ListedServe
<1>4. ASSUME NEW j \in jobs, Refuse(j) PROVE ListedInv'
  BY <1>1, <1>4, ListedBecomes DEF Refuse
<1>5. ASSUME NEW j \in jobs, LoseJob(j) PROVE ListedInv'
  BY <1>1, <1>5, ListedBecomes DEF LoseJob
<1>6. ASSUME NEW r \in reads, Find(r) \/ LoseRead(r) PROVE ListedInv'
  BY <1>1, <1>6, ListedFind
<1>7. ASSUME NEW j \in jobs, Resume(j) PROVE ListedInv'
  BY <1>1, <1>7, ListedResume
<1>8. ASSUME NEW j \in jobs, Fail(j) \/ UpdatesRead(j) PROVE ListedInv'
  <2>1. jobs' \subseteq jobs /\ UNCHANGED <<writes, table, reads, acked>>
    BY <1>8 DEF Fail, UpdatesRead, Finished
  <2> QED
    BY <1>1, <2>1, ListedAside DEF ListedInv, Counted
<1>9. ASSUME NEW r \in reads, AnswerRead(r) PROVE ListedInv'
  BY <1>1, <1>9, ListedAnswer
<1>10. CASE Others
  BY <1>1, <1>10, ListedOthers
<1>11. CASE UNCHANGED vars
  BY <1>1, <1>11, ListedAside DEF vars, ListedInv, Counted
<1> QED
  BY <1>2, <1>3, <1>4, <1>5, <1>6, <1>7, <1>8, <1>9, <1>10, <1>11 DEF Next, Server, Tab, Network

\* However answers overtake each other, once the newest list request of the
\* page is answered the table is at least as new as every write of the tab
\* the server acknowledged.
THEOREM OwnWritesAppear == Spec => []OwnWritesListed
<1>1. ListedInv => OwnWritesListed
  BY DEF ListedInv
<1> QED
  BY <1>1, ListedInit, ListedStep, PTL DEF Spec

(***************************************************************************)
(* The saving flag has one owner                                           *)
(***************************************************************************)
Owns(j) == FlagOf(j.op) = "saving"

\* The flag is up exactly while a handler owns it, and one handler at most
\* does.
OneOwner ==
  /\ \A j \in jobs : Owns(j) => busy.saving
  /\ busy.saving => \E j \in jobs : Owns(j)
  /\ \A i, j \in jobs : Owns(i) /\ Owns(j) => i = j

\* A handler waits for requests that were sent, and no two for the same one:
\* an answer ends one handler, whose flag it clears.
WaitsAreOwn ==
  /\ \A j \in jobs : \A k \in j.waits : k[2] <= table.sent
  /\ \A i, j \in jobs : i.waits \cap j.waits # {} => i = j

SavingInv == TypeOK /\ OneOwner /\ WaitsAreOwn

LEMMA SavingFlags ==
  ASSUME TypeOK
  PROVE  /\ \A n, op, id : Raised(n, op, id).saving = (busy.saving \/ FlagOf(op) = "saving")
         /\ \A j : Cleared(j).saving = (busy.saving /\ ~Owns(j))
         /\ \A b \in Flags : \A rows : Mounted(b, rows).saving = b.saving
<1>1. ASSUME NEW n, NEW op, NEW id
      PROVE  Raised(n, op, id).saving = (busy.saving \/ FlagOf(op) = "saving")
  BY DEF TypeOK, Raised, Flags
<1>2. ASSUME NEW j PROVE Cleared(j).saving = (busy.saving /\ ~Owns(j))
  BY DEF TypeOK, Cleared, Owns, Flags
<1>3. ASSUME NEW b \in Flags, NEW rows PROVE Mounted(b, rows).saving = b.saving
  BY DEF Mounted, Flags
<1> QED
  BY <1>1, <1>2, <1>3

\* One owner is none or exactly one.
LEMMA OwnersCounted == SavingInv => SavingTells
<1> SUFFICES ASSUME SavingInv PROVE SavingTells
  OBVIOUS
<1> DEFINE owners == {j \in jobs : FlagOf(j.op) = "saving"}
<1>1. busy.saving = (owners # {})
  BY DEF SavingInv, OneOwner, Owns, TypeOK, Flags
<1>2. owners = {} \/ \E j : owners = {j}
  BY DEF SavingInv, OneOwner, Owns
<1>3. Cardinality(owners) <= 1
  <2> HIDE DEF owners
  <2>1. CASE owners = {}
    BY <2>1, FS_EmptySet
  <2>2. CASE \E j : owners = {j}
    BY <2>2, FS_Singleton
  <2> QED
    BY <1>2, <2>1, <2>2
<1> QED
  BY <1>1, <1>3 DEF SavingTells

LEMMA SavingInit == Init => SavingInv
BY InitTyped DEF Init, SavingInv, OneOwner, WaitsAreOwn, Idle

\* What changes no handler's operation or waiting, no table and no saving
\* flag keeps the invariant.
LEMMA SavingAside ==
  ASSUME SavingInv, TypeOK', at' = at, busy'.saving = busy.saving, table'.sent = table.sent, jobs' = jobs
  PROVE  SavingInv'
<1>1. OneOwner'
  BY DEF SavingInv, OneOwner, Owns, FlagOf
<1>2. WaitsAreOwn'
  BY DEF SavingInv, WaitsAreOwn
<1> QED
  BY <1>1, <1>2 DEF SavingInv

LEMMA SavingSubmit ==
  ASSUME SavingInv, TypeOK', NEW op \in Ops, NEW id, NEW status, Submit(op, id, status),
         FlagOf(op) = "saving" => ~busy.saving
  PROVE  SavingInv'
<1> DEFINE started == [n |-> left.submissions, op |-> op, id |-> id, status |-> status,
                       sel |-> ApiParams(view), stage |-> "sent", wrote |-> 0, waits |-> {}]
<1>1. jobs' = jobs \cup {started} /\ UNCHANGED <<at, table>>
  BY DEF Submit
<1>2. busy'.saving = (busy.saving \/ FlagOf(op) = "saving")
  BY SavingFlags DEF Submit, SavingInv
<1>3. \A j : j = started => (Owns(j) <=> FlagOf(op) = "saving") /\ j.waits = {}
  BY DEF Owns
<1>4. busy.saving \in BOOLEAN
  BY DEF SavingInv, TypeOK, Flags
<1>5. OneOwner'
  <2>1. \A j \in jobs' : Owns(j) => busy'.saving
    BY <1>1, <1>2, <1>3 DEF SavingInv, OneOwner
  <2>2. busy'.saving => \E j \in jobs' : Owns(j)
    BY <1>1, <1>2, <1>3, <1>4 DEF SavingInv, OneOwner
  <2>3. \A i, j \in jobs' : Owns(i) /\ Owns(j) => i = j
    BY <1>1, <1>3, <1>4 DEF SavingInv, OneOwner
  <2> QED
    BY <1>1, <2>1, <2>2, <2>3 DEF OneOwner, Owns, FlagOf
<1>6. WaitsAreOwn'
  BY <1>1, <1>3 DEF SavingInv, WaitsAreOwn
<1> QED
  BY <1>5, <1>6 DEF SavingInv

LEMMA SavingUser ==
  ASSUME SavingInv, TypeOK', User
  PROVE  SavingInv'
<1>0. at \in Pages /\ busy \in Flags /\ TypeOK /\ busy.saving \in BOOLEAN
  BY DEF SavingInv, TypeOK, Flags
<1>1. CASE OpenCreate \/ OpenEdit \/ OpenDialog \/ CloseDialog
  BY <1>1, SavingAside DEF OpenCreate, OpenEdit, OpenDialog, CloseDialog
<1>2. CASE Save
  BY <1>0, <1>2, SubmitNeedsIdle, SavingSubmit DEF Save, Ops
<1>3. CASE CreateInline
  BY <1>0, <1>3, SubmitNeedsIdle, SavingSubmit DEF CreateInline, Ops
<1>4. CASE Confirm
  BY <1>0, <1>4, PageShape, SavingSubmit DEF Confirm, Ops
<1>5. CASE SubmitUpdate
  <2>1. FlagOf("post") # "saving"
    BY <1>0, PageShape, SavingOps DEF Ops
  <2> QED
    BY <1>5, <2>1, SavingSubmit DEF SubmitUpdate, Ops
<1>6. CASE DeleteAtOnce
  <2>1. FlagOf("delete") # "saving"
    BY <1>0, <1>6, PageShape, SavingOps DEF Ops, DeleteAtOnce
  <2> QED
    BY <1>6, <2>1, SavingSubmit DEF DeleteAtOnce, Ops
<1>7. CASE Resend \/ Test
  <2>1. FlagOf("resend") # "saving" /\ FlagOf("test") # "saving"
    BY <1>0, PageShape, SavingOps DEF Ops
  <2> QED
    BY <1>7, <2>1, SavingSubmit DEF Resend, Test, Ops
<1>8. CASE SetFilter
  <2>1. busy'.saving = busy.saving
    BY <1>0, <1>8, SavingFlags DEF SetFilter
  <2> QED
    BY <1>8, <2>1, SavingAside DEF SetFilter, Turn
<1>9. ASSUME NEW v, TurnTo(v) PROVE SavingInv'
  <2>1. UNCHANGED <<at, busy, jobs>> /\ table'.sent = table.sent + 1
    BY <1>0, <1>9, FetchTyped DEF TurnTo, Turn, TypeOK
  <2>2. OneOwner'
    BY <2>1 DEF SavingInv, OneOwner, Owns, FlagOf
  <2>3. table.sent \in Nat /\ \A j \in jobs : \A k \in j.waits : k[2] \in Nat
    BY DEF SavingInv, TypeOK, Tables, Jobs
  <2>4. WaitsAreOwn'
    BY <2>1, <2>3 DEF SavingInv, WaitsAreOwn
  <2> QED
    BY <2>2, <2>4 DEF SavingInv
<1> QED
  BY <1>1, <1>2, <1>3, <1>4, <1>5, <1>6, <1>7, <1>8, <1>9 DEF User, SetPage, SetLimit

\* A handler goes from one stage to the next: another record for the same
\* handler, which waits for no more than before.
LEMMA SavingStage ==
  ASSUME SavingInv, TypeOK', NEW j \in jobs, NEW i, i.op = j.op, i.waits \subseteq j.waits,
         jobs' = (jobs \ {j}) \cup {i}, at' = at, busy'.saving = busy.saving,
         table'.sent = table.sent
  PROVE  SavingInv'
<1>1. Owns(i) <=> Owns(j)
  BY DEF Owns
<1>2. OneOwner'
  <2>1. \A k \in jobs' : Owns(k) => busy.saving
    BY <1>1 DEF SavingInv, OneOwner
  <2>2. busy.saving => \E k \in jobs' : Owns(k)
    BY <1>1 DEF SavingInv, OneOwner
  <2>3. \A k, l \in jobs' : Owns(k) /\ Owns(l) => k = l
    BY <1>1 DEF SavingInv, OneOwner
  <2> QED
    BY <2>1, <2>2, <2>3 DEF OneOwner, Owns, FlagOf
<1>3. WaitsAreOwn'
  BY DEF SavingInv, WaitsAreOwn
<1> QED
  BY <1>2, <1>3 DEF SavingInv

LEMMA SavingServer ==
  ASSUME SavingInv, TypeOK', NEW j \in jobs, Serve(j) \/ Refuse(j) \/ LoseJob(j)
  PROVE  SavingInv'
<1>1. \E stage, wrote : Becomes(j, stage, wrote) /\ UNCHANGED <<at, busy, table>>
  BY DEF Serve, Refuse, LoseJob
<1>2. PICK stage, wrote : Becomes(j, stage, wrote) /\ UNCHANGED <<at, busy, table>>
  BY <1>1
<1>3. \A i : i = [j EXCEPT !.stage = stage, !.wrote = wrote] => i.op = j.op /\ i.waits = j.waits
  BY DEF SavingInv, TypeOK, Jobs
<1> QED
  BY <1>2, <1>3, SavingStage DEF Becomes

\* A handler that returns takes its flag down.
LEMMA SavingEnd ==
  ASSUME SavingInv, TypeOK', NEW j \in jobs, Finished(j), busy'.saving = Cleared(j).saving,
         at' = at, table'.sent = table.sent
  PROVE  SavingInv'
<1>1. busy'.saving = (busy.saving /\ ~Owns(j))
  BY SavingFlags DEF SavingInv
<1>2. OneOwner'
  <2>1. \A k \in jobs' : Owns(k) => busy'.saving
    BY <1>1 DEF SavingInv, OneOwner, Finished
  <2>2. busy'.saving => \E k \in jobs' : Owns(k)
    BY <1>1 DEF SavingInv, OneOwner, Finished
  <2>3. \A k, l \in jobs' : Owns(k) /\ Owns(l) => k = l
    BY DEF SavingInv, OneOwner, Finished
  <2> QED
    BY <2>1, <2>2, <2>3 DEF OneOwner, Owns, FlagOf
<1>3. WaitsAreOwn'
  BY DEF SavingInv, WaitsAreOwn, Finished
<1> QED
  BY <1>2, <1>3 DEF SavingInv

\* The refetch of a handler gets numbers nobody waits for yet.
LEMMA SavingResume ==
  ASSUME SavingInv, TypeOK', NEW j \in jobs, Resume(j)
  PROVE  SavingInv'
<1>1. CASE ~Rereads(j.op)
  BY <1>1, SavingEnd DEF Resume
<1>2. CASE Rereads(j.op)
  <2>1. UNCHANGED <<at, busy>> /\ table' = Fetching(table)
    BY <1>2 DEF Resume
  <2>2. table'.sent = table.sent + 1 /\ table.sent \in Nat /\ table'.sent \in Nat
    BY <2>1, FetchTyped DEF SavingInv, TypeOK, Tables
  <2>3. j.sel \in Selections
    BY DEF SavingInv, TypeOK, Jobs
  <2>4. Keys(Refetch(table'.sent, j.sel)) \subseteq {"table", "parents"} \X {table'.sent}
    BY <2>2, <2>3, RefetchTyped
  <2>5. PICK i : /\ jobs' = (jobs \ {j}) \cup {i}
                 /\ i.op = j.op
                 /\ i.waits = j.waits \/ i.waits = Keys(Refetch(table'.sent, j.sel))
    <3>1. \A i : i = [j EXCEPT !.stage = "updates"] => i.op = j.op /\ i.waits = j.waits
      BY DEF SavingInv, TypeOK, Jobs
    <3>2. \A i, ks : i = [j EXCEPT !.stage = "refetch", !.waits = ks] => i.op = j.op /\ i.waits = ks
      BY DEF SavingInv, TypeOK, Jobs
    <3> QED
      BY <1>2, <3>1, <3>2 DEF Resume
  <2>6. Owns(i) <=> Owns(j)
    BY <2>5 DEF Owns
  <2>7. OneOwner'
    <3>1. \A k \in jobs' : Owns(k) => busy.saving
      BY <2>5, <2>6 DEF SavingInv, OneOwner
    <3>2. busy.saving => \E k \in jobs' : Owns(k)
      BY <2>5, <2>6 DEF SavingInv, OneOwner
    <3>3. \A k, l \in jobs' : Owns(k) /\ Owns(l) => k = l
      BY <2>5, <2>6 DEF SavingInv, OneOwner
    <3> QED
      BY <2>1, <3>1, <3>2, <3>3 DEF OneOwner, Owns, FlagOf
  <2>8. \A k \in jobs : \A w \in k.waits : w[2] \in Nat /\ w[2] <= table.sent /\ w[2] # table'.sent
    BY <2>2 DEF SavingInv, WaitsAreOwn, TypeOK, Jobs
  <2>9. \A w \in Keys(Refetch(table'.sent, j.sel)) : w[2] = table'.sent
    BY <2>4
  <2>10. \A k \in jobs' : \A w \in k.waits : w[2] <= table'.sent
    BY <2>2, <2>5, <2>8, <2>9
  <2>11. ASSUME NEW k \in jobs', NEW l \in jobs', k.waits \cap l.waits # {} PROVE k = l
    BY <2>5, <2>8, <2>9, <2>11 DEF SavingInv, WaitsAreOwn
  <2> QED
    BY <2>7, <2>10, <2>11 DEF SavingInv, WaitsAreOwn
<1> QED
  BY <1>1, <1>2

\* An answer ends one handler at most, and clears the flag of that one.
LEMMA SavingAnswer ==
  ASSUME SavingInv, TypeOK', NEW r \in reads, AnswerRead(r)
  PROVE  SavingInv'
<1> DEFINE key     == <<r.of, r.n>>
           waiting == {j \in jobs : key \in j.waits}
           ended   == {j \in waiting : j.waits = {key}}
           going   == {[j EXCEPT !.waits = @ \ {key}] : j \in waiting \ ended}
           shown   == Filtered(table'.rows, view.filter)
<1>1. jobs' = (jobs \ waiting) \cup going /\ at' = at
  BY DEF AnswerRead
<1>2. table'.sent = table.sent
  BY AppliedTyped DEF AnswerRead, SavingInv
<1>3. \A i, j \in waiting : i = j
  BY DEF SavingInv, WaitsAreOwn
<1>4. \A j \in jobs : \A i : i = [j EXCEPT !.waits = @ \ {key}] => i.op = j.op /\ i.waits = j.waits \ {key}
  BY DEF SavingInv, TypeOK, Jobs
<1>5. CASE ended = {}
  <2>1. busy'.saving = busy.saving
    <3>1. busy' = Mounted(busy, shown)
      BY <1>5 DEF AnswerRead
    <3> QED
      BY <3>1, SavingFlags DEF SavingInv, TypeOK
  <2>2. CASE waiting = {}
    <3>1. jobs' = jobs
      BY <1>1, <2>2
    <3> QED
      BY <1>1, <1>2, <2>1, <3>1, SavingAside
  <2>3. CASE waiting # {}
    <3>1. PICK j \in jobs : waiting = {j}
      BY <1>3, <2>3
    <3>2. PICK i : jobs' = (jobs \ {j}) \cup {i} /\ i = [j EXCEPT !.waits = @ \ {key}]
      BY <1>1, <1>5, <3>1
    <3>3. i.op = j.op /\ i.waits \subseteq j.waits
      BY <1>4, <3>2
    <3>4. at' = at
      BY <1>1
    <3> QED
      BY <1>2, <2>1, <3>2, <3>3, <3>4, SavingStage
  <2> QED
    BY <2>2, <2>3
<1>6. CASE ended # {}
  <2>1. PICK j \in ended : busy' = Mounted(Cleared(j), shown)
    BY <1>6 DEF AnswerRead
  <2>2. busy'.saving = Cleared(j).saving
    BY <2>1, SavingFlags, FlagsTyped DEF SavingInv
  <2>3. waiting = {j} /\ ended = {j}
    BY <1>3
  <2>4. Finished(j)
    BY <1>1, <2>3 DEF Finished
  <2> QED
    BY <1>1, <1>2, <2>2, <2>4, SavingEnd
<1> QED
  BY <1>5, <1>6

LEMMA SavingStep == SavingInv /\ [Next]_vars => SavingInv'
<1> SUFFICES ASSUME SavingInv, [Next]_vars PROVE SavingInv'
  OBVIOUS
<1>1. TypeOK'
  BY TypeStep DEF SavingInv
<1>2. CASE User
  BY <1>1, <1>2, SavingUser
<1>3. ASSUME NEW j \in jobs, Serve(j) \/ Refuse(j) \/ LoseJob(j) PROVE SavingInv'
  BY <1>1, <1>3, SavingServer
<1>4. ASSUME NEW j \in jobs, Resume(j) PROVE SavingInv'
  BY <1>1, <1>4, SavingResume
<1>5. ASSUME NEW j \in jobs, Fail(j) \/ UpdatesRead(j) PROVE SavingInv'
  BY <1>1, <1>5, SavingEnd DEF Fail, UpdatesRead
<1>6. ASSUME NEW r \in reads, Find(r) \/ LoseRead(r) PROVE SavingInv'
  BY <1>1, <1>6, SavingAside DEF Find, LoseRead
<1>7. ASSUME NEW r \in reads, AnswerRead(r) PROVE SavingInv'
  BY <1>1, <1>7, SavingAnswer
<1>8. CASE Others
  BY <1>1, <1>8, SavingAside DEF Others
<1>9. CASE UNCHANGED vars
  BY <1>1, <1>9, SavingAside DEF vars
<1> QED
  BY <1>2, <1>3, <1>4, <1>5, <1>6, <1>7, <1>8, <1>9 DEF Next, Server, Tab, Network

\* Whatever the user opens and closes meanwhile, and however answers overtake
\* each other, the saving flag is up exactly while one handler owns it.
THEOREM SavingOwned == Spec => []SavingTells
BY SavingInit, SavingStep, OwnersCounted, PTL DEF Spec
=============================================================================
