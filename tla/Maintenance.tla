----------------------------- MODULE Maintenance -----------------------------
(***************************************************************************)
(* Maintenance windows: the requests of internal/services/maintenance and  *)
(* updateMaintenanceStatus of the worker, which both write the maintenance *)
(* collection without a lock or a transaction.                             *)
(*                                                                         *)
(* A request is a write and then an audit entry.  The worker's upkeep reads *)
(* the clock once and makes two UpdateMany calls, each of which filters and *)
(* updates document by document.  Cycles do not overlap (WorkerLoop).       *)
(***************************************************************************)
EXTENDS Naturals

CONSTANTS
  Windows,    \* identities of maintenance documents
  Requests,   \* requests of administrators that may be in flight at once
  MaxTime,    \* bound on the clock and on the times of windows
  Budget,     \* bound on administrators' writes
  MaxFaults,  \* bound on the calls that fail
  None        \* nothing, "field not sent"

Times == 0 .. MaxTime

ASSUME MaintenanceAssumption ==
  /\ MaxTime \in Nat /\ Budget \in Nat /\ MaxFaults \in Nat
  /\ None \notin Windows /\ None \notin Nat

VARIABLES
  now,        \* the clock
  status,     \* status of each window
  from,       \* startTime of each window
  to,         \* endTime of each window
  pending,    \* the window each request still has to write an audit entry for
  action,     \* the action of that entry
  newest,     \* the action of each window's newest audit entry, "lost" if
              \* the entry of its latest write could not be written
  writes,     \* administrators' writes so far
  faults,     \* calls that failed so far
  phase,      \* the worker: outside upkeep, or in one of its two calls
  cycleTime,  \* the time the last upkeep read
  todo,       \* windows the current call has still to visit
  touched,    \* windows written by a request since the last upkeep began
  failed      \* whether a call of the last upkeep failed

windows == <<status, from, to>>
requests == <<pending, action, newest, writes>>
upkeep == <<phase, cycleTime, todo, failed>>
vars == <<now, windows, requests, upkeep, touched, faults>>

Statuses == {"draft", "scheduled", "in_progress", "active", "completed"}
Visibilities == {"draft", "published"}
Actions == {"draft_saved", "published", "edited", "deleted"}

TypeOK ==
  /\ now \in Times
  /\ status \in [Windows -> Statuses \cup {"none", "deleted"}]
  /\ from \in [Windows -> Times] /\ to \in [Windows -> Times]
  /\ pending \in [Requests -> Windows \cup {None}]
  /\ action \in [Requests -> Actions \cup {"none"}]
  /\ newest \in [Windows -> Actions \cup {"none", "lost"}]
  /\ writes \in Nat /\ faults \in Nat
  /\ phase \in {"idle", "start", "finish"}
  /\ cycleTime \in Nat /\ cycleTime <= now
  /\ todo \in SUBSET Windows /\ touched \in SUBSET Windows
  /\ failed \in BOOLEAN
  /\ phase = "idle" => todo = {}
  /\ \A r \in Requests : pending[r] # None => status[pending[r]] # "none"

\* The last upkeep of an earlier process left nothing behind.
Init ==
  /\ now = 0
  /\ status = [d \in Windows |-> "none"]
  /\ from = [d \in Windows |-> 0] /\ to = [d \in Windows |-> 0]
  /\ pending = [r \in Requests |-> None]
  /\ action = [r \in Requests |-> "none"]
  /\ newest = [d \in Windows |-> "none"]
  /\ writes = 0
  /\ phase = "idle" /\ cycleTime = 0 /\ todo = {}
  /\ touched = {} /\ failed = FALSE /\ faults = 0

Stored(d) == status[d] \notin {"none", "deleted"}

Advance ==
  /\ now < MaxTime
  /\ now' = now + 1
  /\ UNCHANGED <<windows, requests, upkeep, touched, faults>>

-----------------------------------------------------------------------------
(* Requests *)

\* The status a new window gets: times are not compared with each other.
createStatus(start, visibility) ==
  IF visibility = "draft" THEN "draft"
  ELSE IF now > start THEN "active" ELSE "scheduled"

\* The status an update asks for, None when it leaves the status alone.
\* Publishing without a status schedules the window again.
updateStatus(s, visibility) ==
  CASE visibility = "draft" -> "draft"
    [] visibility = "published" /\ s \in {None, "draft"} -> "scheduled"
    [] OTHER -> s

auditActionForMaintenance(s) ==
  CASE s = "draft" -> "draft_saved"
    [] s \in {"scheduled", "active", "in_progress"} -> "published"
    [] OTHER -> "edited"

\* What every request does with its write: the audit entry is left to do, and
\* its action is taken from the document after the write.
Wrote(r, d, a) ==
  /\ writes' = writes + 1
  /\ pending' = [pending EXCEPT ![r] = d]
  /\ action' = [action EXCEPT ![r] = a]
  /\ touched' = touched \cup {d}
  /\ UNCHANGED <<now, newest, upkeep, faults>>

\* Faulty variant: the update returns the document as it was before.
UpdateReturnsBefore(r, d, s, visibility, start, end) ==
  /\ Stored(d)
  /\ LET asked == updateStatus(s, visibility)
     IN  status' = IF asked = None THEN status ELSE [status EXCEPT ![d] = asked]
  /\ UNCHANGED <<from, to>>
  /\ Wrote(r, d, auditActionForMaintenance(status[d]))

Create(r, d, start, end, visibility) ==
  /\ status[d] = "none"
  /\ status' = [status EXCEPT ![d] = createStatus(start, visibility)]
  /\ from' = [from EXCEPT ![d] = start]
  /\ to' = [to EXCEPT ![d] = end]
  /\ Wrote(r, d, auditActionForMaintenance(status'[d]))

\* FindOneAndUpdate sets the fields that were sent and returns the document
\* as it then is.
Update(r, d, s, visibility, start, end) ==
  /\ Stored(d)
  /\ LET asked == updateStatus(s, visibility)
     IN  status' = IF asked = None THEN status ELSE [status EXCEPT ![d] = asked]
  /\ from' = IF start = None THEN from ELSE [from EXCEPT ![d] = start]
  /\ to' = IF end = None THEN to ELSE [to EXCEPT ![d] = end]
  /\ Wrote(r, d, auditActionForMaintenance(status'[d]))

Delete(r, d) ==
  /\ Stored(d)
  /\ status' = [status EXCEPT ![d] = "deleted"]
  /\ UNCHANGED <<from, to>>
  /\ Wrote(r, d, "deleted")

Fault == faults < MaxFaults /\ faults' = faults + 1

\* The audit entry, or an error the caller sees although the window changed.
Audit(r) ==
  /\ pending[r] # None
  /\ \/ newest' = [newest EXCEPT ![pending[r]] = action[r]] /\ UNCHANGED faults
     \/ newest' = [newest EXCEPT ![pending[r]] = "lost"] /\ Fault
  /\ pending' = [pending EXCEPT ![r] = None]
  /\ action' = [action EXCEPT ![r] = "none"]
  /\ UNCHANGED <<now, windows, writes, upkeep, touched>>

-----------------------------------------------------------------------------
(* updateMaintenanceStatus *)

BeginUpkeep ==
  /\ phase = "idle"
  /\ phase' = "start" /\ cycleTime' = now
  /\ todo' = Windows /\ touched' = {} /\ failed' = FALSE
  /\ UNCHANGED <<now, windows, requests, faults>>

\* Faulty variants: the two calls swapped, and the second one missing.
SwappedMove(d) ==
  IF phase = "finish"
    THEN IF status[d] = "scheduled" /\ from[d] <= cycleTime THEN "in_progress" ELSE status[d]
    ELSE IF status[d] = "in_progress" /\ to[d] <= cycleTime THEN "completed" ELSE status[d]
NeverFinish(d) ==
  IF phase = "start" /\ status[d] = "scheduled" /\ from[d] <= cycleTime
    THEN "in_progress" ELSE status[d]

\* The filter and the update of the current call, for one document.
Moved(d) ==
  CASE phase = "start" /\ status[d] = "scheduled" /\ from[d] <= cycleTime -> "in_progress"
    [] phase = "finish" /\ status[d] = "in_progress" /\ to[d] <= cycleTime -> "completed"
    [] OTHER -> status[d]

Visit(d) ==
  /\ d \in todo
  /\ todo' = todo \ {d}
  /\ status' = [status EXCEPT ![d] = Moved(d)]
  /\ UNCHANGED <<now, from, to, requests, phase, cycleTime, touched, failed,
                 faults>>

\* A call ends when every document was visited, or early with an error that
\* is ignored.
EndCall ==
  /\ phase # "idle"
  /\ \/ todo = {} /\ UNCHANGED <<failed, faults>>
     \/ Fault /\ failed' = TRUE
  /\ phase' = IF phase = "start" THEN "finish" ELSE "idle"
  /\ todo' = IF phase = "start" THEN Windows ELSE {}
  /\ UNCHANGED <<now, windows, requests, cycleTime, touched>>

-----------------------------------------------------------------------------
UpkeepStep == BeginUpkeep \/ EndCall \/ \E d \in Windows : Visit(d)

Write(r, d) ==
  \/ Delete(r, d)
  \/ \E start, end \in Times, v \in Visibilities : Create(r, d, start, end, v)
  \/ \E s \in Statuses \cup {None}, v \in Visibilities \cup {None},
        start, end \in Times \cup {None} : Update(r, d, s, v, start, end)

Request(r) ==
  \/ Audit(r)
  \/ /\ pending[r] = None /\ writes < Budget
     /\ \E d \in Windows : Write(r, d)

Next == Advance \/ UpkeepStep \/ \E r \in Requests : Request(r)

Spec == Init /\ [][Next]_vars

\* The ticker keeps starting cycles and a started upkeep goes on.  Nobody has
\* to send a request.
FairSpec == Spec /\ WF_vars(UpkeepStep)

-----------------------------------------------------------------------------
(* Properties *)

\* After an upkeep whose calls succeeded, every window no request has written
\* since it began has caught up with the time it read, in that one upkeep even
\* when both its times had passed: nothing scheduled has started, nothing in
\* progress is over.
UpkeepSettles ==
  phase = "idle" /\ ~failed =>
    \A d \in Windows \ touched :
      /\ status[d] = "scheduled" => from[d] > cycleTime
      /\ status[d] = "in_progress" => to[d] > cycleTime

\* The newest audit entry of a window tells whether it is a draft, unless
\* that entry was lost: the worker's moves, which write no entry, never
\* contradict it.  Needs one request at a time.
HistoryTellsVisibility ==
  \A d \in Windows :
    Stored(d) /\ newest[d] # "lost" /\ (\A r \in Requests : pending[r] # d) =>
      (newest[d] = "draft_saved" <=> status[d] = "draft")

Over(d) == from[d] <= now /\ to[d] <= now

\* A scheduled or in-progress window whose times have passed is completed,
\* unless it is edited first.
PassedWindowsComplete ==
  \A d \in Windows :
    status[d] \in {"scheduled", "in_progress"} /\ Over(d)
      ~> status[d] \notin {"scheduled", "in_progress"} \/ ~Over(d)

\* "Automatic maintenance status transitions based on scheduled start and end
\* times": the same of every published window, the active ones included.
PublishedWindowsComplete ==
  \A d \in Windows :
    status[d] \in {"scheduled", "in_progress", "active"} /\ Over(d)
      ~> status[d] \notin {"scheduled", "in_progress", "active"} \/ ~Over(d)

=============================================================================
