---------------------------- MODULE Records_proofs ----------------------------
(***************************************************************************)
(* Proofs about the records the server keeps of a stretch of time: the     *)
(* maintenance windows (Maintenance), and the incidents the availability   *)
(* answers are computed from (Availability).                               *)
(***************************************************************************)
EXTENDS Maintenance, Availability, FiniteSetTheorems, WellFoundedInduction, TLAPS

(***************************************************************************)
(* Maintenance windows                                                     *)
(***************************************************************************)
\* What an upkeep has established so far of the windows no request has
\* written: after its first call nothing scheduled has started, after its
\* second nothing in progress is over; during a call this holds of the windows
\* it has visited.
Started(d) == status[d] = "scheduled" => from[d] > cycleTime
Finished(d) == status[d] = "in_progress" => to[d] > cycleTime

UpkeepInv ==
  ~failed =>
    /\ phase = "start" => \A d \in Windows \ (touched \cup todo) : Started(d)
    /\ phase = "finish" => /\ \A d \in Windows \ touched : Started(d)
                           /\ \A d \in Windows \ (touched \cup todo) : Finished(d)
    /\ phase = "idle" => \A d \in Windows \ touched : Started(d) /\ Finished(d)

\* The state stays well typed.
THEOREM TypeCorrect == Spec => []TypeOK
<1> USE MaintenanceAssumption DEF Times
<1>1. Init => TypeOK
  <2> SUFFICES ASSUME Init PROVE TypeOK
    OBVIOUS
  <2>1. failed \in BOOLEAN
    BY ZenonT(10) DEF Init
  <2> QED
    BY <2>1, SMTT(20) DEF Init, TypeOK
<1>2. TypeOK /\ [Next]_vars => TypeOK'
  <2> SUFFICES ASSUME TypeOK, [Next]_vars PROVE TypeOK'
    OBVIOUS
  <2> USE DEF TypeOK
  <2>1. CASE Advance
    BY <2>1 DEF Advance, windows, requests, upkeep
  <2>2. CASE BeginUpkeep
    <3>1. failed' \in BOOLEAN
      BY <2>2, ZenonT(10) DEF BeginUpkeep
    <3> QED
      BY <2>2, <3>1, SMTT(20) DEF BeginUpkeep, windows, requests
  <2>3. CASE EndCall
    <3>1. failed' \in BOOLEAN
      BY <2>3, ZenonT(10) DEF EndCall
    <3>2. faults' \in Nat
      BY <2>3 DEF EndCall, Fault
    <3> QED
      BY <2>3, <3>1, <3>2 DEF EndCall, windows, requests
  <2>4. ASSUME NEW d \in Windows, Visit(d) PROVE TypeOK'
    <3>1. Moved(d) \in Statuses \cup {"none", "deleted"} /\ (Moved(d) = "none" <=> status[d] = "none")
      BY DEF Moved, Statuses
    <3> QED
      BY <2>4, <3>1 DEF Visit, requests
  <2>5. ASSUME NEW r \in Requests, Audit(r) PROVE TypeOK'
    BY <2>5 DEF Audit, Fault, windows, upkeep
  <2>6. ASSUME NEW r \in Requests, NEW d \in Windows, NEW start \in Times,
               NEW end \in Times, NEW v \in Visibilities, Create(r, d, start, end, v)
        PROVE TypeOK'
    <3>1. createStatus(start, v) \in Statuses
      BY DEF createStatus, Statuses
    <3>2. auditActionForMaintenance(status'[d]) \in Actions
      BY DEF auditActionForMaintenance, Actions
    <3> QED
      BY <2>6, <3>1, <3>2 DEF Create, Wrote, upkeep, Statuses
  <2>7. ASSUME NEW r \in Requests, NEW d \in Windows, NEW s \in Statuses \cup {None},
               NEW v \in Visibilities \cup {None}, NEW start \in Times \cup {None},
               NEW end \in Times \cup {None}, Update(r, d, s, v, start, end)
        PROVE TypeOK'
    <3>1. updateStatus(s, v) \in Statuses \cup {None}
      BY DEF updateStatus, Statuses
    <3>2. auditActionForMaintenance(status'[d]) \in Actions
      BY DEF auditActionForMaintenance, Actions
    <3>3. status' \in [Windows -> Statuses \cup {"none", "deleted"}]
          /\ \A e \in Windows : status'[e] = "none" => status[e] = "none"
      BY <2>7, <3>1 DEF Update, Statuses
    <3>4. from' \in [Windows -> Times] /\ to' \in [Windows -> Times]
      BY <2>7 DEF Update
    <3>5. status[d] # "none"
      BY <2>7 DEF Update, Stored
    <3> QED
      BY <2>7, <3>2, <3>3, <3>4, <3>5 DEF Update, Wrote, upkeep
  <2>8. ASSUME NEW r \in Requests, NEW d \in Windows, Delete(r, d) PROVE TypeOK'
    BY <2>8 DEF Delete, Wrote, Stored, upkeep, Actions
  <2>9. CASE UNCHANGED vars
    BY <2>9 DEF vars, windows, requests, upkeep
  <2> QED
    BY <2>1, <2>2, <2>3, <2>4, <2>5, <2>6, <2>7, <2>8, <2>9
    DEF Next, UpkeepStep, Request, Write
<1> QED
  BY <1>1, <1>2, PTL DEF Spec

\* A write of a request touches its window and no other.
LEMMA WriteTouches ==
  ASSUME TypeOK, NEW r \in Requests, NEW w \in Windows, Write(r, w)
  PROVE  /\ touched' = touched \cup {w}
         /\ UNCHANGED <<phase, cycleTime, todo, failed>>
         /\ \A e \in Windows \ {w} :
              status'[e] = status[e] /\ from'[e] = from[e] /\ to'[e] = to[e]
<1>1. CASE Delete(r, w)
  BY <1>1 DEF Delete, Wrote, upkeep, TypeOK
<1>2. ASSUME NEW start \in Times, NEW end \in Times, NEW v \in Visibilities,
             Create(r, w, start, end, v)
      PROVE  /\ touched' = touched \cup {w}
             /\ UNCHANGED <<phase, cycleTime, todo, failed>>
             /\ \A e \in Windows \ {w} :
                  status'[e] = status[e] /\ from'[e] = from[e] /\ to'[e] = to[e]
  BY <1>2 DEF Create, Wrote, upkeep, TypeOK
<1>3. ASSUME NEW s \in Statuses \cup {None}, NEW v \in Visibilities \cup {None},
             NEW start \in Times \cup {None}, NEW end \in Times \cup {None},
             Update(r, w, s, v, start, end)
      PROVE  /\ touched' = touched \cup {w}
             /\ UNCHANGED <<phase, cycleTime, todo, failed>>
             /\ \A e \in Windows \ {w} :
                  status'[e] = status[e] /\ from'[e] = from[e] /\ to'[e] = to[e]
  BY <1>3 DEF Update, Wrote, upkeep, TypeOK
<1> QED
  BY <1>1, <1>2, <1>3 DEF Write

\* An upkeep whose calls succeeded leaves no window it alone has written
\* behind the time it read.
THEOREM UpkeepCatchesUp == Spec => []UpkeepSettles
<1>1. Init => UpkeepInv
  BY DEF Init, UpkeepInv, Started, Finished
<1>2. TypeOK /\ UpkeepInv /\ [Next]_vars => UpkeepInv'
  <2> SUFFICES ASSUME TypeOK, UpkeepInv, [Next]_vars PROVE UpkeepInv'
    OBVIOUS
  <2>1. CASE Advance
    BY <2>1 DEF Advance, UpkeepInv, Started, Finished, windows, requests, upkeep
  <2>2. CASE BeginUpkeep
    BY <2>2 DEF BeginUpkeep, UpkeepInv, Started, Finished
  <2>3. CASE EndCall
    BY <2>3 DEF EndCall, UpkeepInv, Started, Finished, TypeOK, windows, requests
  <2>4. ASSUME NEW d \in Windows, Visit(d) PROVE UpkeepInv'
    <3>1. /\ status' = [status EXCEPT ![d] = Moved(d)]
          /\ todo' = todo \ {d} /\ d \in todo
          /\ UNCHANGED <<from, to, phase, cycleTime, touched, failed>>
      BY <2>4 DEF Visit
    <3>2. \A e \in Windows : e # d =>
            (Started(e) => Started(e)') /\ (Finished(e) => Finished(e)')
      BY <3>1 DEF Started, Finished, TypeOK
    <3>3. status'[d] = Moved(d)
      BY <3>1 DEF TypeOK
    <3>4. phase = "start" => Started(d)'
      BY <3>1, <3>3, MaintenanceAssumption DEF Started, Moved, TypeOK, Times
    <3>5. phase = "finish" => Finished(d)' /\ (Started(d) => Started(d)')
      BY <3>1, <3>3, MaintenanceAssumption DEF Started, Finished, Moved, TypeOK, Times
    <3>6. phase # "idle"
      BY <3>1 DEF TypeOK
    <3> QED
      BY <3>1, <3>2, <3>4, <3>5, <3>6 DEF UpkeepInv
  <2>5. ASSUME NEW r \in Requests, Audit(r) PROVE UpkeepInv'
    BY <2>5 DEF Audit, UpkeepInv, Started, Finished, windows, upkeep
  <2>6. ASSUME NEW r \in Requests, NEW w \in Windows, Write(r, w) PROVE UpkeepInv'
    BY <2>6, WriteTouches DEF UpkeepInv, Started, Finished
  <2>7. CASE UNCHANGED vars
    BY <2>7 DEF vars, windows, upkeep, UpkeepInv, Started, Finished
  <2> QED
    BY <2>1, <2>2, <2>3, <2>4, <2>5, <2>6, <2>7 DEF Next, UpkeepStep, Request
<1>3. UpkeepInv => UpkeepSettles
  BY DEF UpkeepInv, UpkeepSettles, Started, Finished
<1> QED
  BY <1>1, <1>2, <1>3, TypeCorrect, PTL DEF Spec

\* A stored window's newest entry tells whether it is a draft, or the entry the
\* pending request is about to write does.
HistoryInv ==
  \A d \in Windows : Stored(d) =>
    IF \E r \in Requests : pending[r] = d
      THEN \A r \in Requests : pending[r] = d =>
             (action[r] = "draft_saved" <=> status[d] = "draft")
      ELSE newest[d] # "lost" => (newest[d] = "draft_saved" <=> status[d] = "draft")

\* The audit action tells a draft from anything else.
LEMMA AuditActionTellsDraft ==
  ASSUME NEW s
  PROVE  auditActionForMaintenance(s) = "draft_saved" <=> s = "draft"
  BY DEF auditActionForMaintenance

\* What a write of a request does to the window it names and to the entry it
\* leaves to do.
LEMMA WriteLeavesEntry ==
  ASSUME TypeOK, NEW r \in Requests, NEW w \in Windows, Write(r, w)
  PROVE  /\ pending' = [pending EXCEPT ![r] = w] /\ UNCHANGED newest
         /\ \A e \in Windows \ {w} : status'[e] = status[e]
         /\ \A q \in Requests \ {r} : action'[q] = action[q]
         /\ status'[w] \in Statuses => (action'[r] = "draft_saved" <=> status'[w] = "draft")
<1>1. CASE Delete(r, w)
  BY <1>1 DEF Delete, Wrote, TypeOK, Statuses
<1>2. ASSUME NEW start \in Times, NEW end \in Times, NEW v \in Visibilities,
             Create(r, w, start, end, v)
      PROVE  /\ pending' = [pending EXCEPT ![r] = w] /\ UNCHANGED newest
             /\ \A e \in Windows \ {w} : status'[e] = status[e]
             /\ \A q \in Requests \ {r} : action'[q] = action[q]
             /\ action'[r] = "draft_saved" <=> status'[w] = "draft"
  BY <1>2, AuditActionTellsDraft DEF Create, Wrote, TypeOK
<1>3. ASSUME NEW s \in Statuses \cup {None}, NEW v \in Visibilities \cup {None},
             NEW start \in Times \cup {None}, NEW end \in Times \cup {None},
             Update(r, w, s, v, start, end)
      PROVE  /\ pending' = [pending EXCEPT ![r] = w] /\ UNCHANGED newest
             /\ \A e \in Windows \ {w} : status'[e] = status[e]
             /\ \A q \in Requests \ {r} : action'[q] = action[q]
             /\ action'[r] = "draft_saved" <=> status'[w] = "draft"
  BY <1>3, AuditActionTellsDraft DEF Update, Wrote, TypeOK
<1> QED
  BY <1>1, <1>2, <1>3 DEF Write

\* With one request at a time, the entries that were not lost tell drafts from
\* published windows whatever the worker does in between.
THEOREM HistoryAgrees ==
  ASSUME \A q, r \in Requests : q = r
  PROVE  Spec => []HistoryTellsVisibility
<1>1. Init => HistoryInv
  BY DEF Init, HistoryInv, Stored
<1>2. TypeOK /\ TypeOK' /\ HistoryInv /\ [Next]_vars => HistoryInv'
  <2> SUFFICES ASSUME TypeOK, TypeOK', HistoryInv, [Next]_vars PROVE HistoryInv'
    OBVIOUS
  <2>1. CASE UNCHANGED <<status, pending, action, newest>>
    BY <2>1 DEF HistoryInv, Stored
  <2>2. ASSUME NEW d \in Windows, Visit(d) PROVE HistoryInv'
    <3>1. UNCHANGED <<pending, action, newest>>
      BY <2>2 DEF Visit, requests
    <3>2. \A e \in Windows :
            /\ Stored(e)' <=> Stored(e)
            /\ status'[e] = "draft" <=> status[e] = "draft"
      BY <2>2 DEF Visit, Moved, Stored, TypeOK
    <3> QED
      BY <3>1, <3>2 DEF HistoryInv
  <2>3. ASSUME NEW r \in Requests, Audit(r) PROVE HistoryInv'
    <3>1. /\ pending[r] \in Windows /\ UNCHANGED status
          /\ \/ newest' = [newest EXCEPT ![pending[r]] = action[r]]
             \/ newest' = [newest EXCEPT ![pending[r]] = "lost"]
          /\ pending' = [pending EXCEPT ![r] = None]
      BY <2>3 DEF Audit, windows, TypeOK
    <3>2. \A q \in Requests : q = r /\ pending'[q] = None
      BY <3>1 DEF TypeOK
    <3> SUFFICES ASSUME NEW d \in Windows, Stored(d)', newest'[d] # "lost"
                 PROVE  newest'[d] = "draft_saved" <=> status'[d] = "draft"
      BY <3>2, MaintenanceAssumption DEF HistoryInv
    <3>3. Stored(d)
      BY <3>1 DEF Stored
    <3>4. CASE d = pending[r]
      BY <3>1, <3>3, <3>4 DEF HistoryInv, TypeOK
    <3>5. CASE d # pending[r]
      <4>1. \A q \in Requests : pending[q] # d
        BY <3>2, <3>5
      <4>2. newest'[d] = newest[d]
        BY <3>1, <3>5 DEF TypeOK
      <4> QED
        BY <4>1, <4>2, <3>1, <3>3 DEF HistoryInv
    <3> QED
      BY <3>4, <3>5
  <2>4. ASSUME NEW r \in Requests, NEW w \in Windows, pending[r] = None, Write(r, w)
        PROVE  HistoryInv'
    <3>1. /\ pending' = [pending EXCEPT ![r] = w] /\ UNCHANGED newest
          /\ \A e \in Windows \ {w} : status'[e] = status[e]
          /\ status'[w] \in Statuses =>
               (action'[r] = "draft_saved" <=> status'[w] = "draft")
      BY <2>4, WriteLeavesEntry
    <3>2. \A q \in Requests : q = r /\ pending'[q] = w
      BY <3>1 DEF TypeOK
    <3> SUFFICES ASSUME NEW d \in Windows, Stored(d)'
                 PROVE  IF d = w THEN action'[r] = "draft_saved" <=> status'[d] = "draft"
                        ELSE newest'[d] # "lost" =>
                               (newest'[d] = "draft_saved" <=> status'[d] = "draft")
      BY <3>2 DEF HistoryInv
    <3>3. CASE d = w
      <4>1. status'[w] \in Statuses
        BY <3>3 DEF Stored, TypeOK
      <4> QED
        BY <3>1, <3>3, <4>1
    <3>4. CASE d # w
      <4>1. Stored(d) /\ \A q \in Requests : pending[q] # d
        BY <2>4, <3>1, <3>4, MaintenanceAssumption DEF Stored
      <4> QED
        BY <3>1, <3>4, <4>1 DEF HistoryInv
    <3> QED
      BY <3>3, <3>4
  <2> QED
    BY <2>1, <2>2, <2>3, <2>4
    DEF Next, UpkeepStep, Request, Advance, BeginUpkeep, EndCall, windows, requests, vars
<1>3. HistoryInv => HistoryTellsVisibility
  BY DEF HistoryInv, HistoryTellsVisibility
<1> QED
  BY <1>1, <1>2, <1>3, TypeCorrect, PTL DEF Spec

(***************************************************************************)
(* Availability                                                            *)
(***************************************************************************)
\* Incident documents; the types of what the proof needs.
Docs == [createdAt : Nat, resolvedAt : Nat \cup {Unset}, status : IncidentStatuses,
         targets : SUBSET Components]

AvailabilityTyped ==
  /\ clock \in Nat
  /\ incident \in [Incidents -> Docs \cup {Unset}]
  /\ during \in [Incidents -> SUBSET Nat]

\* The units a document gives as those in which its incident was open, when
\* it is resolved.
Recorded(doc) ==
  IF doc.resolvedAt = Unset THEN {} ELSE doc.createdAt .. doc.resolvedAt - 1

\* Documents and history: nothing was open before it was created, a resolved
\* incident was open during no other unit than those its document gives, and
\* one whose status was never revised during exactly those.
DocumentsTell ==
  \A i \in StoredIncidents :
    LET doc == incident[i]
    IN  /\ doc.createdAt <= clock
        /\ during[i] \subseteq doc.createdAt .. clock - 1
        /\ doc.status = "resolved" => during[i] \subseteq Recorded(doc)
        /\ i \notin revised =>
             IF doc.status = "resolved" THEN during[i] = Recorded(doc)
             ELSE doc.resolvedAt = Unset /\ during[i] = doc.createdAt .. clock - 1

\* The units of a period a document covers.
Covered(doc, p) ==
  {u \in Units(p) : u >= doc.createdAt /\ (doc.resolvedAt # Unset => u < doc.resolvedAt)}

\* A period a request may be about.
IsPeriod(p) == p.start \in Int /\ p.end \in Int /\ p.start < p.end

\* The period of a request is past: what happens from now on is outside.
PeriodIsPast == request.pc # "idle" => IsPeriod(request.period) /\ request.period.end <= clock

\* The units of the requested period in which an incident was open.
Seen(i) == during[i] \cap Units(request.period)

\* What the documents a request has read tell of its period.
KnownTells ==
  request.pc \in {"listed", "answered"} =>
    /\ DOMAIN request.known \subseteq Incidents
    /\ request.final \subseteq DOMAIN request.known
    /\ \A i \in DOMAIN request.known :
         LET doc == request.known[i]
         IN  /\ doc \in Docs
             /\ doc.status = "resolved" => Seen(i) \subseteq Recorded(doc)
             /\ i \in request.final =>
                  IF doc.status = "resolved" THEN Seen(i) = Recorded(doc) \cap Units(request.period)
                  ELSE Seen(i) = Covered(doc, request.period)

\* The filter of the query.
Overlaps(doc, p) ==
  /\ doc.createdAt < p.end
  /\ (doc.resolvedAt # Unset /\ doc.resolvedAt > p.start) \/ doc.status # "resolved"

FoundOverlaps ==
  request.pc = "listed" =>
    request.found = {i \in DOMAIN request.known : Overlaps(request.known[i], request.period)}

ChargedInv ==
  /\ AvailabilityTyped /\ DocumentsTell /\ PeriodIsPast /\ KnownTells /\ FoundOverlaps
  /\ UnrevisedChargedExactly /\ ResolvedHideNothing

\* The year of an instant does not start after it, and the years before it
\* are over.
LEMMA YearStarts ==
  ASSUME NEW t \in Nat
  PROVE  /\ t \div Year \in Nat /\ (t \div Year) * Year <= t
         /\ \A y \in 0 .. t \div Year : y # t \div Year => (y + 1) * Year <= t
<1> USE AvailabilityAssumption
<1>1. t \div Year \in Nat /\ (t \div Year) * Year <= t
  BY SMT
<1>2. ASSUME NEW y \in 0 .. t \div Year, y # t \div Year PROVE (y + 1) * Year <= t
  <2> DEFINE q == t \div Year
  <2>1. q \in Nat /\ q * Year <= t
    BY <1>1
  <2> HIDE DEF q
  <2>2. y + 1 <= q /\ y \in Nat
    BY <1>2, <2>1 DEF q
  <2>3. (y + 1) * Year <= q * Year
    BY <2>1, <2>2
  <2> QED
    BY <2>1, <2>2, <2>3
<1> QED
  BY <1>1, <1>2

\* Every period a request may ask for ends by the time it is asked for.
LEMMA PeriodsArePast ==
  ASSUME clock \in Nat, NEW p \in Periods
  PROVE  IsPeriod(p) /\ p.end <= clock
<1> USE AvailabilityAssumption DEF IsPeriod
<1>1. p.start < p.end
  BY DEF Periods
<1>2. CASE p \in PresetPeriods
  BY <1>1, <1>2, YearStarts DEF PresetPeriods, Period
<1>3. CASE p \in YearPeriods
  <2>1. PICK year \in 0 .. clock \div Year :
             p = Period(year * Year, IF year = clock \div Year THEN clock ELSE (year + 1) * Year - 1)
    BY <1>3 DEF YearPeriods
  <2>2. year \in Nat /\ year * Year \in Int /\ (year + 1) * Year \in Int
    BY YearStarts
  <2>3. p.start = year * Year
        /\ p.end = IF year = clock \div Year THEN clock ELSE (year + 1) * Year - 1
    BY <2>1 DEF Period
  <2>4. CASE year = clock \div Year
    BY <1>1, <2>2, <2>3, <2>4
  <2>5. CASE year # clock \div Year
    <3>1. (year + 1) * Year <= clock
      BY <2>5, YearStarts
    <3> DEFINE next == (year + 1) * Year
    <3>2. p.end = next - 1
      BY <2>3, <2>5
    <3>3. next \in Int /\ next <= clock
      BY <2>2, <3>1
    <3> HIDE DEF next
    <3> QED
      BY <1>1, <2>2, <2>3, <3>2, <3>3
  <2> QED
    BY <2>4, <2>5
<1>4. CASE p \in CustomPeriods
  BY <1>1, <1>4 DEF CustomPeriods, Period, EarliestOf
<1> QED
  BY <1>2, <1>3, <1>4 DEF Periods

\* What is left of a document's interval within a past period is the units
\* the document covers.
LEMMA DowntimeUnits ==
  ASSUME clock \in Nat, NEW doc \in Docs, NEW p, IsPeriod(p), p.end <= clock
  PROVE  /\ \A iv \in DowntimeOf(doc, p) : Units(iv) = Covered(doc, p)
         /\ DowntimeOf(doc, p) = {} => Covered(doc, p) = {}
<1> DEFINE end == IF doc.resolvedAt # Unset THEN doc.resolvedAt ELSE clock
           low == LatestOf(doc.createdAt, p.start)
           high == EarliestOf(end, p.end)
<1>1. doc.createdAt \in Nat /\ end \in Nat /\ p.start \in Int /\ p.end \in Int
  BY DEF Docs, IsPeriod
<1>2. low \in Int /\ high \in Int
  BY <1>1 DEF LatestOf, EarliestOf
<1>3. Covered(doc, p) = low .. high - 1
  BY <1>1 DEF Covered, Units, LatestOf, EarliestOf
<1>4. \A iv \in DowntimeOf(doc, p) : iv.start = low /\ iv.end = high
  BY DEF DowntimeOf, ClipInterval, Period
<1>5. DowntimeOf(doc, p) = {} => low >= high
  <2> SUFFICES ASSUME low < high PROVE DowntimeOf(doc, p) # {}
    BY <1>2
  <2>1. doc.createdAt < end
    BY <1>1 DEF LatestOf, EarliestOf
  <2>2. [start |-> low, end |-> high] \in ClipInterval(Period(doc.createdAt, end), p)
    BY DEF ClipInterval, Period
  <2> QED
    BY <2>1, <2>2 DEF DowntimeOf
<1>6. \A iv \in DowntimeOf(doc, p) : Units(iv) = low .. high - 1
  BY <1>4 DEF Units
<1>7. low >= high => low .. high - 1 = {}
  BY <1>2
<1> QED
  BY <1>3, <1>5, <1>6, <1>7

LEMMA ChargedInit == AvailabilityInit => ChargedInv
BY DEF AvailabilityInit, ChargedInv, AvailabilityTyped, DocumentsTell, StoredIncidents, PeriodIsPast,
       KnownTells, FoundOverlaps, UnrevisedChargedExactly, ResolvedHideNothing, Idle

\* What leaves the request alone, and adds to the history only units that are
\* not over yet, leaves what the request knows and says true.
LEMMA RequestAside ==
  ASSUME ChargedInv, request' = request, clock' \in Nat, clock' >= clock,
         \A i \in Incidents : during'[i] \subseteq during[i] \cup {clock} /\ during[i] \subseteq during'[i]
  PROVE  PeriodIsPast' /\ KnownTells' /\ FoundOverlaps' /\ UnrevisedChargedExactly'
           /\ ResolvedHideNothing'
<1>1. PeriodIsPast'
  BY DEF ChargedInv, AvailabilityTyped, PeriodIsPast, IsPeriod
<1>2. ASSUME request.pc # "idle", NEW i \in Incidents
      PROVE  during'[i] \cap Units(request.period) = during[i] \cap Units(request.period)
  <2>1. clock \notin Units(request.period)
    BY <1>2 DEF ChargedInv, AvailabilityTyped, PeriodIsPast, IsPeriod, Units
  <2> QED
    BY <2>1
<1>3. FoundOverlaps'
  BY DEF ChargedInv, FoundOverlaps
<1>4. KnownTells'
  <2> SUFFICES ASSUME request.pc \in {"listed", "answered"} PROVE KnownTells'
    BY DEF KnownTells
  <2>1. DOMAIN request.known \subseteq Incidents
    BY DEF ChargedInv, KnownTells
  <2>2. \A i \in DOMAIN request.known : Seen(i)' = Seen(i)
    BY <1>2, <2>1 DEF Seen
  <2> QED
    BY <2>2 DEF ChargedInv, KnownTells
<1>5. ASSUME request.pc = "answered" 
      PROVE  \A i \in DOMAIN request.known : Charged(i)' = Charged(i) /\ i \in Incidents
  BY <1>5 DEF ChargedInv, KnownTells, Charged, Units
<1>6. UnrevisedChargedExactly'
  BY <1>2, <1>5 DEF ChargedInv, UnrevisedChargedExactly, KnownTells, Units
<1>7. ResolvedHideNothing'
  BY <1>2, <1>5 DEF ChargedInv, ResolvedHideNothing, KnownTells, Units
<1> QED
  BY <1>1, <1>3, <1>4, <1>6, <1>7

\* Time passes: an incident that is open stays open for that unit.
LEMMA ChargedPassTime == ChargedInv /\ PassTime => ChargedInv'
<1> SUFFICES ASSUME ChargedInv, PassTime PROVE ChargedInv'
  OBVIOUS
<1> USE DEF ChargedInv
<1>1. clock \in Nat /\ clock' = clock + 1 /\ UNCHANGED <<incident, revised, request>>
  BY DEF PassTime, AvailabilityTyped
<1>2. \A i \in Incidents :
        during'[i] = IF i \in StoredIncidents /\ incident[i].status # "resolved"
                     THEN during[i] \cup {clock} ELSE during[i]
  BY DEF PassTime
<1>3. AvailabilityTyped'
  BY <1>1 DEF PassTime, AvailabilityTyped
<1>4. DocumentsTell'
  <2> SUFFICES ASSUME NEW i \in StoredIncidents
               PROVE  LET doc == incident[i]
                      IN  /\ doc.createdAt <= clock'
                          /\ during'[i] \subseteq doc.createdAt .. clock' - 1
                          /\ doc.status = "resolved" => during'[i] \subseteq Recorded(doc)
                          /\ i \notin revised =>
                               IF doc.status = "resolved" THEN during'[i] = Recorded(doc)
                               ELSE doc.resolvedAt = Unset /\ during'[i] = doc.createdAt .. clock' - 1
    BY <1>1 DEF DocumentsTell, StoredIncidents, Recorded
  <2>1. i \in Incidents /\ incident[i] \in Docs /\ incident[i].createdAt \in Nat
    BY DEF StoredIncidents, AvailabilityTyped, Docs
  <2>2. incident[i].createdAt .. clock' - 1 = (incident[i].createdAt .. clock - 1) \cup {clock}
    BY <1>1, <2>1 DEF DocumentsTell
  <2>3. incident[i].createdAt <= clock'
    BY <1>1, <2>1 DEF DocumentsTell
  <2>4. CASE incident[i].status = "resolved"
    BY <1>2, <2>1, <2>2, <2>3, <2>4 DEF DocumentsTell
  <2>5. CASE incident[i].status # "resolved"
    BY <1>2, <2>1, <2>2, <2>3, <2>5 DEF DocumentsTell
  <2> QED
    BY <2>4, <2>5
<1>5. clock' \in Nat /\ clock' >= clock
  BY <1>1
<1>6. \A i \in Incidents : during'[i] \subseteq during[i] \cup {clock} /\ during[i] \subseteq during'[i]
  BY <1>2
<1> QED
  BY <1>1, <1>3, <1>4, <1>5, <1>6, RequestAside

\* A write of incident i leaves a document that tells its history, and those
\* of the others as they were.
LEMMA ChargedWrite ==
  ASSUME ChargedInv, NEW i \in Incidents, NEW doc, incident' = [incident EXCEPT ![i] = doc],
         doc \in Docs \cup {Unset}, UNCHANGED <<clock, during, request>>, revised \subseteq revised',
         doc # Unset =>
           /\ doc.createdAt <= clock
           /\ during[i] \subseteq doc.createdAt .. clock - 1
           /\ doc.status = "resolved" => during[i] \subseteq Recorded(doc)
           /\ i \notin revised' =>
                IF doc.status = "resolved" THEN during[i] = Recorded(doc)
                ELSE doc.resolvedAt = Unset /\ during[i] = doc.createdAt .. clock - 1
  PROVE  ChargedInv'
<1> USE DEF ChargedInv
<1>1. AvailabilityTyped'
  BY DEF AvailabilityTyped
<1>2. \A j \in Incidents : incident'[j] = IF j = i THEN doc ELSE incident[j]
  BY DEF AvailabilityTyped
<1>3. DocumentsTell'
  <2> SUFFICES ASSUME NEW j \in StoredIncidents'
               PROVE  LET it == incident'[j]
                      IN  /\ it.createdAt <= clock
                          /\ during[j] \subseteq it.createdAt .. clock - 1
                          /\ it.status = "resolved" => during[j] \subseteq Recorded(it)
                          /\ j \notin revised' =>
                               IF it.status = "resolved" THEN during[j] = Recorded(it)
                               ELSE it.resolvedAt = Unset /\ during[j] = it.createdAt .. clock - 1
    BY DEF DocumentsTell, Recorded
  <2>1. j \in Incidents /\ incident'[j] # Unset
    BY DEF StoredIncidents
  <2>2. CASE j = i
    BY <1>2, <2>1, <2>2
  <2>3. CASE j # i
    BY <1>2, <2>1, <2>3 DEF DocumentsTell, StoredIncidents
  <2> QED
    BY <2>2, <2>3
<1> QED
  BY <1>1, <1>3, RequestAside DEF AvailabilityTyped

LEMMA ChargedWriting ==
  ASSUME ChargedInv, NEW i \in Incidents, Writing(i)
  PROVE  ChargedInv'
<1>0. clock \in Nat /\ during[i] \in SUBSET Nat
  BY DEF ChargedInv, AvailabilityTyped
<1>1. CASE CreateIncident(i)
  <2>1. PICK st \in IncidentStatuses, targets \in SUBSET Components :
          incident' = [incident EXCEPT ![i] =
            [createdAt |-> clock, resolvedAt |-> Unset, status |-> st, targets |-> targets]]
    BY <1>1 DEF CreateIncident
  <2> DEFINE doc == [createdAt |-> clock, resolvedAt |-> Unset, status |-> st, targets |-> targets]
  <2>2. doc \in Docs
    BY <1>0 DEF Docs
  <2>3. during[i] = {} /\ UNCHANGED <<clock, during, revised, request>>
    BY <1>1 DEF CreateIncident
  <2>4. Recorded(doc) = {} /\ doc.createdAt .. clock - 1 = {}
    BY <1>0 DEF Recorded
  <2>5. doc.createdAt = clock /\ doc.resolvedAt = Unset /\ incident' = [incident EXCEPT ![i] = doc]
    BY <2>1
  <2> HIDE DEF doc
  <2>6. doc.createdAt <= clock /\ during[i] \subseteq doc.createdAt .. clock - 1
    BY <1>0, <2>3, <2>5
  <2>7. doc.status = "resolved" => during[i] = Recorded(doc)
    BY <2>3, <2>4, <2>5
  <2>8. during[i] = doc.createdAt .. clock - 1
    BY <2>3, <2>4
  <2>9. doc \in Docs \cup {Unset} /\ revised \subseteq revised' /\ UNCHANGED <<clock, during, request>>
    BY <2>2, <2>3
  <2> QED
    BY <2>5, <2>6, <2>7, <2>8, <2>9, ChargedWrite
<1>2. CASE DetectOutage(i)
  <2>1. PICK c \in Components :
          incident' = [incident EXCEPT ![i] =
            [createdAt |-> clock, resolvedAt |-> Unset, status |-> "unresolved", targets |-> {c}]]
    BY <1>2 DEF DetectOutage
  <2> DEFINE doc == [createdAt |-> clock, resolvedAt |-> Unset, status |-> "unresolved", targets |-> {c}]
  <2>2. doc \in Docs
    BY <1>0 DEF Docs, IncidentStatuses
  <2>3. during[i] = {} /\ UNCHANGED <<clock, during, revised, request>>
    BY <1>2 DEF DetectOutage
  <2>4. doc.createdAt .. clock - 1 = {}
    BY <1>0
  <2>5. /\ doc.createdAt = clock /\ doc.resolvedAt = Unset /\ doc.status = "unresolved"
        /\ incident' = [incident EXCEPT ![i] = doc]
    BY <2>1
  <2> HIDE DEF doc
  <2>6. doc.createdAt <= clock /\ during[i] \subseteq doc.createdAt .. clock - 1
    BY <1>0, <2>3, <2>5
  <2>7. doc.status = "resolved" => during[i] = Recorded(doc)
    BY <2>3, <2>4, <2>5
  <2>8. during[i] = doc.createdAt .. clock - 1
    BY <2>3, <2>4
  <2>9. doc \in Docs \cup {Unset} /\ revised \subseteq revised' /\ UNCHANGED <<clock, during, request>>
    BY <2>2, <2>3
  <2> QED
    BY <2>5, <2>6, <2>7, <2>8, <2>9, ChargedWrite
<1>3. CASE ApplyIncidentStatus(i)
  <2>1. PICK st \in IncidentStatuses :
          incident' = [incident EXCEPT ![i] = WithStatus(@, st)]
    BY <1>3 DEF ApplyIncidentStatus
  <2> DEFINE was == incident[i]
             doc == WithStatus(was, st)
  <2>2. i \in StoredIncidents /\ was \in Docs
    BY <1>3 DEF ApplyIncidentStatus, StoredIncidents, ChargedInv, AvailabilityTyped
  <2>3. /\ doc \in Docs /\ doc.createdAt = was.createdAt /\ doc.status = st
        /\ doc.resolvedAt = IF st = "resolved" THEN clock ELSE was.resolvedAt
    BY <1>0, <2>2 DEF WithStatus, Docs
  <2>4. incident' = [incident EXCEPT ![i] = doc]
    BY <2>1
  <2>5. /\ UNCHANGED <<clock, during, request>> /\ revised \subseteq revised'
        /\ i \notin revised' => i \notin revised /\ was.status # "resolved"
    BY <1>3 DEF ApplyIncidentStatus
  <2>6. /\ was.createdAt <= clock
        /\ during[i] \subseteq was.createdAt .. clock - 1
        /\ i \notin revised' => was.resolvedAt = Unset /\ during[i] = was.createdAt .. clock - 1
    BY <2>2, <2>5 DEF ChargedInv, DocumentsTell
  <2>7. st = "resolved" => Recorded(doc) = was.createdAt .. clock - 1
    BY <1>0, <2>3, AvailabilityAssumption DEF Recorded
  <2> HIDE DEF doc
  <2> QED
    BY <2>3, <2>4, <2>5, <2>6, <2>7, ChargedWrite
<1>4. CASE Retarget(i)
  <2>1. PICK targets \in SUBSET Components \ {{}} : incident' = [incident EXCEPT ![i].targets = targets]
    BY <1>4 DEF Retarget
  <2> DEFINE was == incident[i]
             doc == [was EXCEPT !.targets = targets]
  <2>2. i \in StoredIncidents /\ was \in Docs
    BY <1>4 DEF Retarget, StoredIncidents, ChargedInv, AvailabilityTyped
  <2>3. /\ doc \in Docs /\ doc.createdAt = was.createdAt /\ doc.status = was.status
        /\ doc.resolvedAt = was.resolvedAt
    BY <2>2 DEF Docs
  <2>4. incident' = [incident EXCEPT ![i] = doc]
    BY <2>1
  <2>5. UNCHANGED <<clock, during, revised, request>>
    BY <1>4 DEF Retarget
  <2>6. Recorded(doc) = Recorded(was)
    BY <2>3 DEF Recorded
  <2> HIDE DEF doc
  <2> QED
    BY <2>2, <2>3, <2>4, <2>5, <2>6, ChargedWrite DEF ChargedInv, DocumentsTell
<1>5. CASE DeleteIncident(i)
  BY <1>5, ChargedWrite DEF DeleteIncident
<1> QED
  BY <1>1, <1>2, <1>3, <1>4, <1>5 DEF Writing

LEMMA ChargedAsk == ChargedInv /\ Ask => ChargedInv'
<1> SUFFICES ASSUME ChargedInv, Ask PROVE ChargedInv'
  OBVIOUS
<1>1. PICK p \in Periods : request' = [pc |-> "asked", period |-> p]
  BY DEF Ask
<1>2. request'.pc = "asked" /\ request'.period = p /\ UNCHANGED <<clock, incident, during, revised>>
  BY <1>1 DEF Ask
<1>3. AvailabilityTyped' /\ DocumentsTell'
  BY <1>2 DEF ChargedInv, AvailabilityTyped, DocumentsTell, StoredIncidents, Recorded
<1>4. PeriodIsPast'
  BY <1>2, PeriodsArePast DEF ChargedInv, AvailabilityTyped, PeriodIsPast
<1>5. KnownTells' /\ FoundOverlaps' /\ UnrevisedChargedExactly' /\ ResolvedHideNothing'
  BY <1>2 DEF KnownTells, FoundOverlaps, UnrevisedChargedExactly, ResolvedHideNothing
<1> QED
  BY <1>3, <1>4, <1>5 DEF ChargedInv

\* The documents read tell the history of the period, as they tell all of it.
LEMMA ChargedListIncidents == ChargedInv /\ ListIncidents => ChargedInv'
<1> SUFFICES ASSUME ChargedInv, ListIncidents PROVE ChargedInv'
  OBVIOUS
<1> DEFINE p == request.period
           read == [i \in StoredIncidents |-> incident[i]]
<1>1. request' = [pc |-> "listed", period |-> p, found |-> ListIncidentsOverlappingPeriod(p),
                  known |-> read, final |-> StoredIncidents \ revised]
      /\ UNCHANGED <<clock, incident, during, revised>> /\ request.pc = "asked"
  BY DEF ListIncidents
<1>2. /\ request'.pc = "listed" /\ request'.period = p /\ request'.known = read
      /\ request'.final = StoredIncidents \ revised
      /\ request'.found = ListIncidentsOverlappingPeriod(p)
  BY <1>1
<1>3. AvailabilityTyped' /\ DocumentsTell'
  BY <1>1 DEF ChargedInv, AvailabilityTyped, DocumentsTell, StoredIncidents, Recorded
<1>4. PeriodIsPast' /\ IsPeriod(p) /\ p.end <= clock
  BY <1>1, <1>2 DEF ChargedInv, PeriodIsPast
<1>5. KnownTells'
  <2> SUFFICES ASSUME NEW i \in StoredIncidents
               PROVE  LET doc == incident[i]
                          seen == during[i] \cap Units(p)
                      IN  /\ doc \in Docs
                          /\ doc.status = "resolved" => seen \subseteq Recorded(doc)
                          /\ i \notin revised =>
                               IF doc.status = "resolved" THEN seen = Recorded(doc) \cap Units(p)
                               ELSE seen = Covered(doc, p)
    BY <1>1, <1>2 DEF KnownTells, StoredIncidents, Seen, Recorded, Units, Covered
  <2>1. incident[i] \in Docs /\ clock \in Nat /\ incident[i].createdAt \in Nat
    BY DEF StoredIncidents, ChargedInv, AvailabilityTyped, Docs
  <2>2. CASE incident[i].status = "resolved"
    BY <2>1, <2>2 DEF ChargedInv, DocumentsTell
  <2>3. CASE incident[i].status # "resolved"
    <3>1. incident[i].resolvedAt = Unset =>
            (incident[i].createdAt .. clock - 1) \cap Units(p) = Covered(incident[i], p)
      BY <1>4, <2>1 DEF Covered, Units, IsPeriod
    <3> QED
      BY <2>1, <2>3, <3>1 DEF ChargedInv, DocumentsTell
  <2> QED
    BY <2>2, <2>3
<1>6. FoundOverlaps'
  <2>1. \A i \in StoredIncidents : read[i] = incident[i] /\ DOMAIN read = StoredIncidents
    OBVIOUS
  <2>2. ListIncidentsOverlappingPeriod(p) = {i \in StoredIncidents : Overlaps(incident[i], p)}
    BY DEF ListIncidentsOverlappingPeriod, Overlaps
  <2> QED
    BY <1>2, <2>1, <2>2 DEF FoundOverlaps, Overlaps
<1>7. UnrevisedChargedExactly' /\ ResolvedHideNothing'
  BY <1>2 DEF UnrevisedChargedExactly, ResolvedHideNothing
<1> QED
  BY <1>3, <1>4, <1>5, <1>6, <1>7 DEF ChargedInv

\* A document the filter lets through is charged with what it covers, and the
\* others cover nothing when they are resolved.
LEMMA ChargedComputeAvailability == ChargedInv /\ ComputeAvailability => ChargedInv'
<1> SUFFICES ASSUME ChargedInv, ComputeAvailability PROVE ChargedInv'
  OBVIOUS
<1> DEFINE p == request.period
           known == request.known
           entries == [i \in {j \in request.found : DowntimeOf(known[j], p) # {}} |->
                         CHOOSE iv \in DowntimeOf(known[i], p) : TRUE]
<1>1. /\ request'.pc = "answered" /\ request'.period = p /\ request'.known = known
      /\ request'.final = request.final /\ request'.entries = entries
  BY DEF ComputeAvailability
<1>2. request.pc = "listed" /\ UNCHANGED <<clock, incident, during, revised>>
  BY DEF ComputeAvailability
<1>3. AvailabilityTyped' /\ DocumentsTell'
  BY <1>2 DEF ChargedInv, AvailabilityTyped, DocumentsTell, StoredIncidents, Recorded
<1>4. PeriodIsPast' /\ IsPeriod(p) /\ p.end <= clock /\ clock \in Nat
  BY <1>1, <1>2 DEF ChargedInv, PeriodIsPast, AvailabilityTyped
<1>5. KnownTells'
  BY <1>1, <1>2 DEF ChargedInv, KnownTells, Seen, Covered, Units, Recorded
<1>6. FoundOverlaps'
  BY <1>1 DEF FoundOverlaps
<1>7. ASSUME NEW i \in DOMAIN known
      PROVE  Charged(i)' = IF Overlaps(known[i], p) THEN Covered(known[i], p) ELSE {}
  <2>1. known[i] \in Docs /\ (i \in request.found <=> Overlaps(known[i], p))
    BY <1>2 DEF ChargedInv, KnownTells, FoundOverlaps
  <2>2. CASE i \in DOMAIN entries
    <3>1. entries[i] \in DowntimeOf(known[i], p) /\ i \in request.found
      BY <2>2
    <3>2. Charged(i)' = Units(entries[i])
      BY <1>1, <2>2 DEF Charged, Units
    <3> QED
      BY <1>4, <2>1, <3>1, <3>2, DowntimeUnits
  <2>3. CASE i \notin DOMAIN entries
    <3>1. Charged(i)' = {}
      BY <1>1, <2>3 DEF Charged
    <3>2. i \in request.found => DowntimeOf(known[i], p) = {}
      BY <2>3
    <3> QED
      BY <1>4, <2>1, <3>1, <3>2, DowntimeUnits
  <2> QED
    BY <2>2, <2>3
<1>8. ASSUME NEW i \in DOMAIN known, known[i].status = "resolved"
      PROVE  Charged(i)' = Recorded(known[i]) \cap Units(p)
  <2>1. known[i] \in Docs
    BY <1>2 DEF ChargedInv, KnownTells
  <2>2. CASE known[i].resolvedAt = Unset
    BY <1>7, <1>8, <2>2 DEF Overlaps, Recorded
  <2>3. CASE known[i].resolvedAt # Unset
    <3>1. known[i].createdAt \in Nat /\ known[i].resolvedAt \in Nat
      BY <2>1, <2>3 DEF Docs
    <3>2. Covered(known[i], p) = Recorded(known[i]) \cap Units(p)
      BY <1>4, <2>3, <3>1 DEF Covered, Recorded, Units, IsPeriod
    <3>3. ~Overlaps(known[i], p) => Covered(known[i], p) = {}
      BY <1>4, <1>8, <2>3, <3>1 DEF Covered, Overlaps, Units, IsPeriod
    <3> QED
      BY <1>7, <3>2, <3>3
  <2> QED
    BY <2>2, <2>3
<1>9. ResolvedHideNothing'
  <2>1. \A i \in DOMAIN known : known[i].status = "resolved" => Seen(i) \subseteq Recorded(known[i])
    BY <1>2 DEF ChargedInv, KnownTells
  <2> QED
    BY <1>1, <1>2, <1>8, <2>1 DEF ResolvedHideNothing, Seen, Units
<1>10. UnrevisedChargedExactly'
  <2> SUFFICES ASSUME NEW i \in request.final PROVE Charged(i)' = Seen(i)
    BY <1>1, <1>2 DEF UnrevisedChargedExactly, Seen, Units
  <2>1. i \in DOMAIN known /\ known[i] \in Docs
    BY <1>2 DEF ChargedInv, KnownTells
  <2>2. CASE known[i].status = "resolved"
    BY <1>2, <1>8, <2>1, <2>2 DEF ChargedInv, KnownTells
  <2>3. CASE known[i].status # "resolved"
    <3>1. Seen(i) = Covered(known[i], p)
      BY <1>2, <2>1, <2>3 DEF ChargedInv, KnownTells
    <3>2. ~Overlaps(known[i], p) => Covered(known[i], p) = {}
      BY <1>4, <2>1, <2>3 DEF Covered, Overlaps, Units, IsPeriod, Docs
    <3> QED
      BY <1>7, <2>1, <3>1, <3>2
  <2> QED
    BY <2>2, <2>3
<1> QED
  BY <1>3, <1>4, <1>5, <1>6, <1>9, <1>10 DEF ChargedInv

LEMMA ChargedStep == ChargedInv /\ [AvailabilityNext]_availabilityVars => ChargedInv'
<1> SUFFICES ASSUME ChargedInv, [AvailabilityNext]_availabilityVars PROVE ChargedInv'
  OBVIOUS
<1>1. CASE Requesting
  BY <1>1, ChargedAsk, ChargedListIncidents, ChargedComputeAvailability DEF Requesting
<1>2. ASSUME NEW i \in Incidents, Writing(i) PROVE ChargedInv'
  BY <1>2, ChargedWriting
<1>3. CASE PassTime
  BY <1>3, ChargedPassTime
<1>4. CASE UNCHANGED availabilityVars
  <2>1. UNCHANGED <<clock, incident, during, revised, request>>
    BY <1>4 DEF availabilityVars
  <2>2. AvailabilityTyped' /\ DocumentsTell'
    BY <2>1 DEF ChargedInv, AvailabilityTyped, DocumentsTell, StoredIncidents, Recorded
  <2> QED
    BY <2>1, <2>2, RequestAside DEF ChargedInv, AvailabilityTyped
<1> QED
  BY <1>1, <1>2, <1>3, <1>4 DEF AvailabilityNext

\* Whatever incidents are resolved, reopened and resolved again, those that
\* are resolved when they are read are charged with all of their downtime.
THEOREM ResolvedAreCharged == AvailabilitySpec => []ResolvedHideNothing
<1>1. ChargedInv => ResolvedHideNothing
  BY DEF ChargedInv
<1> QED
  BY <1>1, ChargedInit, ChargedStep, PTL DEF AvailabilitySpec

(***************************************************************************)
(* The interval arithmetic of the answers.  The provers cannot instantiate *)
(* an induction theorem, so what the loops of MergeIntervals and           *)
(* TotalDuration keep is shown of the least round that would break it.     *)
(***************************************************************************)
\* A set of numbers that is not empty has a least element.
LEMMA LeastOf ==
  ASSUME NEW T \in SUBSET Nat, T # {}
  PROVE  \E n \in T : \A k \in T : n <= k
<1> DEFINE R == StrictSubsetOrdering(Nat)
           Below(x) == {k \in T : k <= x}
           C == {Below(x) : x \in T}
<1>0. \A i \in T : i \in Nat
  OBVIOUS
<1>1. IsWellFoundedOn(R, FiniteSubsetsOf(Nat))
  BY FS_StrictSubsetOrderingWellFounded
<1>2. C \subseteq FiniteSubsetsOf(Nat) /\ C # {}
  <2>1. ASSUME NEW x \in T PROVE Below(x) \in FiniteSubsetsOf(Nat)
    <3>1. x \in Nat /\ Below(x) \subseteq 0 .. x
      <4>1. ASSUME NEW i \in Below(x) PROVE i \in Nat /\ x \in Nat /\ 0 <= i /\ i <= x
        BY <1>0
      <4>2. x \in Nat /\ \A i \in Nat : 0 <= i /\ i <= x => i \in 0 .. x
        BY <1>0
      <4> QED BY <4>1, <4>2, Zenon
    <3>2. IsFiniteSet(Below(x))
      <4>1. 0 \in Int /\ x \in Int  BY <3>1
      <4>2. IsFiniteSet(0 .. x)  BY <4>1, FS_Interval
      <4> HIDE DEF Below
      <4> QED BY <3>1, <4>2, FS_Subset
    <3> QED BY <3>2 DEF FiniteSubsetsOf
  <2> HIDE DEF Below
  <2> QED BY <2>1
<1> HIDE DEF R
<1>3. PICK A \in C : \A B \in C : <<B, A>> \notin R
  <2> HIDE DEF C
  <2> QED BY <1>1, <1>2, WFMin
<1>4. PICK n \in T : A = Below(n)
  OBVIOUS
<1>5. ASSUME NEW k \in T, ~(n <= k) PROVE FALSE
  <2>1. k \in Nat /\ n \in Nat /\ k < n
    BY <1>5
  <2>2. Below(k) \subseteq Below(n) /\ n \in Below(n) /\ n \notin Below(k)
    <3>1. \A i \in T : i \in Nat /\ (i <= k => i <= n)
      BY <2>1
    <3>2. ~(n <= k) /\ n <= n
      BY <2>1
    <3>3. Below(k) \subseteq Below(n)
      BY <3>1
    <3>4. n \in Below(n) /\ n \notin Below(k)
      BY <3>2
    <3> QED BY <3>3, <3>4
  <2>3. Below(k) \in C /\ Below(k) \in SUBSET Nat /\ Below(n) \in SUBSET Nat
    OBVIOUS
  <2>4. <<Below(k), Below(n)>> \in R
    <3>1. Below(k) # Below(n)  BY <2>2
    <3> HIDE DEF Below
    <3> QED BY <2>2, <2>3, <3>1 DEF R, StrictSubsetOrdering
  <2> QED BY <1>3, <1>4, <2>3, <2>4
<1> QED BY <1>5


\* Intervals that are not empty.
Intervals == {iv \in [start : Int, end : Int] : iv.start < iv.end}

\* An order of the incidents by their intervals, as Sorted chooses one.
Orders(f, entries, ids) ==
  /\ f \in Bijection(1 .. Cardinality(ids), ids)
  /\ \A j, k \in 1 .. Cardinality(ids) : j < k => ~Before(entries[f[k]], entries[f[j]])

\* An order of incidents is extended by one more: it comes before the first
\* whose interval is after its own.
LEMMA OrderExtends ==
  ASSUME NEW entries, NEW S, IsFiniteSet(S), \A i \in S : entries[i] \in Intervals,
         NEW x \in S, NEW f, Orders(f, entries, S \ {x})
  PROVE  \E g : Orders(g, entries, S)
<1> DEFINE T == S \ {x}
           n == Cardinality(S)
           K == {k \in 1 .. n : k = n \/ Before(entries[x], entries[f[k]])}
<1>1. IsFiniteSet(T) /\ n \in Nat /\ n # 0 /\ Cardinality(T) = n - 1
  <2>1. IsFiniteSet(T)
    BY FS_Subset
  <2>2. S = T \cup {x} /\ x \notin T
    OBVIOUS
  <2>3. n = Cardinality(T) + 1 /\ Cardinality(T) \in Nat
    <3> HIDE DEF T
    <3> QED BY <2>1, <2>2, FS_AddElement, FS_CardinalityType
  <2> QED
    BY <2>1, <2>3
<1>2. /\ f \in [1 .. n - 1 -> T]
      /\ \A i, j \in 1 .. n - 1 : f[i] = f[j] => i = j
      /\ \A t \in T : \E i \in 1 .. n - 1 : f[i] = t
      /\ \A j, k \in 1 .. n - 1 : j < k => ~Before(entries[f[k]], entries[f[j]])
  BY <1>1 DEF Orders, Bijection, Injection, Surjection, IsInjective
<1>3. PICK k \in K : \A j \in K : k <= j
  <2>1. n \in K /\ K \in SUBSET Nat
    BY <1>1
  <2> HIDE DEF K
  <2> QED
    BY <2>1, LeastOf
<1> DEFINE g == [i \in 1 .. n |-> IF i < k THEN f[i] ELSE IF i = k THEN x ELSE f[i - 1]]
<1>4. k \in 1 .. n /\ \A i \in 1 .. n : i < k => ~Before(entries[x], entries[f[i]])
  BY <1>1, <1>3
<1>5. k # n => Before(entries[x], entries[f[k]])
  BY <1>3
<1> HIDE DEF K, n
<1>6. /\ \A i \in 1 .. n : g[i] = IF i < k THEN f[i] ELSE IF i = k THEN x ELSE f[i - 1]
      /\ DOMAIN g = 1 .. n
  OBVIOUS
<1>7. \A i \in 1 .. n : /\ i < k => i \in 1 .. n - 1 /\ f[i] \in T
                        /\ i > k => i - 1 \in 1 .. n - 1 /\ f[i - 1] \in T
  BY <1>1, <1>2, <1>4
<1>8. g \in [1 .. n -> S]
  BY <1>4, <1>7
<1> HIDE DEF g
<1>9. ASSUME NEW i \in 1 .. n, NEW j \in 1 .. n, g[i] = g[j] PROVE i = j
  BY <1>1, <1>2, <1>4, <1>6, <1>7, <1>9
<1>10. ASSUME NEW t \in S PROVE \E i \in 1 .. n : g[i] = t
  <2>1. CASE t = x
    BY <1>4, <1>6, <2>1
  <2>2. CASE t # x
    <3>1. PICK i \in 1 .. n - 1 : f[i] = t
      BY <1>2, <2>2
    <3>2. CASE i < k
      BY <1>1, <1>4, <1>6, <3>1, <3>2
    <3>3. CASE i >= k
      <4>1. i + 1 \in 1 .. n /\ i + 1 > k /\ (i + 1) - 1 = i
        BY <1>1, <1>4, <3>1, <3>3
      <4>2. g[i + 1] = f[(i + 1) - 1]
        BY <1>4, <1>6, <4>1
      <4> QED
        BY <3>1, <4>1, <4>2
    <3> QED
      BY <1>1, <1>4, <3>1, <3>2, <3>3
  <2> QED
    BY <2>1, <2>2
<1>11. ASSUME NEW i \in 1 .. n, NEW j \in 1 .. n, i < j
       PROVE  ~Before(entries[g[j]], entries[g[i]])
  <2>1. CASE j < k
    BY <1>1, <1>2, <1>4, <1>6, <1>7, <1>11, <2>1
  <2>2. CASE j = k
    BY <1>1, <1>4, <1>6, <1>11, <2>2
  <2>3. CASE j > k /\ i < k
    <3>1. i \in 1 .. n - 1 /\ j - 1 \in 1 .. n - 1 /\ i < j - 1
      BY <1>1, <1>4, <2>3
    <3>2. g[i] = f[i] /\ g[j] = f[j - 1]
      BY <1>4, <1>6, <2>3
    <3> QED
      BY <1>2, <3>1, <3>2
  <2>4. CASE j > k /\ i = k
    <3>1. j - 1 \in 1 .. n - 1 /\ k \in 1 .. n - 1 /\ k # n /\ k <= j - 1
      BY <1>1, <1>4, <2>4
    <3>2. g[i] = x /\ g[j] = f[j - 1]
      BY <1>4, <1>6, <2>4
    <3>3. entries[x] \in Intervals /\ entries[f[k]] \in Intervals /\ entries[f[j - 1]] \in Intervals
      BY <1>2, <3>1
    <3>4. Before(entries[x], entries[f[k]])
      BY <1>5, <3>1
    <3>5. j - 1 = k \/ ~Before(entries[f[j - 1]], entries[f[k]])
      BY <1>2, <3>1
    <3> QED
      BY <3>2, <3>3, <3>4, <3>5 DEF Before, Intervals
  <2>5. CASE j > k /\ i > k
    <3>1. i - 1 \in 1 .. n - 1 /\ j - 1 \in 1 .. n - 1 /\ i - 1 < j - 1
      BY <1>1, <1>4, <1>11, <2>5
    <3>2. g[i] = f[i - 1] /\ g[j] = f[j - 1]
      BY <1>4, <1>6, <2>5
    <3> QED
      BY <1>2, <3>1, <3>2
  <2> QED
    BY <1>1, <1>4, <2>1, <2>2, <2>3, <2>4, <2>5
<1> QED
  BY <1>8, <1>9, <1>10, <1>11 DEF Orders, Bijection, Injection, Surjection, IsInjective, n

\* Finitely many incidents can be put in order.
LEMMA OrderExists ==
  ASSUME NEW entries, NEW ids, IsFiniteSet(ids), \A i \in ids : entries[i] \in Intervals
  PROVE  \E f : Orders(f, entries, ids)
<1> DEFINE Unordered(S) == S \in SUBSET ids /\ ~ \E f : Orders(f, entries, S)
           Sizes == {n \in Nat : \E S \in SUBSET ids : Unordered(S) /\ Cardinality(S) = n}
<1> SUFFICES ASSUME Unordered(ids) PROVE FALSE
  OBVIOUS
<1>1. Cardinality(ids) \in Sizes
  BY FS_CardinalityType
<1>2. PICK n \in Sizes : \A m \in Sizes : n <= m
  <2>1. Sizes \in SUBSET Nat /\ Sizes # {}
    BY <1>1
  <2> HIDE DEF Sizes
  <2> QED
    BY <2>1, LeastOf
<1>3. PICK S \in SUBSET ids : Unordered(S) /\ Cardinality(S) = n
  BY <1>2
<1>4. n \in Nat /\ IsFiniteSet(S)
  BY <1>2, FS_Subset
<1>5. S # {}
  <2> SUFFICES ASSUME S = {} PROVE FALSE
    OBVIOUS
  <2> DEFINE f == [i \in 1 .. 0 |-> 0]
  <2>1. Cardinality(S) = 0 /\ 1 .. 0 = {}
    BY FS_EmptySet
  <2>2. Orders(f, entries, S)
    BY <2>1 DEF Orders, Bijection, Injection, Surjection, IsInjective
  <2> QED
    BY <1>3, <2>2
<1>6. PICK x \in S : TRUE
  BY <1>5
<1>7. IsFiniteSet(S \ {x}) /\ Cardinality(S \ {x}) \in Nat /\ Cardinality(S \ {x}) < n
  <2> DEFINE T == S \ {x}
  <2>1. IsFiniteSet(T) /\ S = T \cup {x} /\ x \notin T
    BY <1>4, FS_Subset
  <2> HIDE DEF T
  <2>2. Cardinality(S) = Cardinality(T) + 1 /\ Cardinality(T) \in Nat
    BY <2>1, FS_AddElement, FS_CardinalityType
  <2> QED
    BY <1>3, <2>1, <2>2 DEF T
<1>8. Cardinality(S \ {x}) \notin Sizes
  BY <1>2, <1>4, <1>7
<1>9. PICK f : Orders(f, entries, S \ {x})
  BY <1>7, <1>8
<1>10. \E g : Orders(g, entries, S)
  BY <1>4, <1>6, <1>9, OrderExtends
<1> QED
  BY <1>3, <1>10

\* Sorted gives the intervals of the incidents, one for each, in order.
LEMMA SortedIs ==
  ASSUME NEW entries, NEW ids, IsFiniteSet(ids), \A i \in ids : entries[i] \in Intervals
  PROVE  LET s == Sorted(entries, ids)
         IN  /\ s \in Seq(Intervals)
             /\ \A j, k \in DOMAIN s : j < k => s[j].start <= s[k].start
             /\ \A i \in ids : \E k \in DOMAIN s : s[k] = entries[i]
             /\ \A k \in DOMAIN s : \E i \in ids : s[k] = entries[i]
<1> DEFINE n == Cardinality(ids)
           positions == 1 .. n
           order == CHOOSE f \in Bijection(positions, ids) :
                      \A j, k \in positions : j < k => ~Before(entries[f[k]], entries[f[j]])
           s == [k \in positions |-> entries[order[k]]]
<1>1. Sorted(entries, ids) = s
  BY DEF Sorted
<1>2. Orders(order, entries, ids)
  <2>1. \E f \in Bijection(positions, ids) :
          \A j, k \in positions : j < k => ~Before(entries[f[k]], entries[f[j]])
    BY OrderExists DEF Orders
  <2> QED
    BY <2>1 DEF Orders
<1>3. n \in Nat
  BY FS_CardinalityType
<1> HIDE DEF order, n
<1>4. /\ \A k \in positions : order[k] \in ids
      /\ \A i \in ids : \E k \in positions : order[k] = i
      /\ \A j, k \in positions : j < k => ~Before(entries[order[k]], entries[order[j]])
  BY <1>2 DEF Orders, Bijection, Injection, Surjection, n
<1>5. s \in Seq(Intervals) /\ DOMAIN s = positions
  BY <1>3, <1>4
<1>6. ASSUME NEW j \in positions, NEW k \in positions, j < k PROVE s[j].start <= s[k].start
  <2>1. s[j] \in Intervals /\ s[k] \in Intervals /\ ~Before(s[k], s[j])
    BY <1>4, <1>6
  <2> QED
    BY <2>1 DEF Before, Intervals
<1> QED
  BY <1>1, <1>4, <1>5, <1>6

\* The loop of MergeIntervals, one round at a time.
LEMMA MergeRounds ==
  ASSUME NEW s, Len(s) \in Nat
  PROVE  \E merged :
           /\ merged[0] = <<>>
           /\ \A k \in 1 .. Len(s) : merged[k] = MergeStep(merged[k - 1], s[k])
           /\ MergeIntervals(s) = merged[Len(s)]
<1> DEFINE Rounds(f, n) == f = [k \in 0 .. n |-> IF k = 0 THEN <<>> ELSE MergeStep(f[k - 1], s[k])]
           Undone == {n \in Nat : ~ \E f : Rounds(f, n)}
<1>1. Undone = {}
  <2> SUFFICES ASSUME Undone # {} PROVE FALSE
    OBVIOUS
  <2>1. PICK n \in Undone : \A m \in Undone : n <= m
    <3>1. Undone \in SUBSET Nat
      OBVIOUS
    <3> HIDE DEF Undone
    <3> QED
      BY <3>1, LeastOf
  <2>2. n # 0
    <3>1. Rounds([k \in 0 .. 0 |-> <<>>], 0)
      OBVIOUS
    <3> QED
      BY <2>1, <3>1
  <2>3. n \in Nat /\ n - 1 \in Nat /\ n - 1 \notin Undone
    <3>1. n \in Nat
      BY <2>1
    <3> HIDE DEF Undone
    <3> QED
      BY <2>1, <2>2, <3>1
  <2>4. PICK f : Rounds(f, n - 1)
    BY <2>3
  <2> DEFINE g == [k \in 0 .. n |-> IF k = n THEN MergeStep(f[n - 1], s[n]) ELSE f[k]]
  <2>5. \A k \in 0 .. n - 1 : f[k] = IF k = 0 THEN <<>> ELSE MergeStep(f[k - 1], s[k])
    BY <2>4
  <2>6. ASSUME NEW k \in 0 .. n PROVE g[k] = IF k = 0 THEN <<>> ELSE MergeStep(g[k - 1], s[k])
    <3>1. CASE k = n
      <4>1. g[k - 1] = f[n - 1] /\ g[k] = MergeStep(f[n - 1], s[n])
        BY <2>2, <2>3, <3>1
      <4> QED
        BY <2>2, <3>1, <4>1
    <3>2. CASE k # n
      <4>1. k \in 0 .. n - 1 /\ g[k] = f[k] /\ (k # 0 => g[k - 1] = f[k - 1])
        BY <2>3, <3>2
      <4> HIDE DEF g
      <4> QED
        BY <2>5, <4>1
    <3> QED
      BY <3>1, <3>2
  <2>7. Rounds(g, n)
    <3>1. g = [k \in 0 .. n |-> g[k]]
      OBVIOUS
    <3> HIDE DEF g
    <3> QED
      BY <2>6, <3>1
  <2> QED
    BY <2>1, <2>7
<1> DEFINE merged == CHOOSE f : Rounds(f, Len(s))
<1>2. Rounds(merged, Len(s))
  BY <1>1
<1>3. MergeIntervals(s) = merged[Len(s)]
  BY DEF MergeIntervals
<1> HIDE DEF merged
<1>4. merged[0] = <<>> /\ \A k \in 1 .. Len(s) : merged[k] = MergeStep(merged[k - 1], s[k])
  BY <1>2
<1> QED
  BY <1>3, <1>4

\* The loop of TotalDuration, one round at a time.
LEMMA TotalRounds ==
  ASSUME NEW s, Len(s) \in Nat
  PROVE  \E total :
           /\ total[0] = 0
           /\ \A k \in 1 .. Len(s) : total[k] = total[k - 1] + (s[k].end - s[k].start)
           /\ TotalDuration(s) = total[Len(s)]
<1> DEFINE Added(t, k) == t + (s[k].end - s[k].start)
           Rounds(f, n) == f = [k \in 0 .. n |-> IF k = 0 THEN 0 ELSE Added(f[k - 1], k)]
           Undone == {n \in Nat : ~ \E f : Rounds(f, n)}
<1>1. Undone = {}
  <2> HIDE DEF Added
  <2> SUFFICES ASSUME Undone # {} PROVE FALSE
    OBVIOUS
  <2>1. PICK n \in Undone : \A m \in Undone : n <= m
    <3>1. Undone \in SUBSET Nat
      OBVIOUS
    <3> HIDE DEF Undone
    <3> QED
      BY <3>1, LeastOf
  <2>2. n # 0
    <3>1. Rounds([k \in 0 .. 0 |-> 0], 0)
      OBVIOUS
    <3> QED
      BY <2>1, <3>1
  <2>3. n \in Nat /\ n - 1 \in Nat /\ n - 1 \notin Undone
    <3>1. n \in Nat
      BY <2>1
    <3> HIDE DEF Undone
    <3> QED
      BY <2>1, <2>2, <3>1
  <2>4. PICK f : Rounds(f, n - 1)
    BY <2>3
  <2> DEFINE g == [k \in 0 .. n |-> IF k = n THEN Added(f[n - 1], n) ELSE f[k]]
  <2>5. \A k \in 0 .. n - 1 : f[k] = IF k = 0 THEN 0 ELSE Added(f[k - 1], k)
    BY <2>4
  <2>6. ASSUME NEW k \in 0 .. n PROVE g[k] = IF k = 0 THEN 0 ELSE Added(g[k - 1], k)
    <3>1. CASE k = n
      <4>1. g[k - 1] = f[n - 1] /\ g[k] = Added(f[n - 1], n)
        BY <2>2, <2>3, <3>1
      <4> QED
        BY <2>2, <3>1, <4>1
    <3>2. CASE k # n
      <4>1. k \in 0 .. n - 1 /\ g[k] = f[k] /\ (k # 0 => g[k - 1] = f[k - 1])
        BY <2>3, <3>2
      <4> HIDE DEF g
      <4> QED
        BY <2>5, <4>1
    <3> QED
      BY <3>1, <3>2
  <2>7. Rounds(g, n)
    <3>1. g = [k \in 0 .. n |-> g[k]]
      OBVIOUS
    <3> HIDE DEF g
    <3> QED
      BY <2>6, <3>1
  <2> QED
    BY <2>1, <2>7
<1> DEFINE total == CHOOSE f : Rounds(f, Len(s))
<1>2. Rounds(total, Len(s))
  BY <1>1
<1>3. TotalDuration(s) = total[Len(s)]
  BY DEF TotalDuration
<1> HIDE DEF total
<1>4. total[0] = 0 /\ \A k \in 1 .. Len(s) : total[k] = total[k - 1] + (s[k].end - s[k].start)
  BY <1>2
<1> QED
  BY <1>3, <1>4

\* The unit u belongs to one of the first n intervals of s.
Within(u, s, n) == \E k \in 1 .. n : s[k].start <= u /\ u < s[k].end

InOrder(s) == \A j, k \in DOMAIN s : j < k => s[j].start <= s[k].start

\* The intervals of m neither overlap nor touch.
Apart(m) == \A j, k \in DOMAIN m : j < k => m[j].end < m[k].start

\* What k rounds of MergeIntervals have made of the intervals s.
MergedSoFar(m, s, k) ==
  /\ m \in Seq(Intervals) /\ Apart(m)
  /\ k > 0 => m # <<>> /\ m[Len(m)].start <= s[k].start
  /\ \A u \in Int : Within(u, m, Len(m)) <=> Within(u, s, k)

LEMMA MergeStepKeeps ==
  ASSUME NEW s \in Seq(Intervals), InOrder(s), NEW k \in 1 .. Len(s), NEW m, MergedSoFar(m, s, k - 1)
  PROVE  MergedSoFar(MergeStep(m, s[k]), s, k)
<1> DEFINE n == Len(m)
           next == s[k]
           new == MergeStep(m, next)
<1>1. /\ n \in Nat /\ k \in Nat \ {0} /\ m \in Seq(Intervals)
      /\ next \in Intervals /\ next.start \in Int /\ next.end \in Int /\ next.start < next.end
      /\ \A j \in 1 .. n : /\ m[j] \in Intervals /\ m[j].start \in Int /\ m[j].end \in Int
                           /\ m[j].start < m[j].end
  BY DEF MergedSoFar, Intervals
<1>2. ASSUME NEW u \in Int
      PROVE  Within(u, s, k) <=> Within(u, m, n) \/ (next.start <= u /\ u < next.end)
  <2>1. Within(u, s, k) <=> Within(u, s, k - 1) \/ (next.start <= u /\ u < next.end)
    BY <1>1 DEF Within
  <2> QED
    BY <2>1 DEF MergedSoFar
<1>3. m # <<>> => n \in 1 .. n /\ m[n].start <= next.start
  <2> SUFFICES ASSUME m # <<>> PROVE n \in 1 .. n /\ m[n].start <= next.start
    OBVIOUS
  <2>1. n \in 1 .. n
    BY <1>1
  <2>2. k - 1 > 0
    <3> SUFFICES ASSUME k = 1 PROVE FALSE
      BY <1>1
    <3>1. Within(m[n].start, m, n) /\ ~Within(m[n].start, s, 0)
      BY <1>1, <2>1 DEF Within
    <3> QED
      BY <1>1, <2>1, <3>1 DEF MergedSoFar
  <2>3. m[n].start <= s[k - 1].start /\ s[k - 1].start <= next.start
    <3>1. k - 1 \in DOMAIN s /\ k \in DOMAIN s /\ k - 1 < k
      BY <1>1, <2>2
    <3>2. m[n].start <= s[k - 1].start
      BY <2>2 DEF MergedSoFar
    <3> QED
      BY <3>1, <3>2 DEF InOrder
  <2>4. s[k - 1].start \in Int
    BY <2>2, <1>1 DEF Intervals
  <2> QED
    BY <1>1, <2>1, <2>3, <2>4
<1>4. CASE m # <<>> /\ next.start <= m[n].end
  <2> DEFINE end == LatestOf(m[n].end, next.end)
  <2>0. /\ n \in 1 .. n /\ DOMAIN m = 1 .. n /\ m[n].start <= next.start
        /\ m[n] \in Intervals /\ m[n].start \in Int /\ m[n].end \in Int /\ m[n].start < m[n].end
    BY <1>1, <1>3, <1>4
  <2>1. end \in Int /\ m[n].end <= end /\ next.end <= end /\ (end = m[n].end \/ end = next.end)
    BY <1>1, <2>0 DEF LatestOf
  <2>2. new = [m EXCEPT ![n].end = end]
    BY <1>4 DEF MergeStep
  <2> HIDE DEF end, new
  <2>3. /\ new \in [1 .. n -> Intervals]
        /\ new[n].start = m[n].start /\ new[n].end = end
        /\ \A j \in 1 .. n : j # n => new[j] = m[j]
    <3>1. [m[n] EXCEPT !.end = end] \in Intervals
      <4>1. m[n] = [start |-> m[n].start, end |-> m[n].end]
        BY <2>0 DEF Intervals
      <4>2. [m[n] EXCEPT !.end = end] = [start |-> m[n].start, end |-> end]
        BY <4>1
      <4>3. m[n].start < end
        BY <2>0, <2>1
      <4> HIDE DEF n
      <4> QED
        BY <2>0, <2>1, <4>2, <4>3 DEF Intervals
    <3>2. new = [m EXCEPT ![n] = [m[n] EXCEPT !.end = end]]
      BY <2>2
    <3>3. new[n] = [m[n] EXCEPT !.end = end] /\ \A j \in 1 .. n : j # n => new[j] = m[j]
      BY <2>0, <3>2
    <3>4. m[n] \in [start : Int, end : Int]
      BY <2>0 DEF Intervals
    <3>5. new[n].start = m[n].start /\ new[n].end = end
      BY <3>3, <3>4
    <3>6. m \in [1 .. n -> Intervals]
      BY <1>1
    <3>7. new \in [1 .. n -> Intervals]
      BY <2>0, <3>1, <3>2, <3>6
    <3> QED
      BY <3>3, <3>5, <3>7
  <2>4. new \in Seq(Intervals) /\ Len(new) = n /\ DOMAIN new = 1 .. n
    BY <1>1, <2>3
  <2>5. Apart(new)
    <3> SUFFICES ASSUME NEW i \in 1 .. n, NEW j \in 1 .. n, i < j PROVE new[i].end < new[j].start
      BY <2>4 DEF Apart
    <3>1. i # n /\ new[i] = m[i] /\ new[j].start = m[j].start
      BY <1>1, <2>3
    <3>2. m[i].end < m[j].start
      BY <2>0 DEF Apart, MergedSoFar
    <3> QED
      BY <3>1, <3>2
  <2>6. new # <<>> /\ new[Len(new)].start <= next.start
    <3>1. new # <<>>
      BY <2>0, <2>4
    <3>2. new[Len(new)].start = m[n].start
      BY <2>3, <2>4
    <3> QED
      BY <2>0, <3>1, <3>2
  <2>7. ASSUME NEW u \in Int PROVE Within(u, new, n) <=> Within(u, s, k)
    <3>1. (new[n].start <= u /\ u < new[n].end)
            <=> (m[n].start <= u /\ u < m[n].end) \/ (next.start <= u /\ u < next.end)
      <4>1. next.start <= m[n].end /\ next.start \in Int /\ next.end \in Int
        BY <1>1, <1>4
      <4> HIDE DEF next, n
      <4> QED
        BY <2>0, <2>1, <2>3, <4>1
    <3>2. Within(u, new, n) <=> Within(u, m, n) \/ (next.start <= u /\ u < next.end)
      BY <2>0, <2>3, <3>1 DEF Within
    <3> QED
      BY <1>2, <3>2
  <2> QED
    BY <2>4, <2>5, <2>6, <2>7 DEF MergedSoFar, new
<1>5. CASE ~(m # <<>> /\ next.start <= m[n].end)
  <2>1. new = Append(m, next)
    BY <1>5 DEF MergeStep
  <2> HIDE DEF new
  <2>2. /\ new \in Seq(Intervals) /\ Len(new) = n + 1 /\ DOMAIN new = 1 .. n + 1
        /\ new[n + 1] = next /\ \A j \in 1 .. n : new[j] = m[j]
    BY <1>1, <2>1
  <2>3. \A j \in 1 .. n : m[j].end < next.start
    <3> SUFFICES ASSUME NEW j \in 1 .. n PROVE m[j].end < next.start
      OBVIOUS
    <3>1. n \in 1 .. n /\ m[n].end < next.start
      BY <1>1, <1>3, <1>5
    <3>2. j = n \/ m[j].end < m[n].start
      BY <1>1, <3>1 DEF MergedSoFar, Apart
    <3> QED
      BY <1>1, <3>1, <3>2
  <2>4. Apart(new)
    <3> SUFFICES ASSUME NEW i \in 1 .. n + 1, NEW j \in 1 .. n + 1, i < j
                 PROVE  new[i].end < new[j].start
      BY <2>2 DEF Apart
    <3>1. i \in 1 .. n /\ new[i] = m[i]
      BY <1>1, <2>2
    <3>2. CASE j = n + 1
      BY <2>2, <2>3, <3>1, <3>2
    <3>3. CASE j # n + 1
      <4>1. j \in 1 .. n
        <5>1. n \in Nat
          BY <1>1
        <5> HIDE DEF n
        <5> QED
          BY <3>3, <5>1
      <4>2. new[j] = m[j]
        BY <2>2, <4>1
      <4> QED
        BY <1>1, <3>1, <4>1, <4>2 DEF MergedSoFar, Apart
    <3> QED
      BY <3>2, <3>3
  <2>5. new # <<>> /\ new[Len(new)].start <= next.start
    BY <1>1, <2>2
  <2>6. ASSUME NEW u \in Int PROVE Within(u, new, n + 1) <=> Within(u, s, k)
    <3>1. 1 .. n + 1 = (1 .. n) \cup {n + 1}
      BY <1>1
    <3>2. Within(u, new, n + 1) <=> Within(u, m, n) \/ (next.start <= u /\ u < next.end)
      BY <2>2, <3>1 DEF Within
    <3> QED
      BY <1>2, <3>2
  <2> QED
    BY <2>2, <2>4, <2>5, <2>6 DEF MergedSoFar, new
<1> QED
  BY <1>4, <1>5

\* MergeIntervals covers what it is given, with intervals that are apart.
LEMMA MergeCovers ==
  ASSUME NEW s \in Seq(Intervals), InOrder(s)
  PROVE  LET m == MergeIntervals(s)
         IN  /\ m \in Seq(Intervals) /\ Apart(m)
             /\ \A u \in Int : Within(u, m, Len(m)) <=> Within(u, s, Len(s))
<1>1. Len(s) \in Nat
  OBVIOUS
<1>2. PICK merged : /\ merged[0] = <<>>
                    /\ \A k \in 1 .. Len(s) : merged[k] = MergeStep(merged[k - 1], s[k])
                    /\ MergeIntervals(s) = merged[Len(s)]
  BY <1>1, MergeRounds
<1> DEFINE Wrong == {k \in 0 .. Len(s) : ~MergedSoFar(merged[k], s, k)}
<1>3. Wrong = {}
  <2> SUFFICES ASSUME Wrong # {} PROVE FALSE
    OBVIOUS
  <2>1. PICK k \in Wrong : \A j \in Wrong : k <= j
    <3>1. Wrong \in SUBSET Nat
      BY <1>1
    <3> HIDE DEF Wrong
    <3> QED
      BY <3>1, LeastOf
  <2>2. k \in 0 .. Len(s) /\ ~MergedSoFar(merged[k], s, k)
    BY <2>1
  <2>3. MergedSoFar(<<>>, s, 0)
    BY DEF MergedSoFar, Apart, Within
  <2>4. k \in 1 .. Len(s) /\ k - 1 \in 0 .. Len(s)
    BY <1>1, <1>2, <2>2, <2>3
  <2>5. k - 1 \notin Wrong
    <3> HIDE DEF Wrong
    <3> QED
      BY <2>1, <2>4
  <2>6. MergedSoFar(merged[k - 1], s, k - 1)
    BY <2>4, <2>5
  <2> QED
    BY <1>2, <2>2, <2>4, <2>6, MergeStepKeeps
<1>4. MergedSoFar(merged[Len(s)], s, Len(s))
  BY <1>1, <1>3
<1> QED
  BY <1>2, <1>4 DEF MergedSoFar

\* TotalDuration counts the units of intervals that are apart.
LEMMA TotalCounts ==
  ASSUME NEW m \in Seq(Intervals), Apart(m)
  PROVE  LET units == {u \in Int : Within(u, m, Len(m))}
         IN  IsFiniteSet(units) /\ TotalDuration(m) = Cardinality(units)
<1> DEFINE U(k) == {u \in Int : Within(u, m, k)}
<1>1. Len(m) \in Nat
  OBVIOUS
<1>2. PICK total : /\ total[0] = 0
                   /\ \A k \in 1 .. Len(m) : total[k] = total[k - 1] + (m[k].end - m[k].start)
                   /\ TotalDuration(m) = total[Len(m)]
  BY <1>1, TotalRounds
<1> DEFINE Wrong == {k \in 0 .. Len(m) : ~(IsFiniteSet(U(k)) /\ total[k] = Cardinality(U(k)))}
<1>3. Wrong = {}
  <2> SUFFICES ASSUME Wrong # {} PROVE FALSE
    OBVIOUS
  <2>1. PICK k \in Wrong : \A j \in Wrong : k <= j
    <3>1. Wrong \in SUBSET Nat
      BY <1>1
    <3> HIDE DEF Wrong
    <3> QED
      BY <3>1, LeastOf
  <2>2. k \in 0 .. Len(m) /\ ~(IsFiniteSet(U(k)) /\ total[k] = Cardinality(U(k)))
    BY <2>1
  <2>3. U(0) = {}
    BY DEF Within
  <2>4. k \in 1 .. Len(m) /\ k - 1 \in 0 .. Len(m)
    <3>1. IsFiniteSet(U(0)) /\ total[0] = Cardinality(U(0))
      BY <1>2, <2>3, FS_EmptySet
    <3>2. k # 0
      <4> HIDE DEF U
      <4> QED
        BY <2>2, <3>1
    <3> QED
      BY <1>1, <2>2, <3>2
  <2>5. k - 1 \notin Wrong
    <3> HIDE DEF Wrong
    <3> QED
      BY <2>1, <2>4
  <2>6. IsFiniteSet(U(k - 1)) /\ total[k - 1] = Cardinality(U(k - 1))
    BY <2>4, <2>5
  <2> DEFINE iv == m[k]
             I == iv.start .. iv.end - 1
  <2>7. iv \in Intervals /\ iv.start \in Int /\ iv.end \in Int /\ iv.start < iv.end
    BY <2>4 DEF Intervals
  <2>8. IsFiniteSet(I) /\ Cardinality(I) = iv.end - iv.start
    <3> DEFINE a == iv.start
               b == iv.end - 1
    <3>1. a \in Int /\ b \in Int /\ a <= b /\ iv.end - iv.start = b - a + 1
      BY <2>7
    <3> HIDE DEF a, b
    <3>2. IsFiniteSet(a .. b) /\ Cardinality(a .. b) = b - a + 1
      <4>1. IsFiniteSet(a .. b) /\ Cardinality(a .. b) = IF a > b THEN 0 ELSE b - a + 1
        BY <3>1, FS_Interval, Zenon
      <4>2. ~(a > b)
        BY <3>1
      <4> QED
        BY <4>1, <4>2
    <3> QED
      BY <3>1, <3>2 DEF a, b
  <2>9. U(k) = U(k - 1) \cup I
    BY <1>1, <2>4, <2>7 DEF Within
  <2>10. U(k - 1) \cap I = {}
    <3>1. \A j \in 1 .. k - 1 : m[j].end \in Int /\ m[j].end < iv.start
      BY <1>1, <2>4 DEF Apart, Intervals
    <3> QED
      BY <2>4, <2>7, <3>1 DEF Within
  <2>11. total[k] = total[k - 1] + (iv.end - iv.start)
    BY <1>2, <2>4
  <2> HIDE DEF U, I
  <2>12. IsFiniteSet(U(k)) /\ Cardinality(U(k)) = Cardinality(U(k - 1)) + Cardinality(I) - 0
    <3>1. Cardinality(U(k - 1) \cap I) = 0
      BY <2>10, FS_EmptySet
    <3> QED
      <4> DEFINE A == U(k - 1)
      <4>1. IsFiniteSet(A) /\ IsFiniteSet(I)
        BY <2>6, <2>8
      <4>2. U(k) = A \cup I /\ Cardinality(A \cap I) = 0
        BY <2>9, <3>1
      <4> HIDE DEF A
      <4>3. /\ IsFiniteSet(A \cup I)
            /\ Cardinality(A \cup I) = Cardinality(A) + Cardinality(I) - Cardinality(A \cap I)
        BY <4>1, FS_Union, Zenon
      <4>4. IsFiniteSet(U(k)) /\ Cardinality(U(k)) = Cardinality(A) + Cardinality(I) - 0
        BY <4>2, <4>3
      <4> QED
        BY <4>4 DEF A
  <2>13. Cardinality(U(k - 1)) \in Nat
    BY <2>6, FS_CardinalityType
  <2> QED
    BY <2>2, <2>6, <2>7, <2>8, <2>11, <2>12, <2>13
<1>4. IsFiniteSet(U(Len(m))) /\ total[Len(m)] = Cardinality(U(Len(m)))
  <2> HIDE DEF U
  <2> QED
    BY <1>1, <1>3
<1> QED
  BY <1>2, <1>4

\* Each unit of downtime is counted once, however the intervals of the
\* incidents overlap, contain or touch one another.
LEMMA CountedOnce ==
  ASSUME NEW entries, NEW ids, IsFiniteSet(ids), \A i \in ids : entries[i] \in Intervals
  PROVE  Downtime(entries, ids) = Cardinality({u \in Int : \E i \in ids : u \in Units(entries[i])})
<1> DEFINE s == Sorted(entries, ids)
           m == MergeIntervals(s)
<1>1. /\ s \in Seq(Intervals) /\ InOrder(s)
      /\ \A i \in ids : \E k \in DOMAIN s : s[k] = entries[i]
      /\ \A k \in DOMAIN s : \E i \in ids : s[k] = entries[i]
  BY SortedIs DEF InOrder
<1> HIDE DEF s
<1>2. m \in Seq(Intervals) /\ Apart(m) /\ \A u \in Int : Within(u, m, Len(m)) <=> Within(u, s, Len(s))
  BY <1>1, MergeCovers
<1>3. Downtime(entries, ids) = TotalDuration(m)
  BY DEF Downtime, s
<1> HIDE DEF m
<1>4. TotalDuration(m) = Cardinality({u \in Int : Within(u, m, Len(m))})
  BY <1>2, TotalCounts
<1>5. ASSUME NEW u \in Int
      PROVE  Within(u, s, Len(s)) <=> \E i \in ids : u \in Units(entries[i])
  <2>1. DOMAIN s = 1 .. Len(s)
    BY <1>1
  <2>2. \A i \in ids : u \in Units(entries[i]) <=> entries[i].start <= u /\ u < entries[i].end
    BY DEF Units, Intervals
  <2> QED
    BY <1>1, <2>1, <2>2 DEF Within
<1>6. {u \in Int : Within(u, m, Len(m))} = {u \in Int : \E i \in ids : u \in Units(entries[i])}
  BY <1>2, <1>5
<1> QED
  BY <1>3, <1>4, <1>6

(***************************************************************************)
(* What an answer says                                                     *)
(***************************************************************************)
\* There are finitely many documents, now and when the request read them.
DocumentsFinite ==
  /\ IsFiniteSet(StoredIncidents)
  /\ request.pc \in {"listed", "answered"} => IsFiniteSet(DOMAIN request.known)

\* The units charged to one of the incidents ids.
ChargedTo(ids) == {u \in Int : \E i \in ids : u \in Charged(i)}

\* The incidents known to name component c.
Naming(c) == {i \in DOMAIN request.known : c \in request.known[i].targets}

\* The numbers in an answer count the units it charges.
AnswerCounts ==
  request.pc = "answered" =>
    /\ DOMAIN request.entries \subseteq DOMAIN request.known
    /\ request.overall = Cardinality(ChargedTo(DOMAIN request.known))
    /\ \A c \in Components :
         Cardinality(ChargedTo(Naming(c))) =
           (IF c \in DOMAIN request.services THEN request.services[c] ELSE 0)

AnswerInv == DocumentsFinite /\ AnswerCounts

\* What is left of a document's interval is not empty.
LEMMA DowntimeInterval ==
  ASSUME clock \in Nat, NEW doc \in Docs, NEW p, IsPeriod(p), NEW iv \in DowntimeOf(doc, p)
  PROVE  iv \in Intervals
<1> DEFINE end == IF doc.resolvedAt # Unset THEN doc.resolvedAt ELSE clock
<1>1. doc.createdAt \in Nat /\ end \in Nat /\ p.start \in Int /\ p.end \in Int
  BY DEF Docs, IsPeriod
<1>2. iv \in ClipInterval(Period(doc.createdAt, end), p)
  BY DEF DowntimeOf
<1> HIDE DEF end
<1> QED
  BY <1>1, <1>2 DEF ClipInterval, Period, LatestOf, EarliestOf, Intervals

\* A write adds at most one document.
LEMMA WriteAddsOne ==
  ASSUME NEW i \in Incidents, Writing(i)
  PROVE  StoredIncidents' \subseteq StoredIncidents \cup {i} /\ UNCHANGED request
<1>1. UNCHANGED request /\ \E doc : incident' = [incident EXCEPT ![i] = doc]
  BY DEF Writing, CreateIncident, DetectOutage, ApplyIncidentStatus, Retarget, DeleteIncident
<1> QED
  BY <1>1 DEF StoredIncidents

LEMMA AnswerInit == AvailabilityInit => AnswerInv
<1> SUFFICES ASSUME AvailabilityInit PROVE AnswerInv
  OBVIOUS
<1>1. StoredIncidents = {} /\ request.pc = "idle"
  BY DEF AvailabilityInit, StoredIncidents, Idle
<1> QED
  BY <1>1, FS_EmptySet DEF AnswerInv, DocumentsFinite, AnswerCounts

\* The answer computed counts each unit charged once.
LEMMA AnswerComputed ==
  ASSUME ChargedInv, AnswerInv, ComputeAvailability
  PROVE  AnswerCounts'
<1> DEFINE p == request.period
           known == request.known
           entries == [i \in {j \in request.found : DowntimeOf(known[j], p) # {}} |->
                         CHOOSE iv \in DowntimeOf(known[i], p) : TRUE]
           Of(c) == {i \in DOMAIN entries : c \in known[i].targets}
           services == [c \in {d \in Components : Of(d) # {}} |-> Downtime(entries, Of(c))]
<1>1. /\ request'.pc = "answered" /\ request'.known = known /\ request'.entries = entries
      /\ request'.overall = Downtime(entries, DOMAIN entries) /\ request'.services = services
  BY DEF ComputeAvailability
<1>2. request.pc = "listed" /\ IsPeriod(p) /\ clock \in Nat
  BY DEF ComputeAvailability, ChargedInv, PeriodIsPast, AvailabilityTyped
<1>3. /\ request.found \subseteq DOMAIN known /\ IsFiniteSet(DOMAIN known)
      /\ \A i \in DOMAIN known : known[i] \in Docs
  BY <1>2 DEF ChargedInv, FoundOverlaps, KnownTells, AnswerInv, DocumentsFinite
<1>4. \A i \in DOMAIN entries : i \in DOMAIN known /\ entries[i] \in DowntimeOf(known[i], p)
  BY <1>3
<1> HIDE DEF entries
<1>5. \A i \in DOMAIN entries : entries[i] \in Intervals
  BY <1>2, <1>3, <1>4, DowntimeInterval
<1> DEFINE Charges(ids) == {u \in Int : \E i \in ids \cap DOMAIN entries : u \in Units(entries[i])}
<1>6. \A ids \in SUBSET DOMAIN known : Downtime(entries, ids \cap DOMAIN entries) = Cardinality(Charges(ids))
  <2> SUFFICES ASSUME NEW ids \in SUBSET DOMAIN known
               PROVE  Downtime(entries, ids \cap DOMAIN entries) = Cardinality(Charges(ids))
    OBVIOUS
  <2>1. IsFiniteSet(ids \cap DOMAIN entries)
    BY <1>3, FS_Subset
  <2> QED
    BY <1>5, <2>1, CountedOnce
<1>7. \A i : Charged(i)' = IF i \in DOMAIN entries THEN Units(entries[i]) ELSE {}
  BY <1>1 DEF Charged, Units
<1>8. request'.overall = Cardinality(ChargedTo(DOMAIN request.known)')
  <2>1. DOMAIN known \cap DOMAIN entries = DOMAIN entries
    BY <1>4
  <2>2. ChargedTo(DOMAIN request.known)' = Charges(DOMAIN known)
    BY <1>1, <1>7 DEF ChargedTo
  <2> QED
    BY <1>1, <1>6, <2>1, <2>2
<1>9. ASSUME NEW c \in Components
      PROVE  Cardinality(ChargedTo(Naming(c))') =
               (IF c \in DOMAIN services THEN services[c] ELSE 0)
  <2> DEFINE ids == {i \in DOMAIN known : c \in known[i].targets}
  <2>1. Naming(c)' = ids
    BY <1>1 DEF Naming
  <2>2. ids \in SUBSET DOMAIN known /\ ids \cap DOMAIN entries = Of(c)
    BY <1>4
  <2>3. ChargedTo(Naming(c))' = Charges(ids)
    <3> HIDE DEF ids
    <3> QED
      BY <1>7, <2>1 DEF ChargedTo
  <2>4. Cardinality(Charges(ids)) = Downtime(entries, Of(c))
    <3> HIDE DEF ids, Charges
    <3> QED
      BY <1>6, <2>2
  <2>5. CASE Of(c) # {}
    BY <2>3, <2>4, <2>5
  <2>6. CASE Of(c) = {}
    <3>1. Charges(ids) = {}
      <4> HIDE DEF ids
      <4> QED
        BY <2>2, <2>6
    <3> QED
      BY <2>3, <2>6, <3>1, FS_EmptySet
  <2> QED
    BY <2>5, <2>6
<1> QED
  BY <1>1, <1>4, <1>8, <1>9 DEF AnswerCounts, ChargedTo, Charged

LEMMA AnswerStep ==
  ChargedInv /\ AnswerInv /\ [AvailabilityNext]_availabilityVars => AnswerInv'
<1> SUFFICES ASSUME ChargedInv, AnswerInv, [AvailabilityNext]_availabilityVars PROVE AnswerInv'
  OBVIOUS
<1>1. ASSUME UNCHANGED request PROVE AnswerCounts'
  BY <1>1 DEF AnswerInv, AnswerCounts, ChargedTo, Charged, Naming, Units
<1>2. CASE Requesting
  <2>1. StoredIncidents' = StoredIncidents
    BY <1>2 DEF Requesting, Ask, ListIncidents, ComputeAvailability, StoredIncidents
  <2>2. CASE Ask
    <3>1. request'.pc = "asked"
      BY <2>2 DEF Ask
    <3> QED
      BY <2>1, <3>1 DEF AnswerInv, DocumentsFinite, AnswerCounts
  <2>3. CASE ListIncidents
    <3>1. request'.pc = "listed" /\ DOMAIN request'.known = StoredIncidents
      BY <2>3 DEF ListIncidents
    <3> QED
      BY <2>1, <3>1 DEF AnswerInv, DocumentsFinite, AnswerCounts
  <2>4. CASE ComputeAvailability
    <3>1. request.pc = "listed" /\ request'.pc = "answered" /\ request'.known = request.known
      BY <2>4 DEF ComputeAvailability
    <3>2. DocumentsFinite'
      BY <2>1, <3>1 DEF AnswerInv, DocumentsFinite
    <3> QED
      BY <2>4, <3>2, AnswerComputed DEF AnswerInv
  <2> QED
    BY <1>2, <2>2, <2>3, <2>4 DEF Requesting
<1>3. ASSUME NEW i \in Incidents, Writing(i) PROVE AnswerInv'
  <2>1. StoredIncidents' \subseteq StoredIncidents \cup {i} /\ UNCHANGED request
    BY <1>3, WriteAddsOne
  <2>2. IsFiniteSet(StoredIncidents \cup {i})
    BY FS_AddElement DEF AnswerInv, DocumentsFinite
  <2>3. IsFiniteSet(StoredIncidents')
    <3> DEFINE S == StoredIncidents'
    <3>1. S \in SUBSET (StoredIncidents \cup {i})
      BY <2>1
    <3> HIDE DEF S
    <3> QED
      BY <2>2, <3>1, FS_Subset DEF S
  <2> QED
    BY <1>1, <2>1, <2>3 DEF AnswerInv, DocumentsFinite
<1>4. CASE PassTime \/ UNCHANGED availabilityVars
  <2>1. UNCHANGED <<incident, request>>
    BY <1>4 DEF PassTime, availabilityVars
  <2> QED
    BY <1>1, <2>1 DEF AnswerInv, DocumentsFinite, StoredIncidents
<1> QED
  BY <1>2, <1>3, <1>4 DEF AvailabilityNext

\* For any number of incidents, whatever is opened, resolved, deleted or moved
\* around the request: an incident that was not given a status after its
\* resolution is charged exactly what it was open, and when this goes for all
\* the documents read, the downtime of the page and of each component is the
\* number of units in which one of the incidents was open.
THEOREM AnswersAreHistory == AvailabilitySpec => []AnswersTellHistory
<1>1. ChargedInv /\ AnswerInv => AnswersTellHistory
  <2> SUFFICES ASSUME ChargedInv, AnswerInv, request.pc = "answered",
                      request.final = DOMAIN request.known
               PROVE  /\ request.overall = Cardinality(OpenUnits(request.final))
                      /\ \A c \in Components :
                           Cardinality(OpenUnits({i \in request.final : c \in request.known[i].targets})) =
                             (IF c \in DOMAIN request.services THEN request.services[c] ELSE 0)
    BY DEF AnswersTellHistory, ChargedInv
  <2>1. IsPeriod(request.period) /\ \A i \in request.final : Charged(i) = during[i] \cap Units(request.period)
    BY DEF ChargedInv, PeriodIsPast, UnrevisedChargedExactly
  <2>2. Units(request.period) \subseteq Int
    BY <2>1 DEF Units, IsPeriod
  <2>3. \A ids \in SUBSET request.final : OpenUnits(ids) = ChargedTo(ids)
    BY <2>1, <2>2 DEF OpenUnits, ChargedTo
  <2>4. \A c : Naming(c) \in SUBSET request.final
               /\ Naming(c) = {i \in request.final : c \in request.known[i].targets}
    BY DEF Naming
  <2> QED
    BY <2>3, <2>4 DEF AnswerInv, AnswerCounts
<1> QED
  BY <1>1, ChargedInit, ChargedStep, AnswerInit, AnswerStep, PTL DEF AvailabilitySpec
=============================================================================
