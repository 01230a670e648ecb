---------------------------- MODULE Availability ----------------------------
(***************************************************************************)
(* Availability metrics: internal/services/availability computes, for a    *)
(* period, how long at least one incident was open, from what incidents    *)
(* say of themselves (createdAt, resolvedAt, status), while administrators *)
(* and the worker go on opening, resolving, reopening and deleting them.   *)
(*                                                                         *)
(* A request reads the clock to resolve its period, then the incidents,    *)
(* then the clock again.  Time is counted in whole units; unit u is the    *)
(* stretch from instant u to instant u + 1, and a write takes no time.     *)
(***************************************************************************)
EXTENDS Integers, FiniteSets, Sequences, Functions

CONSTANTS
  Incidents,      \* identities of incident documents, each used once
  Components,     \* the components there are
  Horizon,        \* bound on the clock
  Year,           \* length of a year, MaxRange the longest custom range
  MaxRange,
  PresetLengths,  \* lengths of the presets but ytd
  MaxWrites,      \* bound on the writes to incidents
  Unset           \* no document, no resolvedAt

ASSUME AvailabilityAssumption ==
  /\ Horizon \in Nat /\ MaxWrites \in Nat
  /\ Year \in Nat \ {0} /\ MaxRange \in Nat
  /\ PresetLengths \subseteq Nat \ {0}
  /\ Unset \notin Int

VARIABLES
  clock,     \* the clock
  incident,  \* the document of each incident, Unset before and after
  during,    \* history: the units during which each incident was unresolved
  revised,   \* history: incidents whose status was set after a resolution
  edits,     \* writes to incidents so far
  request    \* the availability request

availabilityVars == <<clock, incident, during, revised, edits, request>>

IncidentStatuses == {"unresolved", "resolved"}

Idle == [pc |-> "idle"]

StoredIncidents == {i \in Incidents : incident[i] # Unset}

AvailabilityInit ==
  /\ clock = 0
  /\ incident = [i \in Incidents |-> Unset]
  /\ during = [i \in Incidents |-> {}]
  /\ revised = {} /\ edits = 0
  /\ request = Idle

-----------------------------------------------------------------------------
(* The periods a request may ask for. *)

LatestOf(a, b) == IF a > b THEN a ELSE b
EarliestOf(a, b) == IF a < b THEN a ELSE b

Period(a, b) == [start |-> a, end |-> b]

PresetPeriods ==
  {Period(clock - length, clock) : length \in PresetLengths}
  \cup {Period((clock \div Year) * Year, clock)}

\* A past year ends one unit early, at 23:59:59; this year ends now.
YearPeriods ==
  {Period(year * Year, IF year = clock \div Year THEN clock ELSE (year + 1) * Year - 1) :
     year \in 0 .. clock \div Year}

\* A custom range is cut at the clock.
CustomPeriods ==
  {p \in {Period(from, EarliestOf(to, clock)) : from, to \in 0 .. Horizon} :
     p.end - p.start <= MaxRange}

\* ComputeAvailability refuses a period that does not start before it ends.
Periods == {p \in PresetPeriods \cup YearPeriods \cup CustomPeriods : p.start < p.end}

-----------------------------------------------------------------------------
(* Interval arithmetic. *)

Before(a, b) == a.start < b.start \/ (a.start = b.start /\ a.end < b.end)

\* The interval within the period, as a set that is empty when nothing is left.
ClipInterval(iv, p) ==
  {c \in {[start |-> LatestOf(iv.start, p.start), end |-> EarliestOf(iv.end, p.end)]} :
     c.start < c.end}

\* The intervals of some incidents in order; of two equal ones either is first.
Sorted(entries, ids) ==
  LET positions == 1 .. Cardinality(ids)
      order == CHOOSE f \in Bijection(positions, ids) :
                 \A j, k \in positions : j < k => ~Before(entries[f[k]], entries[f[j]])
  IN [k \in positions |-> entries[order[k]]]

\* Mutant of MergeStep: adjacent and overlapping intervals are kept apart unless equal.
MergeEqualOnly(merged, next) ==
  IF merged # <<>> /\ next = merged[Len(merged)] THEN merged ELSE Append(merged, next)

\* The last of the merged intervals is the one the loop still extends.
MergeStep(merged, next) ==
  IF merged # <<>> /\ next.start <= merged[Len(merged)].end
  THEN [merged EXCEPT ![Len(merged)].end = LatestOf(@, next.end)]
  ELSE Append(merged, next)

MergeIntervals(sorted) ==
  LET merged[k \in 0 .. Len(sorted)] ==
        IF k = 0 THEN <<>> ELSE MergeStep(merged[k - 1], sorted[k])
  IN merged[Len(sorted)]

TotalDuration(intervals) ==
  LET total[k \in 0 .. Len(intervals)] ==
        IF k = 0 THEN 0 ELSE total[k - 1] + (intervals[k].end - intervals[k].start)
  IN total[Len(intervals)]

-----------------------------------------------------------------------------
(* The availability request. *)

ListIncidentsOverlappingPeriod(p) ==
  {i \in StoredIncidents :
     /\ incident[i].createdAt < p.end
     /\ \/ incident[i].resolvedAt # Unset /\ incident[i].resolvedAt > p.start
        \/ incident[i].status # "resolved"}

\* resolvedAt counts whenever there is one, whatever the status.
DowntimeOf(doc, p) ==
  LET end == IF doc.resolvedAt # Unset THEN doc.resolvedAt ELSE clock
  IN IF doc.createdAt < end THEN ClipInterval(Period(doc.createdAt, end), p) ELSE {}

Downtime(entries, ids) == TotalDuration(MergeIntervals(Sorted(entries, ids)))

Ask ==
  /\ request.pc = "idle"
  /\ \E p \in Periods : request' = [pc |-> "asked", period |-> p]
  /\ UNCHANGED <<clock, incident, during, revised, edits>>

\* ListIncidents reads the documents; known and final are history: all the
\* documents there were, and those with a status never revised so far.
ListIncidents ==
  /\ request.pc = "asked"
  /\ LET found == ListIncidentsOverlappingPeriod(request.period)
     IN request' = [pc |-> "listed", period |-> request.period, found |-> found,
                    known |-> [i \in StoredIncidents |-> incident[i]],
                    final |-> StoredIncidents \ revised]
  /\ UNCHANGED <<clock, incident, during, revised, edits>>

ComputeAvailability ==
  /\ request.pc = "listed"
  /\ LET listed == request.known
         Clipped(i) == DowntimeOf(listed[i], request.period)
         entries == [i \in {j \in request.found : Clipped(j) # {}} |->
                       CHOOSE iv \in Clipped(i) : TRUE]
         Naming(c) == {i \in DOMAIN entries : c \in listed[i].targets}
     IN request' = [pc |-> "answered", period |-> request.period,
                    known |-> request.known, final |-> request.final, entries |-> entries,
                    overall |-> Downtime(entries, DOMAIN entries),
                    services |-> [c \in {d \in Components : Naming(d) # {}} |->
                                    Downtime(entries, Naming(c))]]
  /\ UNCHANGED <<clock, incident, during, revised, edits>>

-----------------------------------------------------------------------------
(* Writes to incidents; targets are the components named by either list. *)

\* Service.Create: resolvedAt is not set, whatever the status.
CreateIncident(i) ==
  /\ incident[i] = Unset /\ during[i] = {}
  /\ \E status \in IncidentStatuses, targets \in SUBSET Components :
       incident' = [incident EXCEPT ![i] =
         [createdAt |-> clock, resolvedAt |-> Unset, status |-> status,
          targets |-> targets]]
  /\ UNCHANGED <<clock, during, revised, request>>

\* The worker opens an incident unless an unresolved one names the component.
DetectOutage(i) ==
  /\ incident[i] = Unset /\ during[i] = {}
  /\ \E c \in Components :
       /\ \A j \in StoredIncidents : c \in incident[j].targets => incident[j].status = "resolved"
       /\ incident' = [incident EXCEPT ![i] =
            [createdAt |-> clock, resolvedAt |-> Unset, status |-> "unresolved",
             targets |-> {c}]]
  /\ UNCHANGED <<clock, during, revised, request>>

\* Mutant of WithStatus: the first resolution is kept.
KeepFirstResolution(doc, status) ==
  IF status = "resolved" /\ doc.resolvedAt = Unset
  THEN [doc EXCEPT !.status = status, !.resolvedAt = clock]
  ELSE [doc EXCEPT !.status = status]

\* A status is written by Update, by AddUpdate (ApplyIncidentStatus) and, for
\* unresolved incidents, by the worker: a resolution stamps the time, any
\* other status leaves the stamp of an earlier resolution where it is.
WithStatus(doc, status) ==
  IF status = "resolved" THEN [doc EXCEPT !.status = status, !.resolvedAt = clock]
  ELSE [doc EXCEPT !.status = status]

ApplyIncidentStatus(i) ==
  /\ i \in StoredIncidents
  /\ \E status \in IncidentStatuses : incident' = [incident EXCEPT ![i] = WithStatus(@, status)]
  /\ revised' = IF incident[i].status = "resolved" THEN revised \cup {i} ELSE revised
  /\ UNCHANGED <<clock, during, request>>

\* Update with a list of components; an empty list changes nothing.
Retarget(i) ==
  /\ i \in StoredIncidents
  /\ \E targets \in SUBSET Components \ {{}} :
       incident' = [incident EXCEPT ![i].targets = targets]
  /\ UNCHANGED <<clock, during, revised, request>>

DeleteIncident(i) ==
  /\ i \in StoredIncidents
  /\ incident' = [incident EXCEPT ![i] = Unset]
  /\ UNCHANGED <<clock, during, revised, request>>

\* One unit passes; who is unresolved now stays so throughout it.
PassTime ==
  /\ clock < Horizon
  /\ clock' = clock + 1
  /\ during' = [i \in Incidents |->
       IF i \in StoredIncidents /\ incident[i].status # "resolved" THEN during[i] \cup {clock}
       ELSE during[i]]
  /\ UNCHANGED <<incident, revised, edits, request>>

Requesting == Ask \/ ListIncidents \/ ComputeAvailability

Writing(i) ==
  /\ edits < MaxWrites /\ edits' = edits + 1
  /\ \/ CreateIncident(i) \/ DetectOutage(i)
     \/ ApplyIncidentStatus(i) \/ Retarget(i) \/ DeleteIncident(i)

AvailabilityNext == Requesting \/ (\E i \in Incidents : Writing(i)) \/ PassTime

AvailabilitySpec == AvailabilityInit /\ [][AvailabilityNext]_availabilityVars

-----------------------------------------------------------------------------
(* Properties. *)

Units(p) == p.start .. p.end - 1

\* The units of the period the answer charges to an incident, and to nobody
\* when it left the incident out.
Charged(i) ==
  IF i \in DOMAIN request.entries THEN Units(request.entries[i]) ELSE {}

\* The units of the period during which one of the incidents was open.
OpenUnits(ids) == {u \in Units(request.period) : \E i \in ids : u \in during[i]}

\* An incident whose status nobody touched after its resolution is charged
\* with exactly the units of the period in which it was open, although the
\* period was resolved, the incidents read and the clock read again one after
\* the other.
UnrevisedChargedExactly ==
  request.pc = "answered" =>
    \A i \in request.final : Charged(i) = during[i] \cap Units(request.period)

\* An answer tells history: as long as no incident was given a status after
\* its resolution, the downtime reported for the page and for each component
\* is the number of units in which an incident (naming the component) was
\* open, each counted once, whatever was opened, resolved, deleted or moved
\* while the request was under way and however late the clock was read again.
\* Whatever was done to the others, such an incident is charged what it was.
AnswersTellHistory ==
  /\ UnrevisedChargedExactly
  /\ request.pc = "answered" /\ request.final = DOMAIN request.known =>
       /\ request.overall = Cardinality(OpenUnits(request.final))
       /\ \A c \in Components :
            LET naming == {i \in request.final : c \in request.known[i].targets}
            IN Cardinality(OpenUnits(naming)) =
                 (IF c \in DOMAIN request.services THEN request.services[c] ELSE 0)

\* Resolved incidents hide nothing: reopened, resolved twice or created as
\* resolved, an incident that is resolved when it is read is charged with at
\* least the units of the period in which it was open.
ResolvedHideNothing ==
  request.pc = "answered" =>
    \A i \in DOMAIN request.known :
      request.known[i].status = "resolved" =>
        (during[i] \cap Units(request.period)) \subseteq Charged(i)

\* The package comment of intervals.go: downtime runs from createdAt to now
\* for active incidents.  A reopened incident keeps the resolvedAt of its
\* resolution, and what is open since is not counted.
ActiveCountsUntilNow ==
  request.pc = "answered" =>
    \A i \in DOMAIN request.known :
      request.known[i].status # "resolved" =>
        (during[i] \cap Units(request.period)) \subseteq Charged(i)

=============================================================================
