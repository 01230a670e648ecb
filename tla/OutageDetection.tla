--------------------------- MODULE OutageDetection ---------------------------
(***************************************************************************)
(* What the check goroutines of internal/server/worker.go do to the        *)
(* database: checkMonitor, applySSLWarningStatus and detectOutage, one     *)
(* action per database call, beside the administrators who edit the same   *)
(* incidents, monitors and statuses through the API.                       *)
(*                                                                         *)
(* A check works on the monitor document it was started with.  Every call  *)
(* is a round trip of its own and nothing is locked or transactional, so   *)
(* other checks, administrators and the end of the process come in between. *)
(* A check inserts at most one outage and one incident, so both are named  *)
(* after the check that inserted them.                                     *)
(***************************************************************************)
EXTENDS Naturals, FiniteSets

CONSTANTS
  Checks,         \* check goroutines
  Past,           \* down results stored by an earlier process: [ids -> Monitors]
  Manual,         \* incidents created by administrators
  Monitors, Components, SubComponents,
  TargetOf,       \* initial target of each monitor
  ParentOf,       \* componentId of each sub-component
  SSLMonitors,    \* monitors that apply the certificate or domain warning
  Threshold,      \* consecutive failures that make an outage (3 in the code)
  Overlap,        \* whether a monitor can be due again while a check runs
  Faults,         \* kinds of database calls that may fail: "read", "write"
  AdminOps,       \* operations administrators use
  AdminBudget,    \* bound on their number
  StopBudget,     \* bound on how often the process ends and restarts
  None

Targets == Components \cup SubComponents
Logs == Checks \cup DOMAIN Past
Incidents == Checks \cup Manual

ASSUME OutageAssumption ==
  /\ IsFiniteSet(Checks) /\ IsFiniteSet(DOMAIN Past)
  /\ Past \in [DOMAIN Past -> Monitors] /\ Checks \cap DOMAIN Past = {}
  /\ Checks \cap Manual = {} /\ Components \cap SubComponents = {}
  /\ TargetOf \in [Monitors -> Targets]
  /\ ParentOf \in [SubComponents -> Components]
  /\ SSLMonitors \subseteq Monitors
  /\ Threshold \in Nat \ {0} /\ Overlap \in BOOLEAN
  /\ Faults \subseteq {"read", "write"}
  /\ AdminBudget \in Nat /\ StopBudget \in Nat
  /\ None \notin Logs \cup Incidents \cup Monitors \cup Targets

VARIABLES
  pc,        \* where each check is
  mon,       \* the monitor each check works on
  tgt,       \* the target in the monitor document the check was started with
  result,    \* what the probe found: "up", "down"
  warn,      \* whether it found an expiry warning
  found,     \* the outage the check read
  seen,      \* the incident the check read
  clear,     \* applySSLWarningStatus read no active outage (incident) so far
  monitors,  \* the monitors collection: current target, or None when deleted
  last,      \* lastStatus of each monitor
  stamp,     \* checkedAt of each result
  logged,    \* results stored in monitor_logs
  outage,    \* the outages collection
  incident,  \* status of each incident
  affects,   \* affectedComponents of each incident
  status,    \* status of each component and sub-component
  admin,     \* administrators' operations so far
  stops      \* ends of the process so far

local == <<mon, tgt, result, warn, found, seen, clear>>
db == <<monitors, last, logged, outage, incident, affects, status>>
bounds == <<admin, stops>>
vars == <<pc, local, db, stamp, bounds>>

\* The statuses the worker writes or asks for; "partial_outage" and
\* "maintenance", which only administrators set, are treated like a major
\* outage it did not report.
Statuses == {"operational", "degraded_performance", "major_outage"}

PC == {"idle", "probe", "log", "last", "ssl", "sslIncident", "sslRestore",
       "detect", "findOutage", "openOutage", "mark", "findCover",
       "openIncident", "findActive", "resolveOutage", "findIncident",
       "resolveIncident", "restore", "done", "lost"}

TypeOK ==
  /\ pc \in [Checks -> PC]
  /\ mon \in [Logs -> Monitors \cup {None}]
  /\ tgt \in [Checks -> Targets \cup {None}]
  /\ result \in [Logs -> {"none", "up", "down"}]
  /\ warn \in [Checks -> BOOLEAN] /\ clear \in [Checks -> BOOLEAN]
  /\ found \in [Checks -> Checks \cup {None}]
  /\ seen \in [Checks -> Incidents \cup {None}]
  /\ monitors \in [Monitors -> Targets \cup {None}]
  /\ last \in [Monitors -> {"none", "up", "down"}]
  /\ stamp \in [Logs -> Nat]
  /\ logged \subseteq Logs
  /\ outage \in [Checks -> {"none", "active", "resolved"}]
  /\ incident \in [Incidents -> {"none", "open", "resolved", "deleted"}]
  /\ affects \in [Incidents -> SUBSET Components]
  /\ status \in [Targets -> Statuses]
  /\ admin \in Nat /\ stops \in Nat
  /\ \A c \in Checks : pc[c] # "idle" => mon[c] # None /\ tgt[c] # None

Init ==
  /\ pc = [c \in Checks |-> "idle"]
  /\ mon = [c \in Logs |-> IF c \in DOMAIN Past THEN Past[c] ELSE None]
  /\ tgt = [c \in Checks |-> None]
  /\ result = [c \in Logs |-> IF c \in DOMAIN Past THEN "down" ELSE "none"]
  /\ warn = [c \in Checks |-> FALSE] /\ clear = [c \in Checks |-> FALSE]
  /\ found = [c \in Checks |-> None] /\ seen = [c \in Checks |-> None]
  /\ monitors = TargetOf
  /\ last = [m \in Monitors |-> IF \E p \in DOMAIN Past : Past[p] = m
                                  THEN "down" ELSE "none"]
  /\ stamp = [c \in Logs |-> 0]
  /\ logged = DOMAIN Past
  /\ outage = [c \in Checks |-> "none"]
  /\ incident = [i \in Incidents |-> "none"]
  /\ affects = [i \in Incidents |-> {}]
  /\ status = [t \in Targets |-> "operational"]
  /\ admin = 0 /\ stops = 0

-----------------------------------------------------------------------------
(* Helpers *)

Running(c) == pc[c] \notin {"idle", "done", "lost"}
ComponentOf(t) == IF t \in Components THEN t ELSE ParentOf[t]
Fails(kind) == kind \in Faults

\* The check moves from one call to the next, or to one of several.
Step(c, from, to) == pc[c] = from /\ pc' = [pc EXCEPT ![c] = to]

Stored(m) == {d \in logged : mon[d] = m}

\* Find().SetSort(checkedAt, -1).SetLimit(n) returned n results, all of them
\* down: some n of the stored results are down and none is newer.
HasRun(m, n) ==
  \E R \in SUBSET Stored(m) :
    /\ Cardinality(R) = n
    /\ \A d \in R : result[d] = "down"
    /\ \A d \in R, e \in Stored(m) \ R : stamp[e] <= stamp[d]

\* Faulty variants: two failures are enough, or the filter on the component is
\* forgotten.
TwoLatestDown(m) == HasRun(m, Threshold - 1)
AnyOpenIncident(C) == {i \in Incidents : incident[i] = "open"}

LatestAllDown(m) == HasRun(m, Threshold)

ActiveOutages(m) == {c \in Checks : outage[c] = "active" /\ mon[c] = m}
TargetOutages(t) == {c \in Checks : outage[c] = "active" /\ tgt[c] = t}
OpenIncidents(C) == {i \in Incidents : incident[i] = "open" /\ affects[i] \cap C # {}}

-----------------------------------------------------------------------------
(* checkMonitor: the probe, the log and the monitor document *)

\* runChecks starts a check for a due monitor.  A monitor is due again while
\* a check of it runs only if checks outlive the ticker (WorkerLoop).  (Which
\* idle identity a check takes makes no difference, so one is chosen.)
StartCheck(c, m) ==
  /\ pc[c] = "idle" /\ c = CHOOSE d \in Checks : pc[d] = "idle"
  /\ monitors[m] # None
  /\ Overlap \/ \A d \in Checks : Running(d) => mon[d] # m
  /\ Step(c, "idle", "probe")
  /\ mon' = [mon EXCEPT ![c] = m]
  /\ tgt' = [tgt EXCEPT ![c] = monitors[m]]
  /\ UNCHANGED <<result, warn, found, seen, clear, db, stamp, bounds>>

\* The probe ends: status, warnings and checkedAt are known.  Only SSL
\* monitors and monitors with domain_expiry act on the warning.
Probe(c, r, w) ==
  /\ Step(c, "probe", "log")
  /\ w => mon[c] \in SSLMonitors
  /\ result' = [result EXCEPT ![c] = r]
  /\ warn' = [warn EXCEPT ![c] = w]
  /\ stamp' = [stamp EXCEPT ![c] = 1 + Cardinality({d \in Logs : stamp[d] # 0})]
  /\ UNCHANGED <<mon, tgt, found, seen, clear, db, bounds>>

\* monitor_logs.InsertOne, its error ignored.
InsertLog(c) ==
  /\ Step(c, "log", "last")
  /\ \/ logged' = logged \cup {c}
     \/ Fails("write") /\ UNCHANGED logged
  /\ UNCHANGED <<local, monitors, last, outage, incident, affects, status,
                 stamp, bounds>>

\* monitors.UpdateOne matches nothing when the monitor was deleted.
UpdateLast(c) ==
  /\ Step(c, "last", IF mon[c] \in SSLMonitors THEN "ssl" ELSE "detect")
  /\ \/ last' = [last EXCEPT ![mon[c]] = IF monitors[mon[c]] = None THEN @ ELSE result[c]]
     \/ Fails("write") /\ UNCHANGED last
  /\ UNCHANGED <<local, monitors, logged, outage, incident, affects, status,
                 stamp, bounds>>

-----------------------------------------------------------------------------
(* applySSLWarningStatus *)

\* A warning degrades the target whatever its status is.
SSLWarn(c) ==
  /\ warn[c] /\ Step(c, "ssl", "detect")
  /\ \/ status' = [status EXCEPT ![tgt[c]] = "degraded_performance"]
     \/ Fails("write") /\ UNCHANGED status
  /\ UNCHANGED <<local, monitors, last, logged, outage, incident, affects,
                 stamp, bounds>>

\* hasActiveOutageForTarget: a failed read counts as "no outage".
SSLReadOutage(c) ==
  /\ ~warn[c] /\ Step(c, "ssl", "sslIncident")
  /\ \/ clear' = [clear EXCEPT ![c] = TargetOutages(tgt[c]) = {}]
     \/ Fails("read") /\ clear' = [clear EXCEPT ![c] = TRUE]
  /\ UNCHANGED <<mon, tgt, result, warn, found, seen, db, stamp, bounds>>

\* Faulty variants: what was read is ignored, and the update does not ask for
\* the status again.
RestoreAnyway(noOutage, noIncident) == TRUE
SSLRestoreUnfiltered(c) ==
  /\ Step(c, "sslRestore", "detect")
  /\ status' = [status EXCEPT ![tgt[c]] = "operational"]
  /\ UNCHANGED <<local, monitors, last, logged, outage, incident, affects,
                 stamp, bounds>>

shouldRestoreOperational(noOutage, noIncident) == noOutage /\ noIncident

\* hasActiveIncidentForTarget, a failed read counting as "no incident", then
\* shouldRestoreOperational.
SSLReadIncident(c) ==
  /\ pc[c] = "sslIncident"
  /\ \E none \in {OpenIncidents({ComponentOf(tgt[c])}) = {}}
                 \cup (IF Fails("read") THEN {TRUE} ELSE {}) :
       pc' = [pc EXCEPT ![c] = IF shouldRestoreOperational(clear[c], none)
                                 THEN "sslRestore" ELSE "detect"]
  /\ clear' = [clear EXCEPT ![c] = FALSE]
  /\ UNCHANGED <<mon, tgt, result, warn, found, seen, db, stamp, bounds>>

\* The update's filter asks for degraded_performance once more.
SSLRestore(c) ==
  /\ Step(c, "sslRestore", "detect")
  /\ \/ status' = [status EXCEPT ![tgt[c]] =
                     IF @ = "degraded_performance" THEN "operational" ELSE @]
     \/ Fails("write") /\ UNCHANGED status
  /\ UNCHANGED <<local, monitors, last, logged, outage, incident, affects,
                 stamp, bounds>>

-----------------------------------------------------------------------------
(* detectOutage after a down result *)

\* Faulty variants: the active outage is not looked for, the insert of the
\* outage is forgotten.
FindNothing(c) ==
  /\ Step(c, "findOutage", "openOutage")
  /\ UNCHANGED <<local, db, stamp, bounds>>
OpenNothing(c) ==
  /\ Step(c, "openOutage", "mark")
  /\ UNCHANGED <<local, db, stamp, bounds>>
ReadLogs(c) ==
  /\ pc[c] = "detect" /\ result[c] = "down"
  /\ \/ LatestAllDown(mon[c]) /\ Step(c, "detect", "findOutage")
     \/ ~LatestAllDown(mon[c]) /\ Step(c, "detect", "done")
     \/ Fails("read") /\ Step(c, "detect", "done")
  /\ UNCHANGED <<local, db, stamp, bounds>>

\* Any error of the read, not only "no documents", means "no outage".
FindOutage(c) ==
  /\ pc[c] = "findOutage"
  /\ \/ \E o \in ActiveOutages(mon[c]) :
          /\ Step(c, "findOutage", "done")
          /\ found' = [found EXCEPT ![c] = o]
     \/ /\ ActiveOutages(mon[c]) = {} \/ Fails("read")
        /\ Step(c, "findOutage", "openOutage")
        /\ UNCHANGED found
  /\ UNCHANGED <<mon, tgt, result, warn, seen, clear, db, stamp, bounds>>

OpenOutage(c) ==
  /\ Step(c, "openOutage", "mark")
  /\ \/ outage' = [outage EXCEPT ![c] = "active"]
     \/ Fails("write") /\ UNCHANGED outage
  /\ UNCHANGED <<local, monitors, last, logged, incident, affects, status,
                 stamp, bounds>>

\* The target becomes major_outage.  For a sub-component the code first reads
\* it for its parent, and gives up on the incident when that read fails.
MarkTarget(c) ==
  /\ \/ /\ Step(c, "mark", "findCover")
        /\ \/ status' = [status EXCEPT ![tgt[c]] = "major_outage"]
           \/ Fails("write") /\ UNCHANGED status
     \/ /\ tgt[c] \in SubComponents /\ Fails("read")
        /\ Step(c, "mark", "done")
        /\ UNCHANGED status
  /\ UNCHANGED <<local, monitors, last, logged, outage, incident, affects,
                 stamp, bounds>>

FindCover(c) ==
  /\ pc[c] = "findCover"
  /\ LET covers == OpenIncidents({ComponentOf(tgt[c])})
     IN  \/ covers # {} /\ Step(c, "findCover", "done")
         \/ (covers = {} \/ Fails("read")) /\ Step(c, "findCover", "openIncident")
  /\ UNCHANGED <<local, db, stamp, bounds>>

OpenIncident(c) ==
  /\ Step(c, "openIncident", "done")
  /\ \/ /\ incident' = [incident EXCEPT ![c] = "open"]
        /\ affects' = [affects EXCEPT ![c] = {ComponentOf(tgt[c])}]
     \/ Fails("write") /\ UNCHANGED <<incident, affects>>
  /\ UNCHANGED <<local, monitors, last, logged, outage, status, stamp, bounds>>

-----------------------------------------------------------------------------
(* detectOutage after an up result *)

\* Faulty variants: an outage is looked for whatever the result, and the
\* target is not restored.
FindAlways(c) ==
  /\ pc[c] = "detect"
  /\ \E o \in ActiveOutages(mon[c]) :
       Step(c, "detect", "resolveOutage") /\ found' = [found EXCEPT ![c] = o]
  /\ UNCHANGED <<mon, tgt, result, warn, seen, clear, db, stamp, bounds>>
RestoreNothing(c) ==
  /\ Step(c, "restore", "done")
  /\ UNCHANGED <<local, db, stamp, bounds>>

FindActive(c) ==
  /\ pc[c] = "detect" /\ result[c] = "up"
  /\ \/ \E o \in ActiveOutages(mon[c]) :
          /\ Step(c, "detect", "resolveOutage")
          /\ found' = [found EXCEPT ![c] = o]
     \/ /\ ActiveOutages(mon[c]) = {} \/ Fails("read")
        /\ Step(c, "detect", "done")
        /\ UNCHANGED found
  /\ UNCHANGED <<mon, tgt, result, warn, seen, clear, db, stamp, bounds>>

\* The update is by _id alone: it does not ask whether the outage is still
\* active.  After an error, which a timeout may report of an update that was
\* made, the rest is skipped.
ResolveOutage(c) ==
  /\ pc[c] = "resolveOutage"
  /\ LET resolved == [outage EXCEPT ![found[c]] = "resolved"]
     IN  \/ /\ Step(c, "resolveOutage", "findIncident")
            /\ outage' = resolved
         \/ /\ Fails("write") /\ Step(c, "resolveOutage", "done")
            /\ outage' \in {outage, resolved}
  /\ UNCHANGED <<local, monitors, last, logged, incident, affects, status,
                 stamp, bounds>>

\* Any unresolved incident on the outage's component will do.  The filter
\* holds the outage's componentId and subComponentId; incidents name
\* components only, so an outage of a sub-component finds none.
FindIncident(c) ==
  /\ pc[c] = "findIncident"
  /\ LET t == tgt[found[c]]
         hits == IF t \in Components THEN OpenIncidents({t}) ELSE {}
     IN  \/ \E i \in hits : /\ Step(c, "findIncident", "resolveIncident")
                            /\ seen' = [seen EXCEPT ![c] = i]
         \/ /\ hits = {} \/ Fails("read")
            /\ Step(c, "findIncident", "done")
            /\ UNCHANGED seen
  /\ UNCHANGED <<mon, tgt, result, warn, found, clear, db, stamp, bounds>>

ResolveIncident(c) ==
  /\ Step(c, "resolveIncident", "restore")
  /\ \/ incident' = [incident EXCEPT ![seen[c]] =
                       IF @ = "deleted" THEN @ ELSE "resolved"]
     \/ Fails("write") /\ UNCHANGED incident
  /\ UNCHANGED <<local, monitors, last, logged, outage, affects, status,
                 stamp, bounds>>

RestoreTarget(c) ==
  /\ Step(c, "restore", "done")
  /\ \/ status' = [status EXCEPT ![tgt[found[c]]] = "operational"]
     \/ Fails("write") /\ UNCHANGED status
  /\ UNCHANGED <<local, monitors, last, logged, outage, incident, affects,
                 stamp, bounds>>

-----------------------------------------------------------------------------
(* Administrators, each request as one step *)

Admin(op) == op \in AdminOps /\ admin < AdminBudget /\ admin' = admin + 1

AdminCreateIncident(i, C) ==
  /\ Admin("create") /\ incident[i] = "none"
  /\ incident' = [incident EXCEPT ![i] = "open"]
  /\ affects' = [affects EXCEPT ![i] = C]
  /\ UNCHANGED <<pc, local, monitors, last, logged, outage, status, stamp, stops>>

\* An update of the status: resolving, or reopening what was resolved.
AdminUpdateIncident(i, s) ==
  /\ \/ Admin("resolve") /\ incident[i] = "open" /\ s = "resolved"
     \/ Admin("reopen") /\ incident[i] = "resolved" /\ s = "open"
  /\ incident' = [incident EXCEPT ![i] = s]
  /\ UNCHANGED <<pc, local, monitors, last, logged, outage, affects, status,
                 stamp, stops>>

\* An update of the affected components.
AdminAffect(i, C) ==
  /\ Admin("affect") /\ incident[i] \in {"open", "resolved"} /\ affects[i] # C
  /\ affects' = [affects EXCEPT ![i] = C]
  /\ UNCHANGED <<pc, local, monitors, last, logged, outage, incident, status,
                 stamp, stops>>

AdminDeleteIncident(i) ==
  /\ Admin("delete") /\ incident[i] \in {"open", "resolved"}
  /\ incident' = [incident EXCEPT ![i] = "deleted"]
  /\ UNCHANGED <<pc, local, monitors, last, logged, outage, affects, status,
                 stamp, stops>>

AdminSetStatus(t, s) ==
  /\ Admin("status") /\ status[t] # s
  /\ status' = [status EXCEPT ![t] = s]
  /\ UNCHANGED <<pc, local, monitors, last, logged, outage, incident, affects,
                 stamp, stops>>

\* Update of a monitor's component, or its deletion (t = None); outages, logs
\* and running checks keep what they have.
AdminEditMonitor(m, t) ==
  /\ Admin("monitor") /\ monitors[m] \notin {t, None}
  /\ monitors' = [monitors EXCEPT ![m] = t]
  /\ UNCHANGED <<pc, local, last, logged, outage, incident, affects, status,
                 stamp, stops>>

\* The process ends between two calls, or its context is cancelled so that
\* every later call fails.  Running checks are lost; the database is not.
ProcessStop ==
  /\ stops < StopBudget /\ stops' = stops + 1
  /\ \E c \in Checks : Running(c)
  /\ pc' = [c \in Checks |-> IF Running(c) THEN "lost" ELSE pc[c]]
  /\ UNCHANGED <<local, db, stamp, admin>>

-----------------------------------------------------------------------------
CheckStep(c) ==
  \/ \E m \in Monitors : StartCheck(c, m)
  \/ \E r \in {"up", "down"}, w \in BOOLEAN : Probe(c, r, w)
  \/ InsertLog(c) \/ UpdateLast(c)
  \/ SSLWarn(c) \/ SSLReadOutage(c) \/ SSLReadIncident(c) \/ SSLRestore(c)
  \/ ReadLogs(c) \/ FindOutage(c) \/ OpenOutage(c) \/ MarkTarget(c)
  \/ FindCover(c) \/ OpenIncident(c)
  \/ FindActive(c) \/ ResolveOutage(c) \/ FindIncident(c)
  \/ ResolveIncident(c) \/ RestoreTarget(c)

Affectable == (SUBSET Components) \ {{}}

AdminStep ==
  \/ \E i \in Manual, C \in Affectable : AdminCreateIncident(i, C)
  \/ \E i \in Incidents, s \in {"open", "resolved"} : AdminUpdateIncident(i, s)
  \/ \E i \in Incidents, C \in Affectable : AdminAffect(i, C)
  \/ \E i \in Incidents : AdminDeleteIncident(i)
  \/ \E t \in Targets, s \in Statuses : AdminSetStatus(t, s)
  \/ \E m \in Monitors, t \in Targets \cup {None} : AdminEditMonitor(m, t)

Next == (\E c \in Checks : CheckStep(c)) \/ AdminStep \/ ProcessStop

Spec == Init /\ [][Next]_vars

\* The scheduler runs every goroutine that can run and every call returns.
\* Nothing obliges the worker to start a check.
FairSpec == Spec /\ \A c \in Checks : WF_vars(Running(c) /\ CheckStep(c))

-----------------------------------------------------------------------------
(* Properties that hold however checks, faults and administrators interleave *)

\* Behind every outage there are Threshold stored failures of its monitor,
\* even when checks overlap, calls fail and the process restarts.
OutageBacked ==
  \A c \in Checks : outage[c] # "none" =>
    \E R \in SUBSET Stored(mon[c]) :
      Cardinality(R) = Threshold /\ \A d \in R : result[d] = "down"

\* An outage ends only through a check of its own monitor that found it up.
OwnRecovery ==
  [][\A o \in Checks : outage[o] = "active" /\ outage'[o] # "active" =>
       \E c \in Checks : /\ pc[c] = "resolveOutage" /\ pc'[c] # pc[c]
                         /\ mon[c] = mon[o] /\ result[c] = "up"]_vars

\* The end of an expiry warning never lifts a major outage that another check
\* or an administrator reported between the reads and the update: a target
\* leaves major_outage for operational only by a recovery or by hand.
WarningEndKeepsMajor ==
  [][\A t \in Targets : status[t] = "major_outage" /\ status'[t] = "operational" =>
       \/ admin' # admin
       \/ \E c \in Checks : pc[c] = "restore" /\ pc'[c] # pc[c] /\ tgt[found[c]] = t]_vars

-----------------------------------------------------------------------------
(* Properties that need conditions, named with each *)

\* The worker resolves an incident only for an outage of a component that the
\* incident names.  Needs administrators not to change what an incident
\* affects: the update is by _id alone, and the incident was read before.
RecoveryNamesComponent ==
  [][\A i \in Incidents : incident[i] = "open" /\ incident'[i] = "resolved"
                          /\ admin' = admin =>
       \E c \in Checks : /\ pc[c] = "resolveIncident" /\ pc'[c] # pc[c]
                         /\ tgt[found[c]] \in affects[i]]_vars

\* No monitor has two active outages.  Needs checks of one monitor not to
\* overlap and reads not to fail: the code looks for an active outage and
\* inserts one in two calls.
AtMostOneActiveOutage ==
  \A m \in Monitors : \A c, d \in ActiveOutages(m) : c = d

\* The worker marks a target and opens an incident only after it has stored
\* the outage they are about.  Needs writes not to fail and administrators
\* not to set statuses.
EffectsFollowOutage ==
  /\ \A t \in Targets : status[t] = "major_outage" =>
       \E c \in Checks : outage[c] # "none" /\ tgt[c] = t
  /\ \A c \in Checks : incident[c] # "none" => outage[c] # "none"

\* Whenever no check of a monitor is running, its outage, the status of its
\* component, the automatic incident, and its lastStatus and newest log agree.
\* Needs sequential checks without faults, a component of its own and nobody
\* else editing.
SettledAgreement ==
  \A m \in Monitors :
    /\ TargetOf[m] \in Components /\ m \notin SSLMonitors
    /\ \A c \in Checks : Running(c) => mon[c] # m
    =>
      /\ ActiveOutages(m) # {} <=> status[TargetOf[m]] = "major_outage"
      /\ ActiveOutages(m) # {} <=> OpenIncidents({TargetOf[m]}) # {}
      /\ \A d \in Stored(m) :
           (\A e \in Stored(m) : stamp[e] <= stamp[d]) => last[m] = result[d]

\* An expiry warning may hide a major outage, but what lifts a warning does not
\* lift an outage: while an outage is active and its target was marked, the
\* target is not shown operational.  Needs sequential checks without faults,
\* a target of its own and nobody else editing.
ActiveOutageVisible ==
  \A c \in Checks :
    outage[c] = "active" /\ pc[c] # "mark"
    /\ ~(\E d \in Checks : found[d] = c /\ pc[d] = "restore")
    => status[tgt[c]] # "operational"

\* A check that ends because its outage is already recorded leaves that outage
\* covered by an incident.  Needs the process not to end between the two
\* inserts of an earlier check.
DetectedOutageCovered ==
  \A c \in Checks :
    /\ pc[c] = "done" /\ result[c] = "down" /\ found[c] # None
    /\ outage[found[c]] = "active"
    => OpenIncidents({ComponentOf(tgt[found[c]])}) # {}

\* "has failed 3 consecutive checks": the Threshold latest results up to the
\* one that opened the outage, stored or not, are failures.  Needs results to
\* be stored in the order they were obtained, and stored at all.
ConsecutiveFailures ==
  \A c \in Checks : outage[c] # "none" =>
    LET upTo == {d \in Logs : /\ mon[d] = mon[c] /\ result[d] # "none"
                              /\ stamp[d] <= stamp[c]}
    IN  \E R \in SUBSET upTo :
          /\ Cardinality(R) = Threshold
          /\ \A d \in R : result[d] = "down"
          /\ \A d \in R, e \in upTo \ R : stamp[e] <= stamp[d]

\* "Automatic incident creation when a detected outage is not already covered
\* by an active incident": two automatic incidents are never open for one
\* component.
NoCoveredAutoIncident ==
  \A c, d \in Checks :
    incident[c] = "open" /\ incident[d] = "open" /\ affects[c] \cap affects[d] # {}
    => c = d

\* The run of failures a monitor is in, as far as the threshold.
RunOf(m) ==
  CHOOSE n \in 0 .. Threshold : HasRun(m, n) /\ (n < Threshold => ~HasRun(m, n + 1))

Lifecycle == INSTANCE OutageLifecycle
  WITH streak <- [m \in Monitors |-> RunOf(m)],
       out <- {m \in Monitors : ActiveOutages(m) # {}}

\* Detection takes the steps of OutageLifecycle and no others: an outage opens
\* on Threshold stored failures in a row and ends on a success, whatever
\* administrators edit and however often the process is restarted.  Needs
\* checks of one monitor not to overlap and writes not to fail.
LifecycleSteps == Lifecycle!Steps

\* Sequential, fault-free detection implements OutageLifecycle: what should
\* open or close also does.
ImplementsLifecycle == Lifecycle!Spec

=============================================================================
