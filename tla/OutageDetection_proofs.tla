----------------------- MODULE OutageDetection_proofs -----------------------
(***************************************************************************)
(* Theorems about OutageDetection for any set of checks, monitors, targets *)
(* and administrators' operations, with overlapping checks, failing calls  *)
(* and process restarts unless a theorem assumes otherwise.                *)
(***************************************************************************)
EXTENDS OutageDetection, FiniteSetTheorems, TLAPS

USE OutageAssumption

-----------------------------------------------------------------------------
(* Typing *)

Started(c) == pc[c] # "idle"

\* A check that was started has its monitor and target, one that resolves or
\* restores has read the outage (and the incident) it works on.
CheckInv ==
  \A c \in Checks :
    /\ Started(c) => mon[c] \in Monitors /\ tgt[c] \in Targets
    /\ pc[c] \in {"resolveOutage", "findIncident", "resolveIncident", "restore"} =>
         found[c] \in Checks /\ outage[found[c]] # "none" /\ mon[found[c]] = mon[c]
    /\ pc[c] = "resolveIncident" => seen[c] \in Incidents
    /\ pc[c] = "resolveOutage" => result[c] = "up"
    /\ ~Started(c) => outage[c] = "none" /\ c \notin logged
    /\ pc[c] \in {"probe", "log"} => c \notin logged

TypeInv == TypeOK /\ CheckInv

LEMMA InitTyped == Init => TypeInv
<1> SUFFICES ASSUME Init PROVE TypeInv OBVIOUS
<1>1. TypeOK
  BY DEF Init, TypeOK, PC, Logs, Incidents, Targets, Statuses
<1>2. CheckInv
  BY DEF Init, CheckInv, Started
<1> QED BY <1>1, <1>2 DEF TypeInv

LEMMA ComponentTyped == \A t \in Targets : ComponentOf(t) \in Components
BY DEF ComponentOf, Targets

LEMMA ChecksTyped ==
  ASSUME TypeInv, NEW c \in Checks, CheckStep(c) PROVE TypeInv'
<1> USE DEF TypeInv, TypeOK, CheckInv, Started, Step, PC, Logs, Incidents, Targets,
        Statuses, local, db, bounds
<1>1. ASSUME NEW m \in Monitors, StartCheck(c, m) PROVE TypeInv'
  BY <1>1 DEF StartCheck, Running
<1>2. ASSUME NEW r \in {"up", "down"}, NEW w \in BOOLEAN, Probe(c, r, w) PROVE TypeInv'
  <2>1. Cardinality({d \in Logs : stamp[d] # 0}) \in Nat
    BY FS_CardinalityType, FS_Subset, FS_Union
  <2> QED BY <1>2, <2>1 DEF Probe
<1>3. CASE InsertLog(c)  BY <1>3 DEF InsertLog
<1>4. CASE UpdateLast(c)
  <2>1. TypeOK'  BY <1>4 DEF UpdateLast
  <2>2. CheckInv'  BY <1>4 DEF UpdateLast
  <2> QED BY <2>1, <2>2
<1>5. CASE SSLWarn(c)
  <2>1. TypeOK'  BY <1>5 DEF SSLWarn
  <2>2. CheckInv'  BY <1>5 DEF SSLWarn
  <2> QED BY <2>1, <2>2
<1>6. CASE SSLReadOutage(c)
  <2>1. (TargetOutages(tgt[c]) = {}) \in BOOLEAN
    OBVIOUS
  <2>2. \E b \in BOOLEAN : clear' = [clear EXCEPT ![c] = b]
    BY <1>6, <2>1, Zenon DEF SSLReadOutage
  <2> QED BY <1>6, <2>2 DEF SSLReadOutage
<1>7. CASE SSLReadIncident(c)  BY <1>7 DEF SSLReadIncident, shouldRestoreOperational
<1>8. CASE SSLRestore(c)
  <2>1. TypeOK'  BY <1>8 DEF SSLRestore
  <2>2. CheckInv'  BY <1>8 DEF SSLRestore
  <2> QED BY <2>1, <2>2
<1>9. CASE ReadLogs(c)  BY <1>9 DEF ReadLogs
<1>10. CASE FindOutage(c)
  <2>1. TypeOK'  BY <1>10 DEF FindOutage, ActiveOutages
  <2>2. CheckInv'  BY <1>10 DEF FindOutage, ActiveOutages
  <2> QED BY <2>1, <2>2
<1>11. CASE OpenOutage(c)  BY <1>11 DEF OpenOutage
<1>12. CASE MarkTarget(c)
  <2>1. TypeOK'  BY <1>12 DEF MarkTarget
  <2>2. CheckInv'  BY <1>12 DEF MarkTarget
  <2> QED BY <2>1, <2>2
<1>13. CASE FindCover(c)  BY <1>13 DEF FindCover
<1>14. CASE OpenIncident(c)
  <2>1. {ComponentOf(tgt[c])} \in SUBSET Components
    BY <1>14, ComponentTyped DEF OpenIncident
  <2>2. TypeOK'  BY <1>14, <2>1 DEF OpenIncident
  <2>3. CheckInv'  BY <1>14 DEF OpenIncident
  <2> QED BY <2>2, <2>3
<1>15. CASE FindActive(c)
  <2>1. TypeOK'  BY <1>15 DEF FindActive, ActiveOutages
  <2>2. CheckInv'  BY <1>15 DEF FindActive, ActiveOutages
  <2> QED BY <2>1, <2>2
<1>16. CASE ResolveOutage(c)
  <2>1. TypeOK'  BY <1>16 DEF ResolveOutage
  <2>2. CheckInv'  BY <1>16 DEF ResolveOutage
  <2> QED BY <2>1, <2>2
<1>17. CASE FindIncident(c)  BY <1>17 DEF FindIncident, OpenIncidents
<1>18. CASE ResolveIncident(c)
  <2>1. TypeOK'  BY <1>18 DEF ResolveIncident
  <2>2. CheckInv'  BY <1>18 DEF ResolveIncident
  <2> QED BY <2>1, <2>2
<1>19. CASE RestoreTarget(c)
  <2>1. TypeOK'  BY <1>19 DEF RestoreTarget
  <2>2. CheckInv'  BY <1>19 DEF RestoreTarget
  <2> QED BY <2>1, <2>2
<1> HIDE DEF TypeInv, Step
<1> QED
  BY <1>1, <1>2, <1>3, <1>4, <1>5, <1>6, <1>7, <1>8, <1>9, <1>10, <1>11, <1>12,
     <1>13, <1>14, <1>15, <1>16, <1>17, <1>18, <1>19 DEF CheckStep

LEMMA OthersTyped == ASSUME TypeInv, AdminStep \/ ProcessStop PROVE TypeInv'
<1> USE DEF TypeInv, TypeOK, CheckInv, Started, PC, Logs, Incidents, Targets,
        Statuses, local, db, bounds, Admin
<1>1. ASSUME NEW i \in Manual, NEW C \in Affectable, AdminCreateIncident(i, C)
      PROVE TypeInv'
  BY <1>1 DEF AdminCreateIncident, Affectable
<1>2. ASSUME NEW i \in Incidents, NEW s \in {"open", "resolved"},
             AdminUpdateIncident(i, s)
      PROVE TypeInv'
  BY <1>2 DEF AdminUpdateIncident
<1>3. ASSUME NEW i \in Incidents, NEW C \in Affectable, AdminAffect(i, C)
      PROVE TypeInv'
  BY <1>3 DEF AdminAffect, Affectable
<1>4. ASSUME NEW i \in Incidents, AdminDeleteIncident(i) PROVE TypeInv'
  BY <1>4 DEF AdminDeleteIncident
<1>5. ASSUME NEW t \in Targets, NEW s \in Statuses, AdminSetStatus(t, s) PROVE TypeInv'
  BY <1>5 DEF AdminSetStatus
<1>6. ASSUME NEW m \in Monitors, NEW t \in Targets \cup {None}, AdminEditMonitor(m, t)
      PROVE TypeInv'
  BY <1>6 DEF AdminEditMonitor
<1>7. CASE ProcessStop
  BY <1>7 DEF ProcessStop, Running
<1> HIDE DEF TypeInv
<1> QED BY <1>1, <1>2, <1>3, <1>4, <1>5, <1>6, <1>7 DEF AdminStep

LEMMA NextTyped == TypeInv /\ [Next]_vars => TypeInv'
<1> SUFFICES ASSUME TypeInv, [Next]_vars PROVE TypeInv' OBVIOUS
<1>1. CASE UNCHANGED vars
  BY <1>1 DEF TypeInv, TypeOK, CheckInv, Started, vars, local, db, bounds
<1> QED BY <1>1, ChecksTyped, OthersTyped DEF Next

\* Every variable keeps its type: among others, a check that resolves an
\* outage or an incident has read one, whatever was edited meanwhile.
THEOREM TypeCorrect == Spec => []TypeOK
<1>1. TypeInv => TypeOK  BY DEF TypeInv
<1> QED BY <1>1, InitTyped, NextTyped, PTL DEF Spec

-----------------------------------------------------------------------------
(* Behind every outage there are failures *)

Backed(m) ==
  \E R \in SUBSET Stored(m) :
    Cardinality(R) = Threshold /\ \A d \in R : result[d] = "down"

\* A check that is about to insert an outage has seen the failures behind it.
BackedInv ==
  \A c \in Checks :
    /\ pc[c] \in {"findOutage", "openOutage"} => Backed(mon[c])
    /\ outage[c] # "none" => Backed(mon[c])

\* Results are never removed from the logs nor changed there, and a check
\* keeps its monitor and, once probed, its result.
LEMMA HistoryGrows ==
  ASSUME TypeInv, [Next]_vars
  PROVE  /\ logged \subseteq logged'
         /\ \A d \in logged : mon'[d] = mon[d] /\ result'[d] = result[d]
         /\ \A c \in Checks : Started(c) => Started(c)' /\ mon'[c] = mon[c]
<1> DEFINE Goal == /\ logged \subseteq logged'
                   /\ \A d \in logged : mon'[d] = mon[d] /\ result'[d] = result[d]
                   /\ \A c \in Checks : Started(c) => Started(c)' /\ mon'[c] = mon[c]
<1> SUFFICES Goal OBVIOUS
<1>1. ASSUME NEW c \in Checks, NEW m \in Monitors, StartCheck(c, m) PROVE Goal
  BY <1>1 DEF StartCheck, Step, TypeInv, TypeOK, CheckInv, Started, db
<1>2. ASSUME NEW c \in Checks, NEW r \in {"up", "down"}, NEW w \in BOOLEAN,
             Probe(c, r, w)
      PROVE Goal
  BY <1>2 DEF Probe, Step, TypeInv, TypeOK, CheckInv, Started, db
<1>3. ASSUME NEW c \in Checks, InsertLog(c) PROVE Goal
  BY <1>3 DEF InsertLog, Step, TypeInv, TypeOK, CheckInv, Started, local
<1>4. CASE UNCHANGED <<logged, mon, result>> /\ \E c \in Checks, to \in PC :
             to # "idle" /\ pc' = [pc EXCEPT ![c] = to]
  BY <1>4 DEF TypeInv, TypeOK, Started
<1>5. CASE UNCHANGED <<logged, mon, result, pc>>
  BY <1>5 DEF Started
<1>6. CASE ProcessStop
  BY <1>6 DEF ProcessStop, TypeInv, TypeOK, Started, local, db
<1>7. CASE AdminStep
  BY <1>5, <1>7 DEF AdminStep, AdminCreateIncident, AdminUpdateIncident, AdminAffect,
     AdminDeleteIncident, AdminSetStatus, AdminEditMonitor, local
<1>8. ASSUME NEW c \in Checks, CheckStep(c) PROVE Goal
  <2> USE DEF Step, PC, local, db
  <2>1. CASE UpdateLast(c)  BY <2>1, <1>4 DEF UpdateLast
  <2>2. CASE SSLWarn(c)  BY <2>2, <1>4 DEF SSLWarn
  <2>3. CASE SSLReadOutage(c)  BY <2>3, <1>4 DEF SSLReadOutage
  <2>4. CASE SSLReadIncident(c)  BY <2>4, <1>4 DEF SSLReadIncident, shouldRestoreOperational
  <2>5. CASE SSLRestore(c)  BY <2>5, <1>4 DEF SSLRestore
  <2>6. CASE ReadLogs(c)  BY <2>6, <1>4 DEF ReadLogs
  <2>7. CASE FindOutage(c)  BY <2>7, <1>4 DEF FindOutage
  <2>8. CASE OpenOutage(c)  BY <2>8, <1>4 DEF OpenOutage
  <2>9. CASE MarkTarget(c)  BY <2>9, <1>4 DEF MarkTarget
  <2>10. CASE FindCover(c)  BY <2>10, <1>4 DEF FindCover
  <2>11. CASE OpenIncident(c)  BY <2>11, <1>4 DEF OpenIncident
  <2>12. CASE FindActive(c)  BY <2>12, <1>4 DEF FindActive
  <2>13. CASE ResolveOutage(c)  BY <2>13, <1>4 DEF ResolveOutage
  <2>14. CASE FindIncident(c)  BY <2>14, <1>4 DEF FindIncident
  <2>15. CASE ResolveIncident(c)  BY <2>15, <1>4 DEF ResolveIncident
  <2>16. CASE RestoreTarget(c)  BY <2>16, <1>4 DEF RestoreTarget
  <2> QED
    BY <1>1, <1>2, <1>3, <1>8, <2>1, <2>2, <2>3, <2>4, <2>5, <2>6, <2>7, <2>8, <2>9,
       <2>10, <2>11, <2>12, <2>13, <2>14, <2>15, <2>16 DEF CheckStep
<1> QED BY <1>5, <1>6, <1>7, <1>8 DEF Next, vars, local, db

LEMMA BackedStays ==
  ASSUME TypeInv, [Next]_vars, NEW m \in Monitors, Backed(m) PROVE Backed(m)'
<1>1. PICK R \in SUBSET Stored(m) :
        Cardinality(R) = Threshold /\ \A d \in R : result[d] = "down"
  BY DEF Backed
<1>2. R \in SUBSET (Stored(m)') /\ \A d \in R : result'[d] = "down"
  BY <1>1, HistoryGrows DEF Stored
<1> QED BY <1>1, <1>2 DEF Backed

\* Which actions bring a check to the calls that open an outage, and which
\* actions change an outage.
LEMMA OutageSteps ==
  ASSUME TypeInv, [Next]_vars, NEW c \in Checks
  PROVE  /\ pc'[c] = "findOutage" /\ pc[c] # "findOutage"
           => pc[c] = "detect" /\ LatestAllDown(mon[c])
         /\ pc'[c] = "openOutage" /\ pc[c] # "openOutage" => FindOutage(c)
         /\ outage'[c] = "active" /\ outage[c] # "active"
              => pc[c] = "openOutage" /\ OpenOutage(c)
         /\ outage'[c] # "none" /\ outage[c] = "none" => OpenOutage(c)
         /\ outage[c] # "none" => outage'[c] # "none"
         /\ outage[c] = "active" /\ outage'[c] # "active" =>
              \E d \in Checks : ResolveOutage(d) /\ found[d] = c
         /\ Running(c)' /\ ~Running(c) => \E m \in Monitors : StartCheck(c, m)
<1> DEFINE Goal ==
      /\ pc'[c] = "findOutage" /\ pc[c] # "findOutage"
           => pc[c] = "detect" /\ LatestAllDown(mon[c])
      /\ pc'[c] = "openOutage" /\ pc[c] # "openOutage" => FindOutage(c)
      /\ outage'[c] = "active" /\ outage[c] # "active"
           => pc[c] = "openOutage" /\ OpenOutage(c)
      /\ outage'[c] # "none" /\ outage[c] = "none" => OpenOutage(c)
      /\ outage[c] # "none" => outage'[c] # "none"
      /\ outage[c] = "active" /\ outage'[c] # "active" =>
           \E d \in Checks : ResolveOutage(d) /\ found[d] = c
      /\ Running(c)' /\ ~Running(c) => \E m \in Monitors : StartCheck(c, m)
<1> SUFFICES Goal OBVIOUS
<1>1. CASE outage' = outage /\ \A d \in Checks :
             \/ pc'[d] \in {pc[d], "lost"}
             \/ Running(d) /\ pc'[d] \notin {"findOutage", "openOutage"}
  BY <1>1 DEF Running
<1>2. CASE UNCHANGED <<pc, outage>>
  BY <1>2 DEF Running
<1>3. CASE ProcessStop
  <2>1. outage' = outage /\ \A d \in Checks : pc'[d] \in {pc[d], "lost"}
    BY <1>3 DEF ProcessStop, TypeInv, TypeOK, local, db
  <2> QED BY <2>1 DEF Running
<1>4. CASE AdminStep
  BY <1>2, <1>4 DEF AdminStep, AdminCreateIncident, AdminUpdateIncident, AdminAffect,
     AdminDeleteIncident, AdminSetStatus, AdminEditMonitor, local
<1>5. ASSUME NEW d \in Checks, CheckStep(d) PROVE Goal
  <2> USE DEF Step, local, db
  <2>1. ASSUME NEW m \in Monitors, StartCheck(d, m) PROVE Goal
    BY <2>1 DEF StartCheck, Running, TypeInv, TypeOK
  <2>2. ASSUME NEW r \in {"up", "down"}, NEW w \in BOOLEAN, Probe(d, r, w) PROVE Goal
    BY <1>1, <2>2 DEF Probe, Running, TypeInv, TypeOK
  <2>3. CASE InsertLog(d)  BY <1>1, <2>3 DEF InsertLog, Running, TypeInv, TypeOK
  <2>4. CASE UpdateLast(d)  BY <1>1, <2>4 DEF UpdateLast, Running, TypeInv, TypeOK
  <2>5. CASE SSLWarn(d)  BY <1>1, <2>5 DEF SSLWarn, Running, TypeInv, TypeOK
  <2>6. CASE SSLReadOutage(d)
    BY <1>1, <2>6 DEF SSLReadOutage, Running, TypeInv, TypeOK
  <2>7. CASE SSLReadIncident(d)
    BY <1>1, <2>7 DEF SSLReadIncident, Running, TypeInv, TypeOK
  <2>8. CASE SSLRestore(d)  BY <1>1, <2>8 DEF SSLRestore, Running, TypeInv, TypeOK
  <2>9. CASE ReadLogs(d)
    BY <2>9 DEF ReadLogs, Running, TypeInv, TypeOK
  <2>10. CASE FindOutage(d)
    BY <2>10 DEF FindOutage, Running, TypeInv, TypeOK
  <2>11. CASE OpenOutage(d)
    BY <2>11 DEF OpenOutage, Running, TypeInv, TypeOK
  <2>12. CASE MarkTarget(d)  BY <1>1, <2>12 DEF MarkTarget, Running, TypeInv, TypeOK
  <2>13. CASE FindCover(d)  BY <1>1, <2>13 DEF FindCover, Running, TypeInv, TypeOK
  <2>14. CASE OpenIncident(d)
    BY <1>1, <2>14 DEF OpenIncident, Running, TypeInv, TypeOK
  <2>15. CASE FindActive(d)  BY <1>1, <2>15 DEF FindActive, Running, TypeInv, TypeOK
  <2>16. CASE ResolveOutage(d)
    <3>1. outage[found[d]] # "none" /\ found[d] \in Checks
      BY <2>16 DEF ResolveOutage, TypeInv, CheckInv
    <3>2. outage'[c] # outage[c] => found[d] = c /\ outage'[c] = "resolved"
      BY <2>16, <3>1 DEF ResolveOutage, TypeInv, TypeOK
    <3>3. PICK to \in {"findIncident", "done"} : pc' = [pc EXCEPT ![d] = to]
      BY <2>16 DEF ResolveOutage
    <3>4. pc[d] = "resolveOutage" /\ \A e \in Checks : pc'[e] = IF e = d THEN to ELSE pc[e]
      BY <2>16, <3>3 DEF ResolveOutage, TypeInv, TypeOK
    <3> QED BY <2>16, <3>1, <3>2, <3>4 DEF Running
  <2>17. CASE FindIncident(d)
    BY <1>1, <2>17 DEF FindIncident, Running, TypeInv, TypeOK
  <2>18. CASE ResolveIncident(d)
    BY <1>1, <2>18 DEF ResolveIncident, Running, TypeInv, TypeOK
  <2>19. CASE RestoreTarget(d)
    BY <1>1, <2>19 DEF RestoreTarget, Running, TypeInv, TypeOK
  <2> HIDE DEF Goal, Step
  <2> QED
    BY <1>5, <2>1, <2>2, <2>3, <2>4, <2>5, <2>6, <2>7, <2>8, <2>9, <2>10, <2>11, <2>12,
       <2>13, <2>14, <2>15, <2>16, <2>17, <2>18, <2>19 DEF CheckStep
<1>6. CASE UNCHANGED vars
  BY <1>2, <1>6 DEF vars, db
<1> HIDE DEF Goal
<1> QED BY <1>3, <1>4, <1>5, <1>6 DEF Next

\* Only ReadLogs brings a check to the point where it may insert an outage,
\* and only OpenOutage inserts one.
LEMMA BackedNext == TypeInv /\ BackedInv /\ [Next]_vars => BackedInv'
<1> SUFFICES ASSUME TypeInv, BackedInv, [Next]_vars, NEW c \in Checks
             PROVE  /\ pc'[c] \in {"findOutage", "openOutage"} => Backed(mon[c])'
                    /\ outage'[c] # "none" => Backed(mon[c])'
  BY DEF BackedInv
<1>1. LatestAllDown(mon[c]) => Backed(mon[c])
  BY DEF LatestAllDown, HasRun, Backed
<1>2. pc'[c] \in {"findOutage", "openOutage"} => Backed(mon[c]) /\ Started(c)
  <2>1. CASE pc'[c] = pc[c]
    BY <2>1 DEF BackedInv, Started
  <2>2. CASE pc'[c] = "findOutage" /\ pc[c] # "findOutage"
    BY <1>1, <2>2, OutageSteps DEF Started
  <2>3. CASE pc'[c] = "openOutage" /\ pc[c] # "openOutage"
    BY <2>3, OutageSteps DEF FindOutage, BackedInv, Started
  <2> QED BY <2>1, <2>2, <2>3
<1>3. outage'[c] # "none" => Backed(mon[c]) /\ Started(c)
  BY OutageSteps DEF OpenOutage, Step, BackedInv, TypeInv, CheckInv, Started
<1>4. Backed(mon[c]) /\ Started(c) => Backed(mon[c])'
  <2> SUFFICES ASSUME Backed(mon[c]), Started(c) PROVE Backed(mon[c])'
    OBVIOUS
  <2> DEFINE m == mon[c]
  <2>1. m \in Monitors /\ mon'[c] = m
    BY HistoryGrows DEF TypeInv, CheckInv
  <2>2. Backed(m)'
    BY <2>1, BackedStays
  <2> QED BY <2>1, <2>2
<1> QED BY <1>2, <1>3, <1>4

\* Every outage rests on Threshold stored failures of its monitor, for any
\* number of overlapping checks, failing calls, restarts and edits: the
\* invariant adds that a check which has not inserted yet has seen them.
THEOREM OutageBackedAlways == Spec => []OutageBacked
<1>1. Init => BackedInv
  BY DEF Init, BackedInv
<1>2. BackedInv => OutageBacked
  BY DEF BackedInv, OutageBacked, Backed
<1> QED BY <1>1, <1>2, InitTyped, NextTyped, BackedNext, PTL DEF Spec

-----------------------------------------------------------------------------
(* Only its own monitor's recovery ends an outage *)

\* An outage leaves "active" only by a check of the same monitor that found it
\* up; nothing an administrator does, and no other monitor, ends it.
THEOREM OwnRecoveryAlways == Spec => OwnRecovery
<1>1. TypeInv /\ [Next]_vars =>
        [\A o \in Checks : outage[o] = "active" /\ outage'[o] # "active" =>
           \E c \in Checks : /\ pc[c] = "resolveOutage" /\ pc'[c] # pc[c]
                             /\ mon[c] = mon[o] /\ result[c] = "up"]_vars
  <2> SUFFICES ASSUME TypeInv, [Next]_vars, NEW o \in Checks,
                      outage[o] = "active", outage'[o] # "active"
               PROVE  \E c \in Checks : /\ pc[c] = "resolveOutage" /\ pc'[c] # pc[c]
                                        /\ mon[c] = mon[o] /\ result[c] = "up"
    OBVIOUS
  <2>1. PICK d \in Checks : ResolveOutage(d) /\ found[d] = o
    BY OutageSteps
  <2>2. pc[d] = "resolveOutage" /\ pc'[d] # pc[d]
    BY <2>1 DEF ResolveOutage, Step, TypeInv, TypeOK
  <2>3. mon[d] = mon[o] /\ result[d] = "up"
    BY <2>1, <2>2 DEF TypeInv, CheckInv
  <2> QED BY <2>2, <2>3
<1> QED BY <1>1, InitTyped, NextTyped, PTL DEF Spec, OwnRecovery

-----------------------------------------------------------------------------
(* One active outage per monitor, when checks are sequential *)

\* No two checks of a monitor run at once.
Sequential ==
  \A c, d \in Checks : Running(c) /\ Running(d) /\ mon[c] = mon[d] => c = d

\* A check that is about to insert an outage is right that there is none.
SoloInv ==
  /\ Sequential
  /\ \A c \in Checks : pc[c] = "openOutage" => ActiveOutages(mon[c]) = {}
  /\ AtMostOneActiveOutage

LEMMA SequentialNext ==
  ASSUME ~Overlap
  PROVE  TypeInv /\ Sequential /\ [Next]_vars => Sequential'
<1> SUFFICES ASSUME TypeInv, Sequential, [Next]_vars PROVE Sequential'
  OBVIOUS
<1>1. \A c \in Checks : Running(c) => mon'[c] = mon[c]
  BY HistoryGrows DEF Running, Started
<1>2. ASSUME NEW c \in Checks, NEW d \in Checks, Running(c)', Running(d)',
             mon'[c] = mon'[d]
      PROVE  c = d
  <2>1. CASE Running(c) /\ Running(d)
    BY <1>1, <1>2, <2>1 DEF Sequential
  <2>2. ASSUME NEW e \in Checks, NEW m \in Monitors, StartCheck(e, m),
               NEW f \in Checks, Running(f)', mon'[e] = mon'[f]
        PROVE  e = f
    <3>1. ~Running(f) \/ mon[f] # m
      BY <2>2 DEF StartCheck
    <3>2. mon' = [mon EXCEPT ![e] = m] /\ pc' = [pc EXCEPT ![e] = "probe"]
      BY <2>2 DEF StartCheck, Step
    <3>3. CASE e # f
      <4>1. pc'[f] = pc[f] /\ mon'[f] = mon[f] /\ mon'[e] = m
        BY <3>2, <3>3 DEF TypeInv, TypeOK, Logs
      <4> QED BY <2>2, <3>1, <4>1 DEF Running
    <3> QED BY <3>3
  <2> QED BY <1>2, <2>1, <2>2, OutageSteps
<1> QED BY <1>2 DEF Sequential

LEMMA SoloNext ==
  ASSUME ~Overlap, "read" \notin Faults
  PROVE  TypeInv /\ SoloInv /\ [Next]_vars => SoloInv'
<1> SUFFICES ASSUME TypeInv, SoloInv, [Next]_vars PROVE SoloInv'
  OBVIOUS
<1>1. \A c \in Checks : outage[c] # "none" => mon'[c] = mon[c]
  BY HistoryGrows DEF TypeInv, CheckInv
<1>2. \A c \in Checks : Running(c) => mon'[c] = mon[c]
  BY HistoryGrows DEF Running, Started
<1>3. \A c \in Checks : outage'[c] = "active" =>
        \/ outage[c] = "active"
        \/ pc[c] = "openOutage" /\ OpenOutage(c)
  BY OutageSteps
<1>4. Sequential'
  BY SequentialNext DEF SoloInv
<1>5. ASSUME NEW c \in Checks, pc'[c] = "openOutage" PROVE (ActiveOutages(mon[c]) = {})'
  <2>1. ActiveOutages(mon[c]) = {} /\ Running(c)
    <3>1. CASE pc[c] = "openOutage"
      BY <3>1 DEF SoloInv, Running
    <3>2. CASE FindOutage(c)
      BY <1>5, <3>2 DEF FindOutage, Fails, Step, Running, TypeInv, TypeOK
    <3> QED BY <1>5, <3>1, <3>2, OutageSteps
  <2>2. \A d \in Checks : ~OpenOutage(d) \/ mon[d] # mon[c]
    BY <1>5, <2>1 DEF SoloInv, Sequential, OpenOutage, Step, Running, TypeInv, TypeOK
  <2>3. \A d \in Checks : outage'[d] = "active" => mon'[d] # mon'[c]
    BY <1>1, <1>2, <1>3, <2>1, <2>2 DEF ActiveOutages, OpenOutage, local
  <2> QED BY <2>3 DEF ActiveOutages
<1>6. ASSUME NEW m \in Monitors, NEW c \in Checks, NEW d \in Checks,
             outage'[c] = "active", outage'[d] = "active", mon'[c] = m, mon'[d] = m
      PROVE  c = d
  <2>1. CASE outage[c] = "active" /\ outage[d] = "active"
    BY <1>1, <1>6, <2>1 DEF SoloInv, AtMostOneActiveOutage, ActiveOutages
  <2>2. ASSUME NEW e \in Checks, NEW f \in Checks, OpenOutage(e), pc[e] = "openOutage",
               mon'[e] = m, mon'[f] = m, outage'[f] = "active"
        PROVE  e = f
    <3>1. mon' = mon /\ ActiveOutages(m) = {}
      BY <2>2 DEF OpenOutage, local, SoloInv
    <3>2. outage[f] # "active"
      BY <2>2, <3>1 DEF ActiveOutages
    <3> QED BY <2>2, <3>2 DEF OpenOutage, TypeInv, TypeOK
  <2> QED BY <1>3, <1>6, <2>1, <2>2
<1>7. (\A m \in Monitors : \A c, d \in ActiveOutages(m) : c = d)'
  BY <1>6 DEF ActiveOutages
<1> QED BY <1>4, <1>5, <1>7 DEF SoloInv, AtMostOneActiveOutage

\* The find-then-insert of detectOutage gives one active outage per monitor as
\* long as checks of one monitor do not overlap (PromptChecksDoNotOverlap of
\* ServerLifecycle_proofs says when) and reads do not fail; other monitors, edits,
\* restarts and failing writes do no harm.
THEOREM OneActiveOutage ==
  ASSUME ~Overlap, "read" \notin Faults
  PROVE  Spec => []AtMostOneActiveOutage
<1>1. Init => SoloInv
  BY DEF Init, SoloInv, Sequential, Running, ActiveOutages, AtMostOneActiveOutage
<1>2. SoloInv => AtMostOneActiveOutage
  BY DEF SoloInv
<1> QED BY <1>1, <1>2, InitTyped, NextTyped, SoloNext, PTL DEF Spec

-----------------------------------------------------------------------------
(* What a check reports to the status page *)

Reporting == {"mark", "findCover", "openIncident"}

\* How a check gets to the calls that report an outage or resolve an incident,
\* and what it keeps meanwhile.
LEMMA LocalSteps ==
  ASSUME TypeInv, [Next]_vars, NEW c \in Checks
  PROVE  /\ Started(c) => tgt'[c] = tgt[c]
         /\ pc'[c] = "resolveIncident" =>
              \/ pc[c] = "resolveIncident" /\ found'[c] = found[c] /\ seen'[c] = seen[c]
              \/ FindIncident(c)
         /\ pc'[c] = "resolveOutage" =>
              (pc[c] = "resolveOutage" /\ found'[c] = found[c]) \/ FindActive(c)
         /\ pc'[c] \in Reporting => pc[c] \in Reporting \/ OpenOutage(c)
         /\ pc[c] \in {"done", "lost"} => pc'[c] = pc[c]
<1> DEFINE Goal ==
      /\ Started(c) => tgt'[c] = tgt[c]
      /\ pc'[c] = "resolveIncident" =>
           \/ pc[c] = "resolveIncident" /\ found'[c] = found[c] /\ seen'[c] = seen[c]
           \/ FindIncident(c)
      /\ pc'[c] = "resolveOutage" =>
           (pc[c] = "resolveOutage" /\ found'[c] = found[c]) \/ FindActive(c)
      /\ pc'[c] \in Reporting => pc[c] \in Reporting \/ OpenOutage(c)
      /\ pc[c] \in {"done", "lost"} => pc'[c] = pc[c]
<1> SUFFICES Goal OBVIOUS
<1>1. ASSUME UNCHANGED tgt, NEW d \in Checks, NEW to \in PC, pc[d] \notin {"done", "lost"},
             pc' = [pc EXCEPT ![d] = to], to \notin {"resolveOutage", "resolveIncident"},
             to \in Reporting => pc[d] \in Reporting,
             \A e \in Checks : e # d => found'[e] = found[e] /\ seen'[e] = seen[e]
      PROVE  Goal
  BY <1>1 DEF TypeInv, TypeOK
<1>2. CASE UNCHANGED <<pc, tgt, found, seen>>
  BY <1>2
<1>3. CASE ProcessStop
  BY <1>3 DEF ProcessStop, Running, TypeInv, TypeOK, Reporting, local
<1>4. CASE AdminStep
  BY <1>2, <1>4 DEF AdminStep, AdminCreateIncident, AdminUpdateIncident, AdminAffect,
     AdminDeleteIncident, AdminSetStatus, AdminEditMonitor, local
<1>5. ASSUME NEW d \in Checks, CheckStep(d) PROVE Goal
  <2> USE DEF Step, local, PC, Reporting
  <2>1. ASSUME NEW m \in Monitors, StartCheck(d, m) PROVE Goal
    BY <2>1 DEF StartCheck, Started, TypeInv, TypeOK
  <2>2. ASSUME NEW r \in {"up", "down"}, NEW w \in BOOLEAN, Probe(d, r, w) PROVE Goal
    BY <1>1, <2>2 DEF Probe
  <2>3. CASE InsertLog(d)  BY <1>1, <2>3 DEF InsertLog
  <2>4. CASE UpdateLast(d)  BY <1>1, <2>4 DEF UpdateLast
  <2>5. CASE SSLWarn(d)  BY <1>1, <2>5 DEF SSLWarn
  <2>6. CASE SSLReadOutage(d)  BY <1>1, <2>6 DEF SSLReadOutage
  <2>7. CASE SSLReadIncident(d)
    BY <1>1, <2>7 DEF SSLReadIncident
  <2>8. CASE SSLRestore(d)  BY <1>1, <2>8 DEF SSLRestore
  <2>9. CASE ReadLogs(d)  BY <1>1, <2>9 DEF ReadLogs
  <2>10. CASE FindOutage(d)  BY <1>1, <2>10 DEF FindOutage, TypeInv, TypeOK
  <2>11. CASE OpenOutage(d)
    BY <2>11 DEF OpenOutage, TypeInv, TypeOK
  <2>12. CASE MarkTarget(d)  BY <1>1, <2>12 DEF MarkTarget
  <2>13. CASE FindCover(d)  BY <1>1, <2>13 DEF FindCover
  <2>14. CASE OpenIncident(d)  BY <1>1, <2>14 DEF OpenIncident
  <2>15. CASE FindActive(d)
    BY <2>15 DEF FindActive, TypeInv, TypeOK
  <2>16. CASE ResolveOutage(d)
    <3>1. /\ pc[d] = "resolveOutage" /\ UNCHANGED local
          /\ \E to \in {"findIncident", "done"} : pc' = [pc EXCEPT ![d] = to]
      BY <2>16 DEF ResolveOutage
    <3> QED BY <1>1, <3>1
  <2>17. CASE FindIncident(d)
    BY <2>17 DEF FindIncident, TypeInv, TypeOK
  <2>18. CASE ResolveIncident(d)  BY <1>1, <2>18 DEF ResolveIncident
  <2>19. CASE RestoreTarget(d)  BY <1>1, <2>19 DEF RestoreTarget
  <2> HIDE DEF Goal, Step
  <2> QED
    BY <1>5, <2>1, <2>2, <2>3, <2>4, <2>5, <2>6, <2>7, <2>8, <2>9, <2>10, <2>11, <2>12,
       <2>13, <2>14, <2>15, <2>16, <2>17, <2>18, <2>19 DEF CheckStep
<1>6. CASE UNCHANGED vars
  BY <1>2, <1>6 DEF vars, local
<1> HIDE DEF Goal
<1> QED BY <1>3, <1>4, <1>5, <1>6 DEF Next

\* Which actions change an incident, what it affects, and a status.
IncidentStep(i) ==
  \/ AdminStep /\ admin' # admin /\ incident'[i] # "none" /\ (incident[i] = "none" => i \in Manual)
  \/ i \in Checks /\ OpenIncident(i) /\ incident'[i] = "open"
  \/ \E c \in Checks : ResolveIncident(c) /\ seen[c] = i /\ incident'[i] = "resolved"

AffectStep(i) ==
  \/ "affect" \in AdminOps
  \/ i \in Manual /\ incident[i] = "none"
  \/ i \in Checks /\ OpenIncident(i)

StatusStep(t) ==
  \/ "status" \in AdminOps /\ admin' # admin
  \/ \E c \in Checks : SSLWarn(c) /\ tgt[c] = t /\ status'[t] = "degraded_performance"
  \/ \E c \in Checks : SSLRestore(c) /\ tgt[c] = t /\ status'[t] = "operational"
                       /\ status[t] = "degraded_performance"
  \/ \E c \in Checks : MarkTarget(c) /\ pc'[c] = "findCover" /\ tgt[c] = t
                       /\ status'[t] = "major_outage"
  \/ \E c \in Checks : RestoreTarget(c) /\ tgt[found[c]] = t
                       /\ status'[t] = "operational"

LEMMA EffectSteps ==
  ASSUME TypeInv, [Next]_vars
  PROVE  /\ \A i \in Incidents : incident'[i] # incident[i] => IncidentStep(i)
         /\ \A i \in Incidents : affects'[i] # affects[i] => AffectStep(i)
         /\ \A t \in Targets : status'[t] # status[t] => StatusStep(t)
<1> DEFINE Goal == /\ \A i \in Incidents : incident'[i] # incident[i] => IncidentStep(i)
                   /\ \A i \in Incidents : affects'[i] # affects[i] => AffectStep(i)
                   /\ \A t \in Targets : status'[t] # status[t] => StatusStep(t)
<1> SUFFICES Goal OBVIOUS
<1> USE DEF db
<1>1. CASE UNCHANGED <<incident, affects, status>>
  BY <1>1
<1>2. CASE UNCHANGED <<incident, affects>> /\ \E d \in Checks :
             \/ SSLWarn(d) \/ SSLRestore(d) \/ MarkTarget(d) \/ RestoreTarget(d)
  <2>1. PICK d \in Checks :
             SSLWarn(d) \/ SSLRestore(d) \/ MarkTarget(d) \/ RestoreTarget(d)
    BY <1>2
  <2>2. ASSUME NEW t \in Targets, status'[t] # status[t] PROVE StatusStep(t)
    <3>1. CASE SSLWarn(d)
      <4>1. tgt[d] = t /\ status'[t] = "degraded_performance"
        BY <2>2, <3>1 DEF SSLWarn, TypeInv, TypeOK
      <4> QED BY <3>1, <4>1 DEF StatusStep
    <3>2. CASE SSLRestore(d)
      <4>1. /\ tgt[d] = t /\ status'[t] = "operational"
            /\ status[t] = "degraded_performance"
        BY <2>2, <3>2 DEF SSLRestore, TypeInv, TypeOK
      <4> QED BY <3>2, <4>1 DEF StatusStep
    <3>3. CASE MarkTarget(d)
      <4>1. tgt[d] = t /\ status'[t] = "major_outage" /\ pc'[d] = "findCover"
        BY <2>2, <3>3 DEF MarkTarget, Step, TypeInv, TypeOK
      <4> QED BY <3>3, <4>1 DEF StatusStep
    <3>4. CASE RestoreTarget(d)
      <4>1. tgt[found[d]] = t /\ status'[t] = "operational"
        BY <2>2, <3>4 DEF RestoreTarget, TypeInv, TypeOK
      <4> QED BY <3>4, <4>1 DEF StatusStep
    <3> QED BY <2>1, <3>1, <3>2, <3>3, <3>4
  <2> QED BY <1>2, <2>2
<1>3. ASSUME NEW d \in Checks, OpenIncident(d) PROVE Goal
  <2>1. \A i \in Incidents : incident'[i] # incident[i] => i = d /\ incident'[i] = "open"
    BY <1>3 DEF OpenIncident, TypeInv, TypeOK
  <2>2. \A i \in Incidents : affects'[i] # affects[i] => i = d
    BY <1>3 DEF OpenIncident, TypeInv, TypeOK
  <2>3. status' = status
    BY <1>3 DEF OpenIncident
  <2> QED BY <1>3, <2>1, <2>2, <2>3 DEF IncidentStep, AffectStep
<1>4. ASSUME NEW d \in Checks, ResolveIncident(d) PROVE Goal
  <2>1. \A i \in Incidents :
           incident'[i] # incident[i] => seen[d] = i /\ incident'[i] = "resolved"
    BY <1>4 DEF ResolveIncident, TypeInv, TypeOK
  <2>2. UNCHANGED <<affects, status>>
    BY <1>4 DEF ResolveIncident
  <2> QED BY <1>4, <2>1, <2>2 DEF IncidentStep
<1>5. CASE AdminStep
  <2>1. admin' # admin
    BY <1>5 DEF AdminStep, AdminCreateIncident, AdminUpdateIncident, AdminAffect,
       AdminDeleteIncident, AdminSetStatus, AdminEditMonitor, Admin, TypeInv, TypeOK
  <2>2. ASSUME NEW i \in Incidents, incident'[i] # incident[i] PROVE IncidentStep(i)
    <3>1. incident'[i] # "none" /\ (incident[i] = "none" => i \in Manual)
      BY <1>5, <2>2 DEF AdminStep, AdminCreateIncident, AdminUpdateIncident, AdminAffect,
         AdminDeleteIncident, AdminSetStatus, AdminEditMonitor, TypeInv, TypeOK
    <3> QED BY <1>5, <2>1, <3>1 DEF IncidentStep
  <2>3. ASSUME NEW i \in Incidents, affects'[i] # affects[i] PROVE AffectStep(i)
    BY <1>5, <2>3 DEF AdminStep, AdminCreateIncident, AdminUpdateIncident, AdminAffect,
       AdminDeleteIncident, AdminSetStatus, AdminEditMonitor, Admin, AffectStep,
       TypeInv, TypeOK
  <2>4. ASSUME NEW t \in Targets, status'[t] # status[t] PROVE StatusStep(t)
    BY <1>5, <2>1, <2>4 DEF AdminStep, AdminCreateIncident, AdminUpdateIncident,
       AdminAffect, AdminDeleteIncident, AdminSetStatus, AdminEditMonitor, Admin, StatusStep
  <2> QED BY <2>2, <2>3, <2>4
<1>6. ASSUME NEW d \in Checks, CheckStep(d) PROVE Goal
  <2>1. CASE \/ \E m \in Monitors : StartCheck(d, m)
             \/ \E r \in {"up", "down"}, w \in BOOLEAN : Probe(d, r, w)
             \/ InsertLog(d) \/ UpdateLast(d) \/ SSLReadOutage(d) \/ SSLReadIncident(d)
    BY <1>1, <2>1 DEF StartCheck, Probe, InsertLog, UpdateLast, SSLReadOutage,
       SSLReadIncident
  <2>2. CASE \/ ReadLogs(d) \/ FindOutage(d) \/ OpenOutage(d) \/ FindCover(d)
             \/ FindActive(d) \/ ResolveOutage(d) \/ FindIncident(d)
    BY <1>1, <2>2 DEF ReadLogs, FindOutage, OpenOutage, FindCover, FindActive,
       ResolveOutage, FindIncident
  <2>3. CASE SSLWarn(d) \/ SSLRestore(d) \/ MarkTarget(d) \/ RestoreTarget(d)
    BY <1>2, <2>3 DEF SSLWarn, SSLRestore, MarkTarget, RestoreTarget
  <2> HIDE DEF Goal
  <2> QED BY <1>3, <1>4, <1>6, <2>1, <2>2, <2>3 DEF CheckStep
<1>7. CASE UNCHANGED vars \/ ProcessStop
  BY <1>1, <1>7 DEF vars, ProcessStop
<1> HIDE DEF Goal
<1> QED BY <1>5, <1>6, <1>7 DEF Next

\* What applySSLWarningStatus lifts at the end of a warning is a degradation:
\* its second look at the status, in the update's filter, is what keeps a major
\* outage that came in between, whatever overlaps, fails or is edited.
THEOREM WarningEndKeeps == Spec => WarningEndKeepsMajor
<1>1. TypeInv /\ [Next]_vars =>
        [\A t \in Targets : status[t] = "major_outage" /\ status'[t] = "operational" =>
           \/ admin' # admin
           \/ \E c \in Checks : pc[c] = "restore" /\ pc'[c] # pc[c] /\ tgt[found[c]] = t]_vars
  <2> SUFFICES ASSUME TypeInv, [Next]_vars, NEW t \in Targets, admin' = admin,
                      status[t] = "major_outage", status'[t] = "operational"
               PROVE  \E c \in Checks : /\ pc[c] = "restore" /\ pc'[c] # pc[c]
                                        /\ tgt[found[c]] = t
    OBVIOUS
  <2>1. PICK c \in Checks : RestoreTarget(c) /\ tgt[found[c]] = t
    BY EffectSteps DEF StatusStep
  <2>2. pc[c] = "restore" /\ pc'[c] # pc[c]
    BY <2>1 DEF RestoreTarget, Step, TypeInv, TypeOK
  <2> QED BY <2>1, <2>2
<1> QED BY <1>1, InitTyped, NextTyped, PTL DEF Spec, WarningEndKeepsMajor

\* A check opens its incident last of all, and resolves one that exists.
IncidentInv ==
  \A c \in Checks :
    /\ incident[c] # "none" => pc[c] \in {"done", "lost"}
    /\ pc[c] = "resolveIncident" => incident[seen[c]] # "none"

LEMMA IncidentNext == TypeInv /\ IncidentInv /\ [Next]_vars => IncidentInv'
<1> SUFFICES ASSUME TypeInv, IncidentInv, [Next]_vars, NEW c \in Checks
             PROVE  /\ incident'[c] # "none" => pc'[c] \in {"done", "lost"}
                    /\ pc'[c] = "resolveIncident" => incident'[seen'[c]] # "none"
  BY DEF IncidentInv
<1>1. ASSUME NEW i \in Incidents, incident[i] # "none" PROVE incident'[i] # "none"
  BY <1>1, EffectSteps DEF IncidentStep
<1>2. ASSUME incident'[c] # "none" PROVE pc'[c] \in {"done", "lost"}
  <2>1. CASE incident[c] # "none"
    BY <2>1, LocalSteps DEF IncidentInv
  <2>2. CASE incident[c] = "none"
    <3>1. OpenIncident(c)
      BY <1>2, <2>2, EffectSteps DEF IncidentStep, Incidents, IncidentInv, ResolveIncident, Step
    <3> QED BY <3>1 DEF OpenIncident, Step, TypeInv, TypeOK
  <2> QED BY <2>1, <2>2
<1>3. ASSUME pc'[c] = "resolveIncident" PROVE incident'[seen'[c]] # "none"
  <2>1. CASE pc[c] = "resolveIncident" /\ seen'[c] = seen[c]
    BY <1>1, <2>1 DEF IncidentInv, TypeInv, CheckInv
  <2>2. CASE FindIncident(c)
    BY <1>3, <2>2 DEF FindIncident, Step, OpenIncidents, TypeInv, TypeOK, db
  <2> QED BY <1>3, <2>1, <2>2, LocalSteps
<1> QED BY <1>2, <1>3

\* The incident a check is about to resolve names the component of its outage.
NamesInv ==
  \A c \in Checks : pc[c] = "resolveIncident" => tgt[found[c]] \in affects[seen[c]]

LEMMA NamesNext ==
  ASSUME "affect" \notin AdminOps
  PROVE  TypeInv /\ IncidentInv /\ NamesInv /\ [Next]_vars => NamesInv'
<1> SUFFICES ASSUME TypeInv, IncidentInv, NamesInv, [Next]_vars, NEW c \in Checks,
                    pc'[c] = "resolveIncident"
             PROVE  tgt'[found'[c]] \in affects'[seen'[c]]
  BY DEF NamesInv
<1>1. CASE pc[c] = "resolveIncident" /\ found'[c] = found[c] /\ seen'[c] = seen[c]
  <2>1. found[c] \in Checks /\ Started(found[c]) /\ seen[c] \in Incidents
    BY <1>1 DEF TypeInv, CheckInv
  <2>2. tgt'[found[c]] = tgt[found[c]]
    BY <2>1, LocalSteps
  <2>3. affects'[seen[c]] = affects[seen[c]]
    <3>1. incident[seen[c]] # "none"
      BY <1>1 DEF IncidentInv
    <3>2. ~(seen[c] \in Checks /\ OpenIncident(seen[c]))
      BY <3>1 DEF IncidentInv, OpenIncident, Step
    <3> QED BY <2>1, <3>1, <3>2, EffectSteps DEF AffectStep
  <2> QED BY <1>1, <2>2, <2>3 DEF NamesInv
<1>2. CASE FindIncident(c)
  <2>1. PICK i \in Incidents : /\ seen' = [seen EXCEPT ![c] = i]
                               /\ tgt[found[c]] \in affects[i]
    BY <1>2 DEF FindIncident, Step, OpenIncidents, TypeInv, TypeOK
  <2>2. seen'[c] = i /\ UNCHANGED <<found, tgt, affects>>
    BY <1>2, <2>1 DEF FindIncident, TypeInv, TypeOK, db
  <2> QED BY <2>1, <2>2
<1> QED BY <1>1, <1>2, LocalSteps

\* Between its read of an incident and its update by _id, other checks and
\* administrators may resolve, reopen or delete it; as long as nobody changes
\* what it affects, the update still concerns the right component.
THEOREM RecoveryNames ==
  ASSUME "affect" \notin AdminOps
  PROVE  Spec => RecoveryNamesComponent
<1>1. Init => IncidentInv /\ NamesInv
  BY DEF Init, IncidentInv, NamesInv, Incidents
<1>2. TypeInv /\ NamesInv /\ [Next]_vars =>
        [\A i \in Incidents : incident[i] = "open" /\ incident'[i] = "resolved"
                              /\ admin' = admin =>
           \E c \in Checks : /\ pc[c] = "resolveIncident" /\ pc'[c] # pc[c]
                             /\ tgt[found[c]] \in affects[i]]_vars
  <2> SUFFICES ASSUME TypeInv, NamesInv, [Next]_vars, NEW i \in Incidents, admin' = admin,
                      incident[i] = "open", incident'[i] = "resolved"
               PROVE  \E c \in Checks : /\ pc[c] = "resolveIncident" /\ pc'[c] # pc[c]
                                        /\ tgt[found[c]] \in affects[i]
    OBVIOUS
  <2>1. PICK c \in Checks : ResolveIncident(c) /\ seen[c] = i
    BY EffectSteps DEF IncidentStep
  <2>2. pc[c] = "resolveIncident" /\ pc'[c] # pc[c]
    BY <2>1 DEF ResolveIncident, Step, TypeInv, TypeOK
  <2> QED BY <2>1, <2>2 DEF NamesInv
<1> QED
  BY <1>1, <1>2, InitTyped, NextTyped, IncidentNext, NamesNext, PTL
  DEF Spec, RecoveryNamesComponent

\* A check that reports has stored its outage.
ReportInv ==
  /\ \A c \in Checks : pc[c] \in Reporting => outage[c] # "none"
  /\ EffectsFollowOutage

LEMMA ReportNext ==
  ASSUME "write" \notin Faults, "status" \notin AdminOps
  PROVE  TypeInv /\ IncidentInv /\ ReportInv /\ [Next]_vars => ReportInv'
<1> SUFFICES ASSUME TypeInv, IncidentInv, ReportInv, [Next]_vars PROVE ReportInv'
  OBVIOUS
<1>1. ASSUME NEW c \in Checks, outage[c] # "none"
      PROVE  outage'[c] # "none" /\ tgt'[c] = tgt[c]
  <2>1. Started(c)
    BY <1>1 DEF TypeInv, CheckInv
  <2>2. outage'[c] # "none"
    BY <1>1, OutageSteps
  <2> QED BY <2>1, <2>2, LocalSteps
<1>2. ASSUME NEW c \in Checks, pc'[c] \in Reporting PROVE outage'[c] # "none"
  <2>1. CASE pc[c] \in Reporting
    BY <1>1, <2>1 DEF ReportInv
  <2>2. CASE OpenOutage(c)
    BY <2>2 DEF OpenOutage, Fails, TypeInv, TypeOK
  <2> QED BY <1>2, <2>1, <2>2, LocalSteps
<1>3. ASSUME NEW t \in Targets, status'[t] = "major_outage"
      PROVE  \E c \in Checks : outage'[c] # "none" /\ tgt'[c] = t
  <2>1. CASE status[t] = "major_outage"
    <3>1. PICK c \in Checks : outage[c] # "none" /\ tgt[c] = t
      BY <2>1 DEF ReportInv, EffectsFollowOutage
    <3> QED BY <1>1, <3>1
  <2>2. CASE status[t] # "major_outage"
    <3>1. PICK c \in Checks : MarkTarget(c) /\ tgt[c] = t
      BY <1>3, <2>2, EffectSteps DEF StatusStep
    <3>2. outage[c] # "none"
      BY <3>1 DEF MarkTarget, Step, ReportInv, Reporting
    <3> QED BY <1>1, <3>1, <3>2
  <2> QED BY <2>1, <2>2
<1>4. ASSUME NEW c \in Checks, incident'[c] # "none" PROVE outage'[c] # "none"
  <2>1. CASE incident[c] # "none"
    BY <1>1, <2>1 DEF ReportInv, EffectsFollowOutage
  <2>2. CASE incident[c] = "none"
    <3>1. OpenIncident(c)
      BY <1>4, <2>2, EffectSteps DEF IncidentStep, Incidents, IncidentInv, ResolveIncident, Step
    <3> QED BY <1>1, <3>1 DEF OpenIncident, Step, ReportInv, Reporting
  <2> QED BY <2>1, <2>2
<1> QED BY <1>2, <1>3, <1>4 DEF ReportInv, EffectsFollowOutage

\* Store the outage, mark the target, open the incident: in this order, so a
\* process that ends in between leaves nothing on the status page without the
\* outage it is about.
THEOREM EffectsFollow ==
  ASSUME "write" \notin Faults, "status" \notin AdminOps
  PROVE  Spec => []EffectsFollowOutage
<1>1. Init => IncidentInv /\ ReportInv
  <2>1. ASSUME Init PROVE ReportInv
    <3>1. \A t \in Targets : status[t] # "major_outage"
      BY <2>1 DEF Init
    <3> QED BY <2>1, <3>1 DEF Init, ReportInv, Reporting, EffectsFollowOutage, Incidents
  <2> QED BY <2>1 DEF Init, IncidentInv, Incidents
<1>2. ReportInv => EffectsFollowOutage
  BY DEF ReportInv
<1> QED
  BY <1>1, <1>2, InitTyped, NextTyped, IncidentNext, ReportNext, PTL DEF Spec

-----------------------------------------------------------------------------
(* While an outage is active, its target does not look operational *)

Recovering == {"findIncident", "resolveIncident", "restore"}

\* How a check gets to the calls that show a target operational again.
LEMMA RestoreSteps ==
  ASSUME TypeInv, [Next]_vars, NEW c \in Checks
  PROVE  /\ pc'[c] = "sslIncident" /\ clear'[c] =>
              (pc[c] = "sslIncident" /\ clear[c]) \/ SSLReadOutage(c)
         /\ pc'[c] = "sslRestore" =>
              pc[c] = "sslRestore" \/ (SSLReadIncident(c) /\ clear[c])
         /\ pc'[c] \in Recovering => pc[c] \in Recovering \/ ResolveOutage(c)
         /\ pc[c] = "mark" /\ pc'[c] # "mark" => MarkTarget(c) \/ ProcessStop
         /\ Started(c)' /\ ~Started(c) => \E m \in Monitors : StartCheck(c, m)
<1> DEFINE Goal ==
      /\ pc'[c] = "sslIncident" /\ clear'[c] =>
           (pc[c] = "sslIncident" /\ clear[c]) \/ SSLReadOutage(c)
      /\ pc'[c] = "sslRestore" => pc[c] = "sslRestore" \/ (SSLReadIncident(c) /\ clear[c])
      /\ pc'[c] \in Recovering => pc[c] \in Recovering \/ ResolveOutage(c)
      /\ pc[c] = "mark" /\ pc'[c] # "mark" => MarkTarget(c) \/ ProcessStop
      /\ Started(c)' /\ ~Started(c) => \E m \in Monitors : StartCheck(c, m)
<1> SUFFICES Goal OBVIOUS
<1>1. ASSUME UNCHANGED clear, NEW d \in Checks, NEW to \in PC, pc[d] \notin {"idle", "mark"},
             pc' = [pc EXCEPT ![d] = to], to \notin {"sslIncident", "sslRestore"},
             to \in Recovering => pc[d] \in Recovering
      PROVE  Goal
  BY <1>1 DEF Started, TypeInv, TypeOK
<1>2. CASE UNCHANGED <<pc, clear>>
  BY <1>2 DEF Started
<1>3. CASE ProcessStop
  BY <1>3 DEF ProcessStop, Running, Started, TypeInv, TypeOK, Recovering, local
<1>4. CASE AdminStep
  BY <1>2, <1>4 DEF AdminStep, AdminCreateIncident, AdminUpdateIncident, AdminAffect,
     AdminDeleteIncident, AdminSetStatus, AdminEditMonitor, local
<1>5. ASSUME NEW d \in Checks, CheckStep(d) PROVE Goal
  <2> USE DEF Step, local, PC, Recovering
  <2>1. ASSUME NEW m \in Monitors, StartCheck(d, m) PROVE Goal
    BY <2>1 DEF StartCheck, Started, TypeInv, TypeOK
  <2>2. ASSUME NEW r \in {"up", "down"}, NEW w \in BOOLEAN, Probe(d, r, w) PROVE Goal
    BY <1>1, <2>2 DEF Probe
  <2>3. CASE InsertLog(d)  BY <1>1, <2>3 DEF InsertLog
  <2>4. CASE UpdateLast(d)  BY <1>1, <2>4 DEF UpdateLast
  <2>5. CASE SSLWarn(d)  BY <1>1, <2>5 DEF SSLWarn
  <2>6. CASE SSLReadOutage(d)
    <3>1. /\ pc[d] = "ssl" /\ pc' = [pc EXCEPT ![d] = "sslIncident"]
          /\ \A e \in Checks : e # d => clear'[e] = clear[e]
      BY <2>6 DEF SSLReadOutage, TypeInv, TypeOK
    <3> QED BY <2>6, <3>1 DEF Started, TypeInv, TypeOK
  <2>7. CASE SSLReadIncident(d)
    <3>1. PICK to \in {"sslRestore", "detect"} :
            pc' = [pc EXCEPT ![d] = to] /\ (to = "sslRestore" => clear[d])
      BY <2>7 DEF SSLReadIncident, shouldRestoreOperational
    <3>2. pc[d] = "sslIncident" /\ \A e \in Checks : e # d => clear'[e] = clear[e]
      BY <2>7 DEF SSLReadIncident, TypeInv, TypeOK
    <3> QED BY <2>7, <3>1, <3>2 DEF Started, TypeInv, TypeOK
  <2>8. CASE SSLRestore(d)  BY <1>1, <2>8 DEF SSLRestore
  <2>9. CASE ReadLogs(d)  BY <1>1, <2>9 DEF ReadLogs
  <2>10. CASE FindOutage(d)  BY <1>1, <2>10 DEF FindOutage
  <2>11. CASE OpenOutage(d)  BY <1>1, <2>11 DEF OpenOutage
  <2>12. CASE MarkTarget(d)
    BY <2>12 DEF MarkTarget, Started, TypeInv, TypeOK
  <2>13. CASE FindCover(d)  BY <1>1, <2>13 DEF FindCover
  <2>14. CASE OpenIncident(d)  BY <1>1, <2>14 DEF OpenIncident
  <2>15. CASE FindActive(d)  BY <1>1, <2>15 DEF FindActive
  <2>16. CASE ResolveOutage(d)
    <3>1. /\ pc[d] = "resolveOutage" /\ UNCHANGED clear
          /\ \E to \in {"findIncident", "done"} : pc' = [pc EXCEPT ![d] = to]
      BY <2>16 DEF ResolveOutage
    <3> QED BY <2>16, <3>1 DEF Started, TypeInv, TypeOK
  <2>17. CASE FindIncident(d)  BY <1>1, <2>17 DEF FindIncident
  <2>18. CASE ResolveIncident(d)  BY <1>1, <2>18 DEF ResolveIncident
  <2>19. CASE RestoreTarget(d)  BY <1>1, <2>19 DEF RestoreTarget
  <2> HIDE DEF Goal, Step
  <2> QED
    BY <1>5, <2>1, <2>2, <2>3, <2>4, <2>5, <2>6, <2>7, <2>8, <2>9, <2>10, <2>11, <2>12,
       <2>13, <2>14, <2>15, <2>16, <2>17, <2>18, <2>19 DEF CheckStep
<1>6. CASE UNCHANGED vars
  BY <1>2, <1>6 DEF vars, local
<1> HIDE DEF Goal
<1> QED BY <1>3, <1>4, <1>5, <1>6 DEF Next

\* Sequential checks, calls that do not fail, nobody else editing, no restart
\* and a target of its own for each monitor.
Undisturbed ==
  /\ ~Overlap /\ Faults = {} /\ AdminOps = {} /\ StopBudget = 0
  /\ \A m, n \in Monitors : TargetOf[m] = TargetOf[n] => m = n

\* A check works on its monitor's target, and one that will show it operational
\* has seen to it that its monitor has no active outage.
VisibleInv ==
  /\ monitors = TargetOf
  /\ \A c \in Checks :
       /\ Started(c) => tgt[c] = TargetOf[mon[c]]
       /\ (pc[c] = "sslIncident" /\ clear[c]) \/ pc[c] \in {"sslRestore"} \cup Recovering
            => ActiveOutages(mon[c]) = {}
       /\ pc[c] = "resolveOutage" => outage[found[c]] = "active"
       /\ outage[c] = "active" /\ pc[c] # "mark" => status[tgt[c]] # "operational"

LEMMA VisibleNext ==
  ASSUME Undisturbed
  PROVE  TypeInv /\ TypeInv' /\ SoloInv /\ VisibleInv /\ [Next]_vars => VisibleInv'
<1> SUFFICES ASSUME TypeInv, TypeInv', SoloInv, VisibleInv, [Next]_vars PROVE VisibleInv'
  OBVIOUS
<1>0. ~AdminStep /\ ~ProcessStop /\ \A k : ~Fails(k)
  <2>1. ~AdminStep
    BY DEF Undisturbed, AdminStep, Admin, AdminCreateIncident, AdminUpdateIncident,
       AdminAffect, AdminDeleteIncident, AdminSetStatus, AdminEditMonitor
  <2>2. ~ProcessStop
    BY DEF Undisturbed, ProcessStop, TypeInv, TypeOK
  <2> QED BY <2>1, <2>2 DEF Undisturbed, Fails
<1>1. monitors' = TargetOf
  <2> USE DEF VisibleInv, db
  <2>1. CASE UNCHANGED vars
    BY <2>1 DEF vars
  <2>2. ASSUME NEW c \in Checks, CheckStep(c) PROVE monitors' = TargetOf
    BY <2>2 DEF CheckStep, StartCheck, Probe, InsertLog, UpdateLast, SSLWarn,
       SSLReadOutage, SSLReadIncident, SSLRestore, ReadLogs, FindOutage, OpenOutage,
       MarkTarget, FindCover, OpenIncident, FindActive, ResolveOutage, FindIncident,
       ResolveIncident, RestoreTarget
  <2> QED BY <1>0, <2>1, <2>2 DEF Next
<1>2. ASSUME NEW c \in Checks, Started(c)' PROVE tgt'[c] = TargetOf[mon'[c]]
  <2>1. CASE Started(c)
    BY <2>1, LocalSteps, HistoryGrows DEF VisibleInv
  <2>2. ASSUME NEW m \in Monitors, StartCheck(c, m) PROVE tgt'[c] = TargetOf[mon'[c]]
    BY <2>2 DEF StartCheck, VisibleInv, TypeInv, TypeOK, Logs
  <2> QED BY <1>2, <2>1, <2>2, RestoreSteps
<1>3. ASSUME NEW c \in Checks, NEW d \in Checks, Running(c),
             outage'[d] = "active", outage[d] # "active", mon'[d] = mon[c]
      PROVE  c = d /\ pc[c] = "openOutage" /\ pc'[c] = "mark"
  <2>1. OpenOutage(d)
    BY <1>3, OutageSteps
  <2>2. Running(d) /\ mon[d] = mon[c]
    BY <1>3, <2>1 DEF OpenOutage, Step, Running, local
  <2> QED BY <1>3, <2>1, <2>2 DEF SoloInv, Sequential, OpenOutage, Step, TypeInv, TypeOK
<1>4. ASSUME NEW c \in Checks, Running(c), ActiveOutages(mon[c]) = {}, pc[c] # "openOutage"
      PROVE  (ActiveOutages(mon[c]) = {})'
  <2>1. mon'[c] = mon[c]
    BY <1>4, HistoryGrows DEF Running, Started
  <2>2. ASSUME NEW d \in Checks, outage'[d] = "active", mon'[d] = mon[c] PROVE FALSE
    <3>1. CASE outage[d] = "active"
      <4>1. mon[d] = mon[c]
        BY <2>2, <3>1, HistoryGrows DEF TypeInv, CheckInv
      <4> QED BY <1>4, <3>1, <4>1 DEF ActiveOutages
    <3> QED BY <1>3, <1>4, <2>2, <3>1
  <2> QED BY <2>1, <2>2 DEF ActiveOutages
<1>5. ASSUME NEW c \in Checks,
             (pc'[c] = "sslIncident" /\ clear'[c]) \/ pc'[c] \in {"sslRestore"} \cup Recovering
      PROVE  (ActiveOutages(mon[c]) = {})'
  <2>1. CASE (pc[c] = "sslIncident" /\ clear[c]) \/ pc[c] \in {"sslRestore"} \cup Recovering
    BY <1>4, <2>1 DEF VisibleInv, Running, Recovering
  <2>2. CASE SSLReadOutage(c) /\ clear'[c]
    <3>1. TargetOutages(tgt[c]) = {} /\ pc[c] = "ssl"
      BY <1>0, <2>2 DEF SSLReadOutage, Step, TypeInv, TypeOK
    <3>2. \A d \in ActiveOutages(mon[c]) : Started(d) /\ tgt[d] = tgt[c]
      BY <3>1 DEF ActiveOutages, VisibleInv, TypeInv, CheckInv, Started
    <3>3. ActiveOutages(mon[c]) = {}
      BY <3>1, <3>2 DEF ActiveOutages, TargetOutages
    <3> QED BY <1>4, <3>1, <3>3 DEF Running
  <2>3. CASE ResolveOutage(c)
    <3>1. /\ pc[c] = "resolveOutage" /\ found[c] \in Checks
          /\ outage[found[c]] # "none" /\ mon[found[c]] = mon[c]
      BY <2>3 DEF ResolveOutage, Step, TypeInv, CheckInv
    <3>2. /\ outage' = [outage EXCEPT ![found[c]] = "resolved"] /\ mon' = mon
      BY <1>0, <2>3 DEF ResolveOutage, local
    <3>3. ASSUME NEW d \in Checks, outage'[d] = "active", mon'[d] = mon[c] PROVE FALSE
      <4>1. d # found[c] /\ outage[d] = "active" /\ mon[d] = mon[c]
        BY <3>1, <3>2, <3>3 DEF TypeInv, TypeOK
      <4>2. outage[found[c]] = "active"
        BY <3>1 DEF VisibleInv
      <4> QED
        BY <3>1, <4>1, <4>2 DEF SoloInv, AtMostOneActiveOutage, ActiveOutages, TypeInv, CheckInv
    <3> QED BY <3>2, <3>3 DEF ActiveOutages
  <2>4. SSLReadIncident(c) => pc[c] = "sslIncident"
    BY DEF SSLReadIncident
  <2>5. ~(pc'[c] = "sslIncident" /\ pc'[c] \in {"sslRestore"} \cup Recovering)
    BY DEF Recovering
  <2> QED BY <1>5, <2>1, <2>2, <2>3, <2>4, <2>5, RestoreSteps
<1>6. ASSUME NEW c \in Checks, pc'[c] = "resolveOutage" PROVE outage'[found'[c]] = "active"
  <2>1. CASE pc[c] = "resolveOutage" /\ found'[c] = found[c]
    <3>1. /\ found[c] \in Checks /\ mon[found[c]] = mon[c] /\ outage[found[c]] = "active"
      BY <2>1 DEF VisibleInv, TypeInv, CheckInv
    <3>2. ASSUME NEW d \in Checks, ResolveOutage(d), found[d] = found[c] PROVE FALSE
      <4>1. pc[d] = "resolveOutage" /\ mon[d] = mon[c]
        BY <3>1, <3>2 DEF ResolveOutage, Step, TypeInv, CheckInv
      <4>2. d = c
        BY <2>1, <4>1 DEF SoloInv, Sequential, Running
      <4> QED BY <1>6, <3>2, <4>1, <4>2 DEF ResolveOutage, Step, TypeInv, TypeOK
    <3> QED BY <2>1, <3>1, <3>2, OutageSteps
  <2>2. CASE FindActive(c)
    BY <1>6, <2>2 DEF FindActive, ActiveOutages, Step, TypeInv, TypeOK, db
  <2> QED BY <1>6, <2>1, <2>2, LocalSteps
<1>7. ASSUME NEW c \in Checks, outage'[c] = "active", pc'[c] # "mark"
      PROVE  status'[tgt'[c]] # "operational"
  <2>1. outage[c] = "active" /\ Started(c)
    BY <1>7, OutageSteps DEF OpenOutage, Step, TypeInv, TypeOK, CheckInv
  <2>2. tgt'[c] = tgt[c] /\ tgt[c] = TargetOf[mon[c]] /\ tgt[c] \in Targets /\ mon[c] \in Monitors
    BY <2>1, LocalSteps DEF VisibleInv, TypeInv, CheckInv
  <2>3. CASE pc[c] = "mark"
    <3>1. MarkTarget(c)
      BY <1>0, <1>7, <2>3, RestoreSteps
    <3>2. status'[tgt[c]] = "major_outage"
      BY <1>0, <2>2, <3>1 DEF MarkTarget, TypeInv, TypeOK
    <3> QED BY <2>2, <3>2
  <2>4. CASE pc[c] # "mark"
    <3>1. status[tgt[c]] # "operational"
      BY <2>1, <2>4 DEF VisibleInv
    <3>2. ASSUME NEW d \in Checks, pc[d] \in {"sslRestore", "restore"},
                 mon[d] \in Monitors, TargetOf[mon[d]] = tgt[c]
          PROVE  FALSE
      <4>1. mon[d] = mon[c]
        BY <2>2, <3>2 DEF Undisturbed
      <4>2. ActiveOutages(mon[d]) = {}
        BY <3>2 DEF VisibleInv, Recovering
      <4> QED BY <2>1, <4>1, <4>2 DEF ActiveOutages
    <3>3. ASSUME NEW d \in Checks, SSLRestore(d) PROVE tgt[d] # tgt[c]
      BY <3>2, <3>3 DEF SSLRestore, Step, VisibleInv, TypeInv, CheckInv, Started
    <3>4. ASSUME NEW d \in Checks, RestoreTarget(d) PROVE tgt[found[d]] # tgt[c]
      <4>1. pc[d] = "restore" /\ found[d] \in Checks /\ mon[found[d]] = mon[d]
            /\ outage[found[d]] # "none" /\ mon[d] \in Monitors
        BY <3>4 DEF RestoreTarget, Step, TypeInv, CheckInv, Started
      <4>2. tgt[found[d]] = TargetOf[mon[d]]
        BY <4>1 DEF VisibleInv, TypeInv, CheckInv
      <4> QED BY <3>2, <4>1, <4>2
    <3>5. "status" \notin AdminOps
      BY DEF Undisturbed
    <3>6. status'[tgt[c]] = "operational" => StatusStep(tgt[c])
      BY <2>2, <3>1, EffectSteps
    <3> QED BY <2>2, <3>3, <3>4, <3>5, <3>6 DEF StatusStep
  <2> QED BY <2>3, <2>4
<1> QED
  BY <1>1, <1>2, <1>5, <1>6, <1>7 DEF VisibleInv

\* What lifts a warning, and what a recovery restores, is read in one call and
\* written in a later one; with sequential checks of monitors that share no
\* target, no outage can begin in between, so an active outage stays visible.
THEOREM OutageVisible ==
  ASSUME Undisturbed
  PROVE  Spec => []ActiveOutageVisible
<1>1. Init => SoloInv /\ VisibleInv
  <2> SUFFICES ASSUME Init PROVE SoloInv /\ VisibleInv
    OBVIOUS
  <2>1. SoloInv
    BY DEF Init, SoloInv, Sequential, Running, ActiveOutages, AtMostOneActiveOutage
  <2>2. VisibleInv
    BY DEF Init, VisibleInv, Started, Recovering
  <2> QED BY <2>1, <2>2
<1>2. VisibleInv => ActiveOutageVisible
  BY DEF VisibleInv, ActiveOutageVisible
<1>3. ~Overlap /\ "read" \notin Faults
  BY DEF Undisturbed
<1>4. TypeInv /\ SoloInv /\ [Next]_vars => SoloInv'
  BY <1>3, SoloNext
<1>5. TypeInv /\ TypeInv' /\ SoloInv /\ VisibleInv /\ [Next]_vars => VisibleInv'
  BY VisibleNext
<1> QED BY <1>1, <1>2, <1>4, <1>5, InitTyped, NextTyped, PTL DEF Spec

-----------------------------------------------------------------------------
(* The failures behind an outage are consecutive *)

UpTo(c) == {d \in Logs : mon[d] = mon[c] /\ result[d] # "none" /\ stamp[d] <= stamp[c]}
Stamped == {d \in Logs : stamp[d] # 0}

Consecutive(c) ==
  \E R \in SUBSET UpTo(c) :
    /\ Cardinality(R) = Threshold
    /\ \A d \in R : result[d] = "down"
    /\ \A d \in R, e \in UpTo(c) \ R : stamp[e] <= stamp[d]

\* No time of a check exceeds the number of times given out; a check's result
\* is the newest of its monitor while it runs, and in the logs before they are
\* read; who goes on to open an outage has read the newest results.
ConsecutiveInv ==
  /\ \A d \in Logs : stamp[d] <= Cardinality(Stamped)
  /\ DOMAIN Past \subseteq logged /\ \A d \in logged : result[d] # "none"
  /\ \A c \in Checks :
       /\ pc[c] # "lost"
       /\ pc[c] \in {"idle", "probe"} <=> result[c] = "none"
       /\ pc[c] \in {"idle", "probe"} => stamp[c] = 0
       /\ pc[c] \notin {"idle", "probe", "log"} => c \in logged
       /\ outage[c] # "none" => pc[c] \notin {"idle", "probe", "log"}
       /\ Running(c) /\ pc[c] # "probe" =>
            \A d \in Logs : d # c /\ mon[d] = mon[c] /\ result[d] # "none"
                             => stamp[d] < stamp[c]
       /\ pc[c] \in {"findOutage", "openOutage"} \/ outage[c] # "none" => Consecutive(c)

\* Where a check is as far as its result is concerned.
Early == {"idle", "probe", "log", "lost"}

LEMMA LaterSteps ==
  ASSUME TypeInv, [Next]_vars
  PROVE  \/ \E d \in Checks :
              \/ \E m \in Monitors : StartCheck(d, m)
              \/ \E r \in {"up", "down"}, w \in BOOLEAN : Probe(d, r, w)
              \/ InsertLog(d)
         \/ ProcessStop
         \/ /\ UNCHANGED <<mon, result, stamp, logged>>
            /\ \A c \in Checks : pc'[c] = pc[c] \/ {pc[c], pc'[c]} \cap Early = {}
<1> DEFINE Later == /\ UNCHANGED <<mon, result, stamp, logged>>
                    /\ \A c \in Checks : pc'[c] = pc[c] \/ {pc[c], pc'[c]} \cap Early = {}
<1>1. ASSUME UNCHANGED <<mon, result, stamp, logged>>, NEW d \in Checks, NEW to \in PC,
             pc[d] \notin Early, to \notin Early, pc' = [pc EXCEPT ![d] = to]
      PROVE  Later
  BY <1>1 DEF TypeInv, TypeOK
<1>2. CASE UNCHANGED vars
  BY <1>2 DEF vars, local, db
<1>3. CASE AdminStep
  BY <1>3 DEF AdminStep, AdminCreateIncident, AdminUpdateIncident, AdminAffect,
     AdminDeleteIncident, AdminSetStatus, AdminEditMonitor, local
<1>4. ASSUME NEW d \in Checks, CheckStep(d),
             ~\E m \in Monitors : StartCheck(d, m),
             ~\E r \in {"up", "down"}, w \in BOOLEAN : Probe(d, r, w), ~InsertLog(d)
      PROVE  Later
  <2> USE DEF Step, local, db, PC, Early
  <2>1. CASE UpdateLast(d)  BY <1>1, <2>1 DEF UpdateLast
  <2>2. CASE SSLWarn(d)  BY <1>1, <2>2 DEF SSLWarn
  <2>3. CASE SSLReadOutage(d)  BY <1>1, <2>3 DEF SSLReadOutage
  <2>4. CASE SSLReadIncident(d)  BY <1>1, <2>4 DEF SSLReadIncident
  <2>5. CASE SSLRestore(d)  BY <1>1, <2>5 DEF SSLRestore
  <2>6. CASE ReadLogs(d)  BY <1>1, <2>6 DEF ReadLogs
  <2>7. CASE FindOutage(d)  BY <1>1, <2>7 DEF FindOutage
  <2>8. CASE OpenOutage(d)  BY <1>1, <2>8 DEF OpenOutage
  <2>9. CASE MarkTarget(d)  BY <1>1, <2>9 DEF MarkTarget
  <2>10. CASE FindCover(d)  BY <1>1, <2>10 DEF FindCover
  <2>11. CASE OpenIncident(d)  BY <1>1, <2>11 DEF OpenIncident
  <2>12. CASE FindActive(d)  BY <1>1, <2>12 DEF FindActive
  <2>13. CASE ResolveOutage(d)
    <3>1. /\ UNCHANGED <<mon, result, stamp, logged>> /\ pc[d] = "resolveOutage"
          /\ \E to \in {"findIncident", "done"} : pc' = [pc EXCEPT ![d] = to]
      BY <2>13 DEF ResolveOutage
    <3> QED BY <1>1, <3>1
  <2>14. CASE FindIncident(d)  BY <1>1, <2>14 DEF FindIncident
  <2>15. CASE ResolveIncident(d)  BY <1>1, <2>15 DEF ResolveIncident
  <2>16. CASE RestoreTarget(d)  BY <1>1, <2>16 DEF RestoreTarget
  <2> HIDE DEF Later, Step
  <2> QED
    BY <1>4, <2>1, <2>2, <2>3, <2>4, <2>5, <2>6, <2>7, <2>8, <2>9, <2>10, <2>11, <2>12,
       <2>13, <2>14, <2>15, <2>16 DEF CheckStep
<1> QED BY <1>2, <1>3, <1>4 DEF Next

\* What the logs show a check is what its monitor has been through.
LEMMA LatestConsecutive ==
  ASSUME TypeInv, Sequential, ConsecutiveInv, NEW c \in Checks,
         pc[c] = "detect", LatestAllDown(mon[c])
  PROVE  Consecutive(c)
<1>1. PICK R \in SUBSET Stored(mon[c]) :
        /\ Cardinality(R) = Threshold
        /\ \A d \in R : result[d] = "down"
        /\ \A d \in R, e \in Stored(mon[c]) \ R : stamp[e] <= stamp[d]
  BY DEF LatestAllDown, HasRun
<1>2. Running(c)
  BY DEF Running
<1>3. R \subseteq UpTo(c)
  BY <1>1, <1>2 DEF Stored, UpTo, ConsecutiveInv, TypeInv, TypeOK
<1>4. UpTo(c) \subseteq Stored(mon[c])
  <2> SUFFICES ASSUME NEW d \in UpTo(c) PROVE d \in logged
    BY DEF UpTo, Stored
  <2>1. CASE d \in DOMAIN Past
    BY <2>1 DEF ConsecutiveInv
  <2>2. CASE d \in Checks
    <3>1. pc[d] # "log"
      BY <1>2, <2>2 DEF UpTo, Sequential, Running
    <3> QED BY <2>2, <3>1 DEF UpTo, ConsecutiveInv
  <2> QED BY <2>1, <2>2 DEF UpTo, Logs
<1> QED BY <1>1, <1>3, <1>4 DEF Consecutive

LEMMA InitConsecutive == Init => ConsecutiveInv
<1> SUFFICES ASSUME Init PROVE ConsecutiveInv
  OBVIOUS
<1>1. Stamped = {} /\ Cardinality(Stamped) = 0 /\ \A d \in Logs : stamp[d] = 0
  BY FS_EmptySet DEF Init, Stamped
<1>2. \A c \in Checks : c \in Logs /\ pc[c] = "idle" /\ result[c] = "none" /\ stamp[c] = 0
                        /\ outage[c] = "none"
  BY DEF Init, Logs
<1>3. DOMAIN Past \subseteq logged /\ \A d \in logged : result[d] # "none"
  BY DEF Init, Logs
<1> QED BY <1>1, <1>2, <1>3 DEF ConsecutiveInv, Running

LEMMA ConsecutiveNext ==
  ASSUME ~Overlap, "write" \notin Faults, StopBudget = 0
  PROVE  TypeInv /\ TypeInv' /\ Sequential /\ ConsecutiveInv /\ [Next]_vars => ConsecutiveInv'
<1> SUFFICES ASSUME TypeInv, TypeInv', Sequential, ConsecutiveInv, [Next]_vars
             PROVE  ConsecutiveInv'
  OBVIOUS
<1>1. ~ProcessStop
  BY DEF ProcessStop, TypeInv, TypeOK
<1>2. IsFiniteSet(Stamped) /\ Cardinality(Stamped) \in Nat /\ \A d \in Logs : stamp[d] \in Nat
  <2>1. IsFiniteSet(Logs)
    BY FS_Union DEF Logs
  <2>2. IsFiniteSet(Stamped)
    BY <2>1, FS_Subset DEF Stamped
  <2> QED BY <2>2, FS_CardinalityType DEF TypeInv, TypeOK
<1>3. ASSUME NEW c \in Checks, pc'[c] \in {"findOutage", "openOutage"} \/ outage'[c] # "none"
      PROVE  Consecutive(c)
  <2>1. CASE pc'[c] = pc[c] /\ pc'[c] \in {"findOutage", "openOutage"}
    BY <2>1 DEF ConsecutiveInv
  <2>2. CASE pc'[c] = "findOutage" /\ pc[c] # "findOutage"
    BY <2>2, OutageSteps, LatestConsecutive
  <2>3. CASE pc'[c] = "openOutage" /\ pc[c] # "openOutage"
    BY <2>3, OutageSteps DEF FindOutage, ConsecutiveInv
  <2>4. CASE outage'[c] # "none"
    <3>1. outage[c] # "none" \/ pc[c] = "openOutage"
      BY <2>4, OutageSteps DEF OpenOutage, Step
    <3> QED BY <3>1 DEF ConsecutiveInv
  <2> QED BY <1>3, <2>1, <2>2, <2>3, <2>4
<1>4. ASSUME NEW c \in Checks, UpTo(c)' = UpTo(c), Consecutive(c),
             \A d \in UpTo(c) : result'[d] = result[d] /\ stamp'[d] = stamp[d]
      PROVE  Consecutive(c)'
  BY <1>4 DEF Consecutive
<1>5. CASE /\ UNCHANGED <<mon, result, stamp, logged>>
           /\ \A c \in Checks : pc'[c] = pc[c] \/ {pc[c], pc'[c]} \cap Early = {}
  <2>1. Stamped' = Stamped
    BY <1>5 DEF Stamped
  <2>2. ASSUME NEW c \in Checks
        PROVE  /\ pc'[c] # "lost"
               /\ pc'[c] \in {"idle", "probe"} <=> result'[c] = "none"
               /\ pc'[c] \in {"idle", "probe"} => stamp'[c] = 0
               /\ pc'[c] \notin {"idle", "probe", "log"} => c \in logged'
               /\ outage'[c] # "none" => pc'[c] \notin {"idle", "probe", "log"}
    BY <1>5, <2>2, OutageSteps DEF ConsecutiveInv, Early, OpenOutage, Step
  <2>3. ASSUME NEW c \in Checks, Running(c)', pc'[c] # "probe",
               NEW d \in Logs, d # c, mon'[d] = mon'[c], result'[d] # "none"
        PROVE  stamp'[d] < stamp'[c]
    <3>1. Running(c) /\ pc[c] # "probe"
      BY <1>5, <2>3, LocalSteps DEF Running, Early
    <3> QED BY <1>5, <2>3, <3>1 DEF ConsecutiveInv
  <2>4. ASSUME NEW c \in Checks,
               pc'[c] \in {"findOutage", "openOutage"} \/ outage'[c] # "none"
        PROVE  Consecutive(c)'
    <3>1. UpTo(c)' = UpTo(c)
      BY <1>5 DEF UpTo
    <3> QED BY <1>3, <1>4, <1>5, <2>4, <3>1
  <2> QED BY <1>5, <2>1, <2>2, <2>3, <2>4 DEF ConsecutiveInv
<1>6. ASSUME NEW d \in Checks, NEW m \in Monitors, StartCheck(d, m) PROVE ConsecutiveInv'
  <2>1. /\ UNCHANGED <<result, stamp, logged, outage>>
        /\ pc[d] = "idle" /\ pc'[d] = "probe" /\ result[d] = "none"
        /\ \A c \in Checks : c # d => pc'[c] = pc[c]
        /\ \A c \in Logs : c # d => mon'[c] = mon[c]
    BY <1>6 DEF StartCheck, Step, ConsecutiveInv, TypeInv, TypeOK, Logs, db
  <2>2. Stamped' = Stamped
    BY <2>1 DEF Stamped
  <2>3. ASSUME NEW c \in Checks
        PROVE  /\ pc'[c] # "lost"
               /\ pc'[c] \in {"idle", "probe"} <=> result'[c] = "none"
               /\ pc'[c] \in {"idle", "probe"} => stamp'[c] = 0
               /\ pc'[c] \notin {"idle", "probe", "log"} => c \in logged'
               /\ outage'[c] # "none" => pc'[c] \notin {"idle", "probe", "log"}
    BY <2>1 DEF ConsecutiveInv
  <2>4. ASSUME NEW c \in Checks, Running(c)', pc'[c] # "probe",
               NEW e \in Logs, e # c, mon'[e] = mon'[c], result'[e] # "none"
        PROVE  stamp'[e] < stamp'[c]
    <3>1. c # d /\ e # d /\ Running(c) /\ pc[c] # "probe"
      BY <2>1, <2>4 DEF Running
    <3> QED BY <2>1, <2>4, <3>1 DEF ConsecutiveInv, Logs
  <2>5. ASSUME NEW c \in Checks,
               pc'[c] \in {"findOutage", "openOutage"} \/ outage'[c] # "none"
        PROVE  Consecutive(c)'
    <3>1. c # d
      BY <2>1, <2>5 DEF TypeInv, CheckInv, Started
    <3>2. UpTo(c)' = UpTo(c)
      BY <2>1, <3>1 DEF UpTo, Logs
    <3> QED BY <1>3, <1>4, <2>1, <2>5, <3>2
  <2> QED BY <2>1, <2>2, <2>3, <2>4, <2>5 DEF ConsecutiveInv
<1>7. ASSUME NEW d \in Checks, NEW r \in {"up", "down"}, NEW w \in BOOLEAN, Probe(d, r, w)
      PROVE  ConsecutiveInv'
  <2>1. /\ UNCHANGED <<mon, logged, outage>>
        /\ pc[d] = "probe" /\ pc'[d] = "log" /\ result[d] = "none" /\ stamp[d] = 0
        /\ result'[d] = r /\ stamp'[d] = 1 + Cardinality(Stamped)
        /\ \A c \in Checks : c # d => pc'[c] = pc[c]
        /\ \A c \in Logs : c # d => result'[c] = result[c] /\ stamp'[c] = stamp[c]
    BY <1>7 DEF Probe, Step, ConsecutiveInv, Stamped, TypeInv, TypeOK, Logs, db
  <2>2. Cardinality(Stamped)' = Cardinality(Stamped) + 1
    <3>1. Stamped' = Stamped \cup {d} /\ d \notin Stamped
      BY <1>2, <2>1 DEF Stamped, Logs
    <3> QED BY <1>2, <3>1, FS_AddElement
  <2>3. \A c \in Logs : stamp'[c] <= Cardinality(Stamped)'
    BY <1>2, <2>1, <2>2 DEF ConsecutiveInv
  <2>4. ASSUME NEW c \in Checks
        PROVE  /\ pc'[c] # "lost"
               /\ pc'[c] \in {"idle", "probe"} <=> result'[c] = "none"
               /\ pc'[c] \in {"idle", "probe"} => stamp'[c] = 0
               /\ pc'[c] \notin {"idle", "probe", "log"} => c \in logged'
               /\ outage'[c] # "none" => pc'[c] \notin {"idle", "probe", "log"}
    BY <2>1 DEF ConsecutiveInv, Logs
  <2>5. ASSUME NEW c \in Checks, Running(c)', pc'[c] # "probe",
               NEW e \in Logs, e # c, mon'[e] = mon'[c], result'[e] # "none"
        PROVE  stamp'[e] < stamp'[c]
    <3>1. CASE c = d
      <4>1. stamp'[e] = stamp[e] /\ stamp[e] <= Cardinality(Stamped)
        BY <2>1, <2>5, <3>1 DEF ConsecutiveInv
      <4> QED BY <1>2, <2>1, <2>5, <3>1, <4>1
    <3>2. CASE c # d
      <4>1. Running(c) /\ pc[c] # "probe" /\ Running(d)
        BY <2>1, <2>5, <3>2 DEF Running
      <4>2. e # d
        BY <2>1, <2>5, <3>2, <4>1 DEF Sequential
      <4> QED BY <2>1, <2>5, <3>2, <4>1, <4>2 DEF ConsecutiveInv, Logs
    <3> QED BY <3>1, <3>2
  <2>6. ASSUME NEW c \in Checks,
               pc'[c] \in {"findOutage", "openOutage"} \/ outage'[c] # "none"
        PROVE  Consecutive(c)'
    <3>1. c # d
      BY <2>1, <2>6 DEF ConsecutiveInv
    <3>2. stamp[c] <= Cardinality(Stamped) /\ stamp'[c] = stamp[c]
      BY <2>1, <3>1 DEF ConsecutiveInv, Logs
    <3>3. ~(stamp'[d] <= stamp'[c])
      BY <1>2, <2>1, <3>2 DEF Logs
    <3>4. UpTo(c)' = UpTo(c) /\ d \notin UpTo(c)
      BY <2>1, <3>2, <3>3 DEF UpTo
    <3>5. \A e \in UpTo(c) : result'[e] = result[e] /\ stamp'[e] = stamp[e]
      BY <2>1, <3>4 DEF UpTo
    <3> QED BY <1>3, <1>4, <2>6, <3>4, <3>5
  <2>7. DOMAIN Past \subseteq logged' /\ \A e \in logged' : result'[e] # "none"
    BY <2>1 DEF ConsecutiveInv, TypeInv, TypeOK
  <2> QED BY <2>1, <2>3, <2>4, <2>5, <2>6, <2>7 DEF ConsecutiveInv
<1>8. ASSUME NEW d \in Checks, InsertLog(d) PROVE ConsecutiveInv'
  <2>1. /\ UNCHANGED <<mon, result, stamp, outage>> /\ logged' = logged \cup {d}
        /\ pc[d] = "log" /\ pc'[d] = "last"
        /\ \A c \in Checks : c # d => pc'[c] = pc[c]
    BY <1>8 DEF InsertLog, Fails, Step, TypeInv, TypeOK, local
  <2>2. Stamped' = Stamped
    BY <2>1 DEF Stamped
  <2>3. ASSUME NEW c \in Checks
        PROVE  /\ pc'[c] # "lost"
               /\ pc'[c] \in {"idle", "probe"} <=> result'[c] = "none"
               /\ pc'[c] \in {"idle", "probe"} => stamp'[c] = 0
               /\ pc'[c] \notin {"idle", "probe", "log"} => c \in logged'
               /\ outage'[c] # "none" => pc'[c] \notin {"idle", "probe", "log"}
    BY <2>1 DEF ConsecutiveInv
  <2>4. ASSUME NEW c \in Checks, Running(c)', pc'[c] # "probe",
               NEW e \in Logs, e # c, mon'[e] = mon'[c], result'[e] # "none"
        PROVE  stamp'[e] < stamp'[c]
    <3>1. Running(c) /\ pc[c] # "probe"
      BY <2>1, <2>4 DEF Running
    <3> QED BY <2>1, <2>4, <3>1 DEF ConsecutiveInv
  <2>5. ASSUME NEW c \in Checks,
               pc'[c] \in {"findOutage", "openOutage"} \/ outage'[c] # "none"
        PROVE  Consecutive(c)'
    <3>1. UpTo(c)' = UpTo(c)
      BY <2>1 DEF UpTo
    <3> QED BY <1>3, <1>4, <2>1, <2>5, <3>1
  <2> QED BY <2>1, <2>2, <2>3, <2>4, <2>5 DEF ConsecutiveInv
<1> QED BY <1>1, <1>5, <1>6, <1>7, <1>8, LaterSteps

\* An outage means that the Threshold newest results up to the check that opened
\* it are failures, for checks of one monitor that do not overlap (ServerLifecycle_proofs
\* says when), whose results are stored, and a process that does not end:
\* whatever the other monitors, failing reads and administrators do.
THEOREM FailuresConsecutive ==
  ASSUME ~Overlap, "write" \notin Faults, StopBudget = 0
  PROVE  Spec => []ConsecutiveFailures
<1>1. Init => Sequential /\ ConsecutiveInv
  BY InitConsecutive DEF Init, Sequential, Running
<1>2. ConsecutiveInv => ConsecutiveFailures
  BY DEF ConsecutiveInv, ConsecutiveFailures, Consecutive, UpTo
<1>3. TypeInv /\ Sequential /\ [Next]_vars => Sequential'
  BY SequentialNext
<1>4. TypeInv /\ TypeInv' /\ Sequential /\ ConsecutiveInv /\ [Next]_vars => ConsecutiveInv'
  BY ConsecutiveNext
<1> QED BY <1>1, <1>2, <1>3, <1>4, InitTyped, NextTyped, PTL DEF Spec

-----------------------------------------------------------------------------
(* When no check of a monitor runs, everything about it agrees *)

\* No two monitors are about the same component, not even through a
\* sub-component.
Alone ==
  /\ Undisturbed
  /\ \A m, n \in Monitors : ComponentOf(TargetOf[m]) = ComponentOf(TargetOf[n]) => m = n

Settling == {m \in Monitors : TargetOf[m] \in Components /\ m \notin SSLMonitors}

\* Whether a check of the monitor is at one of some calls.
At(m, S) == \E c \in Checks : mon[c] = m /\ pc[c] \in S
Calls == PC \ {"idle", "done", "lost"}

Down(m) == ActiveOutages(m) # {}
Shown(m) == status[TargetOf[m]] = "major_outage"
Told(m) == OpenIncidents({TargetOf[m]}) # {}
OneTold(m) == \A i, j \in OpenIncidents({TargetOf[m]}) : i = j
Newest(m) ==
  \A d \in Stored(m) : (\A e \in Stored(m) : stamp[e] <= stamp[d]) => last[m] = result[d]

\* How far the status and the incident are behind the outages, by the call at
\* which a check of the monitor is.
Agrees(m) ==
  /\ Shown(m) <=> (Down(m) /\ ~At(m, {"mark"})) \/ At(m, Recovering)
  /\ Told(m) <=> (Down(m) /\ ~At(m, Reporting)) \/ At(m, {"findIncident", "resolveIncident"})
  /\ At(m, Reporting) => Down(m)
  /\ OneTold(m)

SettledInv ==
  /\ \A c \in Checks :
       /\ pc[c] \in {"ssl", "sslIncident", "sslRestore"} => mon[c] \in SSLMonitors
       /\ pc[c] = "resolveIncident" => incident[seen[c]] = "open"
  /\ \A i \in Incidents :
       incident[i] # "none" => i \in Checks /\ affects[i] = {ComponentOf(tgt[i])}
  /\ \A m \in Settling : Agrees(m) /\ (~At(m, {"last"}) => Newest(m))

SSLCalls == {"ssl", "sslIncident", "sslRestore"}

\* A check moves itself only, and only while it runs or when it starts.
LEMMA OwnSteps ==
  ASSUME TypeInv, NEW d \in Checks, CheckStep(d)
  PROVE  /\ \A c \in Checks : c # d => pc'[c] = pc[c] /\ mon'[c] = mon[c]
         /\ (Running(d) /\ mon'[d] = mon[d]) \/ \E m \in Monitors : StartCheck(d, m)
         /\ pc'[d] # pc[d]
         /\ pc'[d] \in SSLCalls => pc[d] \in SSLCalls \/ mon[d] \in SSLMonitors
         /\ pc[d] = "last" => UpdateLast(d)
         /\ \A m \in Monitors : last'[m] # last[m] => pc[d] = "last" /\ m = mon[d]
<1> DEFINE Goal ==
      /\ \A c \in Checks : c # d => pc'[c] = pc[c] /\ mon'[c] = mon[c]
      /\ (Running(d) /\ mon'[d] = mon[d]) \/ \E m \in Monitors : StartCheck(d, m)
      /\ pc'[d] # pc[d]
      /\ pc'[d] \in SSLCalls => pc[d] \in SSLCalls \/ mon[d] \in SSLMonitors
      /\ pc[d] = "last" => UpdateLast(d)
      /\ \A m \in Monitors : last'[m] # last[m] => pc[d] = "last" /\ m = mon[d]
<1> SUFFICES Goal OBVIOUS
<1>1. ASSUME UNCHANGED <<mon, last>>, NEW from \in Calls, NEW to \in PC,
             pc[d] = from, pc' = [pc EXCEPT ![d] = to], from # to, from # "last",
             to \in SSLCalls => from \in SSLCalls
      PROVE  Goal
  BY <1>1 DEF TypeInv, TypeOK, Running, Calls
<1> USE DEF Step, local, db, PC, Calls, SSLCalls
<1>2. ASSUME NEW m \in Monitors, StartCheck(d, m) PROVE Goal
  BY <1>2 DEF StartCheck, TypeInv, TypeOK, Logs
<1>3. ASSUME NEW rr \in {"up", "down"}, NEW w \in BOOLEAN, Probe(d, rr, w) PROVE Goal
  BY <1>1, <1>3 DEF Probe
<1>4. CASE InsertLog(d)  BY <1>1, <1>4 DEF InsertLog
<1>5. CASE UpdateLast(d)
  <2>1. /\ pc[d] = "last" /\ UNCHANGED mon
        /\ pc' = [pc EXCEPT ![d] = IF mon[d] \in SSLMonitors THEN "ssl" ELSE "detect"]
        /\ \A m \in Monitors : m # mon[d] => last'[m] = last[m]
    BY <1>5 DEF UpdateLast, TypeInv, TypeOK
  <2> QED BY <1>5, <2>1 DEF TypeInv, TypeOK, Running
<1>6. CASE SSLWarn(d)  BY <1>1, <1>6 DEF SSLWarn
<1>7. CASE SSLReadOutage(d)  BY <1>1, <1>7 DEF SSLReadOutage
<1>8. CASE SSLReadIncident(d)  BY <1>1, <1>8 DEF SSLReadIncident
<1>9. CASE SSLRestore(d)  BY <1>1, <1>9 DEF SSLRestore
<1>10. CASE ReadLogs(d)  BY <1>1, <1>10 DEF ReadLogs
<1>11. CASE FindOutage(d)  BY <1>1, <1>11 DEF FindOutage
<1>12. CASE OpenOutage(d)  BY <1>1, <1>12 DEF OpenOutage
<1>13. CASE MarkTarget(d)  BY <1>1, <1>13 DEF MarkTarget
<1>14. CASE FindCover(d)  BY <1>1, <1>14 DEF FindCover
<1>15. CASE OpenIncident(d)  BY <1>1, <1>15 DEF OpenIncident
<1>16. CASE FindActive(d)  BY <1>1, <1>16 DEF FindActive
<1>17. CASE ResolveOutage(d)
  <2>1. /\ UNCHANGED <<mon, last>> /\ pc[d] = "resolveOutage"
        /\ \E to \in {"findIncident", "done"} : pc' = [pc EXCEPT ![d] = to]
    BY <1>17 DEF ResolveOutage
  <2> QED BY <1>1, <2>1
<1>18. CASE FindIncident(d)  BY <1>1, <1>18 DEF FindIncident
<1>19. CASE ResolveIncident(d)  BY <1>1, <1>19 DEF ResolveIncident
<1>20. CASE RestoreTarget(d)  BY <1>1, <1>20 DEF RestoreTarget
<1> HIDE DEF Goal, Step
<1> QED
  BY <1>2, <1>3, <1>4, <1>5, <1>6, <1>7, <1>8, <1>9, <1>10, <1>11, <1>12, <1>13, <1>14,
     <1>15, <1>16, <1>17, <1>18, <1>19, <1>20 DEF CheckStep

\* Where the checks of a monitor are, when one of them moves and when another
\* monitor's does.
LEMMA AtMoves ==
  ASSUME ~Overlap, TypeInv, Sequential, NEW d \in Checks, CheckStep(d), NEW m \in Monitors,
         NEW S \in SUBSET Calls
  PROVE  IF mon'[d] = m THEN (At(m, S) <=> pc[d] \in S) /\ (At(m, S)' <=> pc'[d] \in S)
                        ELSE At(m, S)' <=> At(m, S)
<1>1. mon[d] = mon'[d] \/ pc[d] \notin S
  BY OwnSteps DEF StartCheck, Step, Calls
<1>2. CASE mon'[d] = m
  <2>1. ASSUME NEW c \in Checks, c # d, mon[c] = m PROVE pc[c] \notin S
    <3>1. CASE Running(d) /\ mon[d] = m
      BY <2>1, <3>1 DEF Sequential, Running, Calls
    <3>2. ASSUME NEW n \in Monitors, StartCheck(d, n) PROVE pc[c] \notin S
      BY <1>2, <2>1, <3>2 DEF StartCheck, Running, Calls, TypeInv, TypeOK, Logs
    <3> QED BY <1>2, <3>1, <3>2, OwnSteps
  <2>2. \A c \in Checks : c # d => pc'[c] = pc[c] /\ mon'[c] = mon[c]
    BY OwnSteps
  <2> QED BY <1>1, <1>2, <2>1, <2>2 DEF At
<1>3. CASE mon'[d] # m
  BY <1>1, <1>3, OwnSteps DEF At
<1> QED BY <1>2, <1>3

\* Under Alone, only checks do anything, and no call of theirs fails.
LEMMA AloneSteps ==
  ASSUME Alone, TypeInv, [Next]_vars
  PROVE  /\ ~AdminStep /\ Faults = {} /\ "affect" \notin AdminOps /\ "status" \notin AdminOps
         /\ (\E d \in Checks : CheckStep(d)) \/ UNCHANGED vars
<1> USE DEF Alone, Undisturbed
<1>1. ~AdminStep
  BY DEF AdminStep, Admin, AdminCreateIncident, AdminUpdateIncident, AdminAffect,
     AdminDeleteIncident, AdminSetStatus, AdminEditMonitor
<1>2. ~ProcessStop
  BY DEF ProcessStop, TypeInv, TypeOK
<1> QED BY <1>1, <1>2 DEF Next

\* The incidents are those checks opened, each naming its check's component,
\* and nobody else resolves the one a check has read.
LEMMA AutoNext ==
  ASSUME Alone, TypeInv, SoloInv, VisibleInv, IncidentInv, NamesInv, SettledInv, [Next]_vars
  PROVE  /\ \A c \in Checks :
              /\ pc'[c] \in SSLCalls => mon'[c] \in SSLMonitors
              /\ pc'[c] = "resolveIncident" => incident'[seen'[c]] = "open"
         /\ \A i \in Incidents :
              incident'[i] # "none" => i \in Checks /\ affects'[i] = {ComponentOf(tgt'[i])}
<1>1. ASSUME NEW c \in Checks, pc'[c] \in SSLCalls PROVE mon'[c] \in SSLMonitors
  <2>1. CASE UNCHANGED vars
    BY <1>1, <2>1 DEF vars, local, SettledInv, SSLCalls
  <2>2. ASSUME NEW d \in Checks, CheckStep(d) PROVE mon'[c] \in SSLMonitors
    <3>1. pc[c] \in SSLCalls \/ mon[c] \in SSLMonitors
      BY <1>1, <2>2, OwnSteps DEF StartCheck, Step, SSLCalls, TypeInv, TypeOK
    <3>2. mon'[c] = mon[c]
      BY <1>1, <2>2, OwnSteps DEF StartCheck, Step, SSLCalls, TypeInv, TypeOK
    <3> QED BY <3>1, <3>2 DEF SettledInv, SSLCalls
  <2> QED BY <2>1, <2>2, AloneSteps
<1>2. ASSUME NEW i \in Incidents, incident'[i] # "none"
      PROVE  i \in Checks /\ affects'[i] = {ComponentOf(tgt'[i])}
  <2>1. CASE incident[i] # "none"
    <3>1. i \in Checks /\ affects[i] = {ComponentOf(tgt[i])} /\ pc[i] \in {"done", "lost"}
      BY <2>1 DEF SettledInv, IncidentInv
    <3>2. affects'[i] = affects[i]
      BY <2>1, <3>1, AloneSteps, EffectSteps DEF AffectStep, OpenIncident, Step
    <3>3. tgt'[i] = tgt[i]
      BY <3>1, LocalSteps DEF Started
    <3> QED BY <3>1, <3>2, <3>3
  <2>2. CASE incident[i] = "none"
    <3>1. i \in Checks /\ OpenIncident(i)
      BY <1>2, <2>2, AloneSteps, EffectSteps
      DEF IncidentStep, SettledInv, ResolveIncident, Step
    <3> QED
      BY <3>1, AloneSteps DEF OpenIncident, Fails, TypeInv, TypeOK, Incidents, local
  <2> QED BY <2>1, <2>2
<1>3. ASSUME NEW c \in Checks, pc'[c] = "resolveIncident"
      PROVE  incident'[seen'[c]] = "open"
  <2>1. CASE pc[c] = "resolveIncident" /\ seen'[c] = seen[c]
    <3>1. incident[seen[c]] = "open" /\ seen[c] \in Checks /\ seen[c] \in Incidents
          /\ affects[seen[c]] = {ComponentOf(tgt[seen[c]])}
      BY <2>1 DEF SettledInv, Incidents, TypeInv, CheckInv
    <3>2. ~OpenIncident(seen[c])
      BY <3>1 DEF IncidentInv, OpenIncident, Step
    <3>3. ASSUME NEW d \in Checks, ResolveIncident(d), seen[d] = seen[c] PROVE FALSE
      <4>1. pc[d] = "resolveIncident"
        BY <3>3 DEF ResolveIncident, Step
      <4>2. tgt[found[d]] = tgt[found[c]]
        BY <2>1, <3>1, <3>3, <4>1 DEF NamesInv
      <4>3. mon[d] = mon[c]
        <5>1. \A e \in {c, d} : found[e] \in Checks /\ mon[found[e]] = mon[e]
                                /\ mon[e] \in Monitors /\ Started(found[e])
          BY <2>1, <4>1 DEF TypeInv, CheckInv, Started
        <5>2. \A e \in {c, d} : tgt[found[e]] = TargetOf[mon[e]]
          BY <5>1 DEF VisibleInv
        <5> QED BY <4>2, <5>1, <5>2 DEF Alone, Undisturbed
      <4>4. d = c
        BY <2>1, <4>1, <4>3 DEF SoloInv, Sequential, Running
      <4> QED BY <1>3, <3>3, <4>4 DEF ResolveIncident, Step, TypeInv, TypeOK
    <3> QED BY <2>1, <3>1, <3>2, <3>3, AloneSteps, EffectSteps DEF IncidentStep
  <2>2. CASE FindIncident(c)
    BY <1>3, <2>2 DEF FindIncident, Step, OpenIncidents, TypeInv, TypeOK, db
  <2> QED BY <1>3, <2>1, <2>2, LocalSteps
<1> QED BY <1>1, <1>2, <1>3

\* A step of one monitor's check changes nothing about another monitor.
LEMMA AgreesElsewhere ==
  ASSUME Alone, TypeInv, SoloInv, VisibleInv, IncidentInv, NamesInv, SettledInv, [Next]_vars,
         NEW d \in Checks, CheckStep(d), NEW m \in Settling, mon'[d] # m
  PROVE  Agrees(m)'
<1> DEFINE t == TargetOf[m]
<1>1. m \in Monitors /\ t \in Targets /\ t \in Components /\ ~Overlap
  BY DEF Settling, Targets, Alone, Undisturbed
<1>2. ASSUME NEW c \in Checks, Started(c), mon[c] \in Monitors, pc'[c] # pc[c]
      PROVE  c = d /\ mon[c] # m /\ TargetOf[mon[c]] # t
  <2>1. c = d /\ mon[c] # m
    BY <1>2, OwnSteps DEF StartCheck, Step, Started
  <2> QED BY <1>1, <1>2, <2>1 DEF Alone, Undisturbed
<1>3. ASSUME NEW S \in SUBSET Calls PROVE At(m, S)' <=> At(m, S)
  BY <1>1, AtMoves DEF SoloInv
<1>4. At(m, {"mark"})' <=> At(m, {"mark"})
  BY <1>3 DEF Calls, PC
<1>5. At(m, Reporting)' <=> At(m, Reporting)
  BY <1>3 DEF Calls, PC, Reporting
<1>6. At(m, Recovering)' <=> At(m, Recovering)
  BY <1>3 DEF Calls, PC, Recovering
<1>7. At(m, {"findIncident", "resolveIncident"})' <=> At(m, {"findIncident", "resolveIncident"})
  BY <1>3 DEF Calls, PC
<1>8. ActiveOutages(m)' = ActiveOutages(m)
  <2> SUFFICES ASSUME NEW c \in Checks
               PROVE  outage'[c] = "active" /\ mon'[c] = m <=> outage[c] = "active" /\ mon[c] = m
    BY DEF ActiveOutages
  <2>1. CASE outage'[c] = "active" /\ outage[c] # "active"
    <3>1. OpenOutage(c)
      BY <2>1, OutageSteps
    <3>2. pc'[c] # pc[c] /\ Started(c) /\ mon'[c] = mon[c]
      BY <3>1 DEF OpenOutage, Step, Started, TypeInv, TypeOK, local
    <3> QED BY <1>2, <2>1, <3>2 DEF TypeInv, CheckInv
  <2>2. CASE outage[c] = "active" /\ outage'[c] # "active"
    <3>1. PICK e \in Checks : ResolveOutage(e) /\ found[e] = c
      BY <2>2, OutageSteps
    <3>2. pc'[e] # pc[e] /\ Started(e) /\ mon[c] = mon[e] /\ mon[e] \in Monitors
      BY <3>1 DEF ResolveOutage, Step, Started, TypeInv, TypeOK, CheckInv
    <3> QED BY <1>2, <2>2, <3>2
  <2>3. CASE outage[c] = "active" /\ outage'[c] = "active"
    BY <2>3, HistoryGrows DEF TypeInv, CheckInv
  <2> QED BY <2>1, <2>2, <2>3
<1>9. Shown(m)' <=> Shown(m)
  <2>1. CASE status'[t] = status[t]
    BY <2>1 DEF Shown
  <2>2. CASE status'[t] # status[t]
    <3>1. ASSUME NEW c \in Checks, Started(c), pc'[c] # pc[c] PROVE tgt[c] # t
      <4>1. mon[c] \in Monitors /\ tgt[c] = TargetOf[mon[c]]
        BY <3>1 DEF TypeInv, CheckInv, VisibleInv
      <4> QED BY <1>2, <3>1, <4>1
    <3>2. \A c \in Checks : SSLWarn(c) \/ SSLRestore(c) \/ MarkTarget(c) => tgt[c] # t
      BY <3>1 DEF SSLWarn, SSLRestore, MarkTarget, Step, Started, TypeInv, TypeOK
    <3>3. ASSUME NEW c \in Checks, RestoreTarget(c) PROVE tgt[found[c]] # t
      <4>1. pc[c] = "restore" /\ pc'[c] # pc[c] /\ Started(c)
        BY <3>3 DEF RestoreTarget, Step, Started, TypeInv, TypeOK
      <4>2. found[c] \in Checks /\ Started(found[c]) /\ mon[found[c]] = mon[c]
            /\ mon[c] \in Monitors
        BY <4>1 DEF TypeInv, CheckInv
      <4>3. tgt[found[c]] = TargetOf[mon[c]]
        BY <4>2 DEF VisibleInv
      <4> QED BY <1>2, <4>1, <4>2, <4>3
    <3> QED BY <1>1, <2>2, <3>2, <3>3, AloneSteps, EffectSteps DEF StatusStep
  <2> QED BY <2>1, <2>2
<1>10. OpenIncidents({t})' = OpenIncidents({t})
  <2> SUFFICES ASSUME NEW i \in Incidents
               PROVE  incident'[i] = "open" /\ t \in affects'[i]
                        <=> incident[i] = "open" /\ t \in affects[i]
    BY DEF OpenIncidents
  <2>1. ASSUME i \in Checks, OpenIncident(i) PROVE t \notin affects[i]' /\ incident[i] = "none"
    <3>1. pc[i] = "openIncident" /\ pc'[i] # pc[i] /\ Started(i)
      BY <2>1 DEF OpenIncident, Step, Started, TypeInv, TypeOK
    <3>2. mon[i] \in Monitors /\ mon[i] # m /\ tgt[i] = TargetOf[mon[i]] /\ incident[i] = "none"
      BY <1>2, <2>1, <3>1 DEF VisibleInv, TypeInv, CheckInv, IncidentInv
    <3>3. ComponentOf(tgt[i]) # ComponentOf(t) /\ ComponentOf(t) = t
      BY <1>1, <3>2 DEF Alone, ComponentOf
    <3>4. affects'[i] = {ComponentOf(tgt[i])}
      BY <2>1, AloneSteps DEF OpenIncident, Fails, TypeInv, TypeOK
    <3> QED BY <3>2, <3>3, <3>4
  <2>2. ASSUME NEW c \in Checks, ResolveIncident(c), seen[c] = i PROVE t \notin affects[i]
    <3>1. pc[c] = "resolveIncident" /\ pc'[c] # pc[c] /\ Started(c)
      BY <2>2 DEF ResolveIncident, Step, Started, TypeInv, TypeOK
    <3>2. found[c] \in Checks /\ Started(found[c]) /\ mon[found[c]] = mon[c]
          /\ mon[c] \in Monitors
      BY <3>1 DEF TypeInv, CheckInv
    <3>3. tgt[found[c]] = TargetOf[mon[c]] /\ tgt[found[c]] # t
      BY <1>2, <3>1, <3>2 DEF VisibleInv
    <3>4. tgt[found[c]] \in affects[i] /\ affects[i] = {ComponentOf(tgt[i])}
      BY <2>2, <3>1 DEF NamesInv, SettledInv
    <3> QED BY <3>3, <3>4
  <2>3. CASE incident'[i] # incident[i] \/ affects'[i] # affects[i]
    <3>1. CASE i \in Checks /\ OpenIncident(i)
      BY <2>1, <3>1
    <3>2. CASE ~(i \in Checks /\ OpenIncident(i))
      <4>1. affects'[i] = affects[i] \/ (i \in Manual /\ incident[i] = "none")
        BY <3>2, AloneSteps, EffectSteps DEF AffectStep
      <4>2. incident'[i] = incident[i]
            \/ (incident'[i] = "resolved" /\ t \notin affects[i])
        BY <2>2, <3>2, AloneSteps, EffectSteps DEF IncidentStep
      <4> QED BY <4>1, <4>2
    <3> QED BY <3>1, <3>2
  <2> QED BY <2>3
<1>11. Agrees(m)
  BY DEF SettledInv
<1>12. /\ Down(m)' <=> Down(m)
       /\ Told(m)' <=> Told(m)
       /\ OneTold(m) => OneTold(m)'
  BY <1>8, <1>10 DEF Down, Told, OneTold
<1> QED BY <1>4, <1>5, <1>6, <1>7, <1>9, <1>11, <1>12 DEF Agrees

\* A step of the monitor's own check keeps the agreement its call stands for.
LEMMA AgreesHere ==
  ASSUME Alone, TypeInv, SoloInv, VisibleInv, IncidentInv, NamesInv, SettledInv, [Next]_vars,
         NEW d \in Checks, CheckStep(d), NEW m \in Settling, mon'[d] = m
  PROVE  Agrees(m)'
<1> DEFINE t == TargetOf[m]
<1>1. m \in Monitors /\ t \in Targets /\ t \in Components /\ ~Overlap /\ m \notin SSLMonitors
  BY DEF Settling, Targets, Alone, Undisturbed
<1>2. ASSUME NEW S \in SUBSET Calls
      PROVE  (At(m, S) <=> pc[d] \in S) /\ (At(m, S)' <=> pc'[d] \in S)
  BY <1>1, AtMoves DEF SoloInv
<1>3. /\ At(m, {"mark"}) <=> pc[d] = "mark"
      /\ At(m, {"mark"})' <=> pc'[d] = "mark"
  BY <1>2 DEF Calls, PC
<1>4. /\ At(m, Reporting) <=> pc[d] \in Reporting
      /\ At(m, Reporting)' <=> pc'[d] \in Reporting
  BY <1>2 DEF Calls, PC, Reporting
<1>5. /\ At(m, Recovering) <=> pc[d] \in Recovering
      /\ At(m, Recovering)' <=> pc'[d] \in Recovering
  BY <1>2 DEF Calls, PC, Recovering
<1>6. LET S == {"findIncident", "resolveIncident"}
      IN  (At(m, S) <=> pc[d] \in S) /\ (At(m, S)' <=> pc'[d] \in S)
  BY <1>2 DEF Calls, PC
<1>7. /\ Shown(m) <=> (Down(m) /\ pc[d] # "mark") \/ pc[d] \in Recovering
      /\ Told(m) <=> (Down(m) /\ pc[d] \notin Reporting)
                       \/ pc[d] \in {"findIncident", "resolveIncident"}
      /\ pc[d] \in Reporting => Down(m)
      /\ OneTold(m)
  BY <1>3, <1>4, <1>5, <1>6 DEF SettledInv, Agrees
<1>8. SUFFICES
      /\ Shown(m)' <=> (Down(m)' /\ pc'[d] # "mark") \/ pc'[d] \in Recovering
      /\ Told(m)' <=> (Down(m)' /\ pc'[d] \notin Reporting)
                        \/ pc'[d] \in {"findIncident", "resolveIncident"}
      /\ pc'[d] \in Reporting => Down(m)'
      /\ OneTold(m)'
  BY <1>3, <1>4, <1>5, <1>6 DEF Agrees
<1> DEFINE Goal ==
      /\ Shown(m)' <=> (Down(m)' /\ pc'[d] # "mark") \/ pc'[d] \in Recovering
      /\ Told(m)' <=> (Down(m)' /\ pc'[d] \notin Reporting)
                        \/ pc'[d] \in {"findIncident", "resolveIncident"}
      /\ pc'[d] \in Reporting => Down(m)'
      /\ OneTold(m)'
<1>9. ASSUME ActiveOutages(m)' = ActiveOutages(m), OpenIncidents({t})' = OpenIncidents({t}),
             status'[t] = status[t], {pc[d], pc'[d]} \cap (Reporting \cup Recovering) = {}
      PROVE  Goal
  BY <1>7, <1>9 DEF Shown, Told, Down, OneTold, Recovering, Reporting
<1>10. ASSUME NEW n \in Monitors, StartCheck(d, n) PROVE Goal
  <2>1. /\ UNCHANGED <<outage, incident, affects, status>> /\ outage[d] = "none"
        /\ \A c \in Checks : c # d => mon'[c] = mon[c]
        /\ pc[d] = "idle" /\ pc'[d] = "probe"
    BY <1>10, OwnSteps DEF StartCheck, Step, TypeInv, TypeOK, CheckInv, Started, db
  <2>2. ActiveOutages(m)' = ActiveOutages(m)
    BY <2>1 DEF ActiveOutages
  <2>3. OpenIncidents({t})' = OpenIncidents({t})
    BY <2>1 DEF OpenIncidents
  <2> QED BY <1>9, <2>1, <2>2, <2>3 DEF Reporting, Recovering
<1>11. ASSUME ~\E n \in Monitors : StartCheck(d, n)
       PROVE  mon'[d] = mon[d] /\ mon[d] = m /\ Started(d) /\ tgt[d] = t /\ Running(d)
  BY <1>11, OwnSteps DEF VisibleInv, Running, Started
<1>12. ASSUME UNCHANGED <<outage, incident, affects, status, mon>>,
              {pc[d], pc'[d]} \cap (Reporting \cup Recovering) = {}
       PROVE  Goal
  BY <1>9, <1>12 DEF ActiveOutages, OpenIncidents
<1>13. CASE \/ \E rr \in {"up", "down"}, w \in BOOLEAN : Probe(d, rr, w)
            \/ InsertLog(d) \/ UpdateLast(d) \/ ReadLogs(d) \/ FindActive(d) \/ FindOutage(d)
            \/ SSLReadOutage(d) \/ SSLReadIncident(d)
  <2> USE DEF Step, local, db, Reporting, Recovering, TypeInv, TypeOK
  <2>1. ASSUME NEW rr \in {"up", "down"}, NEW w \in BOOLEAN, Probe(d, rr, w) PROVE Goal
    BY <1>12, <2>1 DEF Probe
  <2>2. CASE InsertLog(d)  BY <1>12, <2>2 DEF InsertLog
  <2>3. CASE UpdateLast(d)  BY <1>12, <2>3 DEF UpdateLast
  <2>4. CASE ReadLogs(d)  BY <1>12, <2>4 DEF ReadLogs
  <2>5. CASE FindActive(d)  BY <1>12, <2>5 DEF FindActive
  <2>6. CASE FindOutage(d)  BY <1>12, <2>6 DEF FindOutage
  <2>7. CASE SSLReadOutage(d)  BY <1>12, <2>7 DEF SSLReadOutage
  <2>8. CASE SSLReadIncident(d)  BY <1>12, <2>8 DEF SSLReadIncident
  <2> QED BY <1>13, <2>1, <2>2, <2>3, <2>4, <2>5, <2>6, <2>7, <2>8
<1>14. CASE SSLWarn(d) \/ SSLRestore(d)
  <2>1. pc[d] \in {"ssl", "sslRestore"} /\ mon'[d] = mon[d]
    BY <1>14 DEF SSLWarn, SSLRestore, Step, local
  <2> QED BY <1>1, <2>1 DEF SettledInv
<1>15. CASE OpenOutage(d)
  <2>1. /\ pc[d] = "openOutage" /\ pc'[d] = "mark" /\ outage'[d] = "active"
        /\ UNCHANGED <<incident, affects, status, mon>>
    BY <1>15, AloneSteps DEF OpenOutage, Fails, Step, TypeInv, TypeOK, local
  <2>2. ~Down(m) /\ Down(m)'
    BY <2>1 DEF Down, ActiveOutages, SoloInv
  <2>3. (Shown(m)' <=> Shown(m)) /\ (Told(m)' <=> Told(m)) /\ (OneTold(m)' <=> OneTold(m))
    BY <2>1 DEF Shown, Told, OneTold, OpenIncidents
  <2> QED BY <1>7, <2>1, <2>2, <2>3 DEF Reporting, Recovering
<1>16. CASE MarkTarget(d)
  <2>1. /\ pc[d] = "mark" /\ pc'[d] = "findCover" /\ UNCHANGED <<outage, incident, affects, mon>>
        /\ status'[tgt[d]] = "major_outage"
    BY <1>11, <1>16, <1>1, AloneSteps
    DEF MarkTarget, StartCheck, Fails, Step, TypeInv, TypeOK, local
  <2>2. Shown(m)'
    BY <1>11, <2>1 DEF Shown, StartCheck, Step
  <2>3. (Down(m)' <=> Down(m)) /\ (Told(m)' <=> Told(m)) /\ (OneTold(m)' <=> OneTold(m))
    BY <2>1 DEF Down, ActiveOutages, Told, OneTold, OpenIncidents
  <2> QED BY <1>7, <2>1, <2>2, <2>3 DEF Reporting, Recovering
<1>17. CASE FindCover(d)
  <2>1. tgt[d] = t /\ pc[d] = "findCover" /\ ComponentOf(t) = t
    BY <1>1, <1>11, <1>17 DEF FindCover, StartCheck, Step, ComponentOf
  <2>2. OpenIncidents({t}) = {}
    BY <1>7, <2>1 DEF Told, Reporting, Recovering
  <2>3. pc'[d] = "openIncident" /\ UNCHANGED <<outage, incident, affects, status, mon>>
    BY <1>17, <2>1, <2>2 DEF FindCover, Step, TypeInv, TypeOK, local, db
  <2>4. /\ Down(m)' <=> Down(m)
        /\ Shown(m)' <=> Shown(m)
        /\ Told(m)' <=> Told(m)
        /\ OneTold(m)' <=> OneTold(m)
    BY <2>3 DEF Down, ActiveOutages, Shown, Told, OneTold, OpenIncidents
  <2> QED BY <1>7, <2>1, <2>3, <2>4 DEF Reporting, Recovering
<1>18. CASE OpenIncident(d)
  <2>1. tgt[d] = t /\ pc[d] = "openIncident" /\ ComponentOf(t) = t
    BY <1>1, <1>11, <1>18 DEF OpenIncident, StartCheck, Step, ComponentOf
  <2>2. OpenIncidents({t}) = {}
    BY <1>7, <2>1 DEF Told, Reporting, Recovering
  <2>3. /\ pc'[d] = "done" /\ UNCHANGED <<outage, status, mon>>
        /\ incident' = [incident EXCEPT ![d] = "open"] /\ affects' = [affects EXCEPT ![d] = {t}]
    BY <1>18, <2>1, AloneSteps DEF OpenIncident, Fails, Step, TypeInv, TypeOK, local
  <2>4. OpenIncidents({t})' = {d}
    BY <2>2, <2>3 DEF OpenIncidents, Incidents, TypeInv, TypeOK
  <2>5. (Down(m)' <=> Down(m)) /\ (Shown(m)' <=> Shown(m)) /\ Told(m)' /\ OneTold(m)'
    BY <2>3, <2>4 DEF Down, ActiveOutages, Shown, Told, OneTold
  <2> QED BY <1>7, <2>1, <2>3, <2>5 DEF Reporting, Recovering
<1>19. CASE ResolveOutage(d)
  <2>1. /\ pc[d] = "resolveOutage" /\ pc'[d] = "findIncident"
        /\ UNCHANGED <<incident, affects, status, mon>>
        /\ found[d] \in Checks /\ outage[found[d]] = "active" /\ mon[found[d]] = m
    BY <1>11, <1>19, AloneSteps
    DEF ResolveOutage, StartCheck, Fails, Step, VisibleInv, TypeInv, TypeOK, CheckInv, local
  <2>2. Down(m)
    BY <2>1 DEF Down, ActiveOutages
  <2>3. outage' = [outage EXCEPT ![found[d]] = "resolved"]
    BY <1>19, AloneSteps DEF ResolveOutage, Fails
  <2>4. ~Down(m)'
    <3>1. \A c \in Checks : outage'[c] = "active" /\ mon[c] = m
                              => c # found[d] /\ outage[c] = "active"
      BY <2>1, <2>3 DEF TypeInv, TypeOK
    <3> QED
      BY <1>1, <2>1, <3>1 DEF Down, ActiveOutages, SoloInv, AtMostOneActiveOutage
  <2>5. (Shown(m)' <=> Shown(m)) /\ (Told(m)' <=> Told(m)) /\ (OneTold(m)' <=> OneTold(m))
    BY <2>1 DEF Shown, Told, OneTold, OpenIncidents
  <2> QED BY <1>7, <2>1, <2>2, <2>4, <2>5 DEF Reporting, Recovering
<1>20. ASSUME pc[d] \in Recovering
       PROVE  found[d] \in Checks /\ tgt[found[d]] = t /\ ~Down(m)
  <2>1. mon[d] = m
    BY <1>11, <1>20 DEF StartCheck, Step, Recovering
  <2>2. found[d] \in Checks /\ mon[found[d]] = m /\ Started(found[d])
    BY <1>20, <2>1 DEF TypeInv, CheckInv, Recovering
  <2> QED BY <1>20, <2>1, <2>2 DEF VisibleInv, Down
<1>21. CASE FindIncident(d)
  <2>1. pc[d] = "findIncident" /\ tgt[found[d]] = t /\ ~Down(m) /\ OpenIncidents({t}) # {}
    BY <1>7, <1>20, <1>21 DEF FindIncident, Step, Told, Recovering
  <2>2. pc'[d] = "resolveIncident" /\ UNCHANGED <<outage, incident, affects, status, mon>>
    BY <1>1, <1>21, <2>1, AloneSteps DEF FindIncident, Fails, Step, TypeInv, TypeOK, db
  <2>3. /\ Down(m)' <=> Down(m)
        /\ Shown(m)' <=> Shown(m)
        /\ Told(m)' <=> Told(m)
        /\ OneTold(m)' <=> OneTold(m)
    BY <2>2 DEF Down, ActiveOutages, Shown, Told, OneTold, OpenIncidents
  <2> QED BY <1>7, <2>1, <2>2, <2>3 DEF Reporting, Recovering
<1>22. CASE ResolveIncident(d)
  <2>1. /\ pc[d] = "resolveIncident" /\ pc'[d] = "restore"
        /\ UNCHANGED <<outage, affects, status, mon>>
    BY <1>22 DEF ResolveIncident, Step, TypeInv, TypeOK, local
  <2>2. ~Down(m) /\ tgt[found[d]] = t
    BY <1>20, <2>1 DEF Recovering
  <2>3. seen[d] \in Incidents /\ incident[seen[d]] = "open" /\ t \in affects[seen[d]]
    BY <2>1, <2>2 DEF SettledInv, NamesInv, TypeInv, CheckInv
  <2>4. incident' = [incident EXCEPT ![seen[d]] = "resolved"]
    BY <1>22, <2>3, AloneSteps DEF ResolveIncident, Fails
  <2>5. \A i \in Incidents : incident[i] = "open" /\ t \in affects[i] => i = seen[d]
    BY <1>7, <2>3 DEF OneTold, OpenIncidents
  <2>6. OpenIncidents({t})' = {}
    BY <2>1, <2>3, <2>4, <2>5 DEF OpenIncidents, TypeInv, TypeOK
  <2>7. (Down(m)' <=> Down(m)) /\ (Shown(m)' <=> Shown(m)) /\ ~Told(m)' /\ OneTold(m)'
    BY <2>1, <2>6 DEF Down, ActiveOutages, Shown, Told, OneTold
  <2> QED BY <1>7, <2>1, <2>2, <2>7 DEF Reporting, Recovering
<1>23. CASE RestoreTarget(d)
  <2>1. /\ pc[d] = "restore" /\ pc'[d] = "done" /\ UNCHANGED <<outage, incident, affects, mon>>
    BY <1>23 DEF RestoreTarget, Step, TypeInv, TypeOK, local
  <2>2. ~Down(m) /\ tgt[found[d]] = t
    BY <1>20, <2>1 DEF Recovering
  <2>3. ~Shown(m)'
    BY <1>1, <1>23, <2>2, AloneSteps DEF RestoreTarget, Fails, Shown, TypeInv, TypeOK
  <2>4. (Down(m)' <=> Down(m)) /\ (Told(m)' <=> Told(m)) /\ (OneTold(m)' <=> OneTold(m))
    BY <2>1 DEF Down, ActiveOutages, Told, OneTold, OpenIncidents
  <2> QED BY <1>7, <2>1, <2>2, <2>3, <2>4 DEF Reporting, Recovering
<1> HIDE DEF Goal
<1> QED
  BY <1>8, <1>10, <1>13, <1>14, <1>15, <1>16, <1>17, <1>18, <1>19, <1>21, <1>22, <1>23
  DEF CheckStep, Goal

\* Once the write of lastStatus is made, it is the newest result.
LEMMA NewestNext ==
  ASSUME Alone, TypeInv, TypeInv', SoloInv, VisibleInv, ConsecutiveInv, SettledInv,
         [Next]_vars, NEW d \in Checks, CheckStep(d), NEW m \in Settling, ~At(m, {"last"})'
  PROVE  Newest(m)'
<1>1. m \in Monitors /\ \A c \in Checks : stamp[c] \in Nat
  BY DEF Settling, TypeInv, TypeOK, Logs
<1>2. ASSUME ~(UpdateLast(d) /\ mon[d] = m) PROVE Newest(m) /\ last'[m] = last[m]
  <2>1. ~At(m, {"last"})
    BY <1>2, OwnSteps DEF At
  <2>2. last'[m] = last[m]
    BY <1>1, <1>2, OwnSteps
  <2> QED BY <2>1, <2>2 DEF SettledInv
<1>3. ASSUME Stored(m)' = Stored(m), last'[m] = last[m], Newest(m),
             \A e \in Stored(m) : result'[e] = result[e] /\ stamp'[e] = stamp[e]
      PROVE  Newest(m)'
  BY <1>3 DEF Newest
<1>4. CASE UpdateLast(d) /\ mon[d] = m
  <2>1. /\ UNCHANGED <<mon, result, stamp, logged>> /\ pc[d] = "last" /\ d \in logged
        /\ Running(d)
    BY <1>4 DEF UpdateLast, Step, local, ConsecutiveInv, Running
  <2>2. last'[m] = result[d]
    <3>1. monitors[m] \in Targets /\ None \notin Targets
      BY <1>1 DEF VisibleInv
    <3> QED BY <1>1, <1>4, <3>1, AloneSteps DEF UpdateLast, Fails, TypeInv, TypeOK
  <2>3. d \in Stored(m) /\ Stored(m)' = Stored(m)
    BY <1>4, <2>1 DEF Stored
  <2>4. ASSUME NEW e \in Stored(m), stamp[d] <= stamp[e] PROVE e = d
    <3>1. /\ e \in Logs /\ mon[e] = mon[d] /\ result[e] # "none"
          /\ stamp[e] \in Nat /\ stamp[d] \in Nat
      <4>1. e \in Logs /\ e \in logged /\ mon[e] = mon[d]
        BY <1>4, <2>4 DEF Stored, TypeInv, TypeOK
      <4>2. result[e] # "none"
        BY <4>1 DEF ConsecutiveInv
      <4> QED BY <4>1, <4>2 DEF TypeInv, TypeOK, Logs
    <3>2. e # d => stamp[e] < stamp[d]
      BY <2>1, <3>1 DEF ConsecutiveInv
    <3> QED BY <2>4, <3>1, <3>2
  <2>5. ASSUME NEW e \in Stored(m)', (\A f \in Stored(m) : stamp[f] <= stamp[e])
        PROVE  last'[m] = result'[e]
    BY <2>1, <2>2, <2>3, <2>4, <2>5
  <2> QED BY <2>1, <2>3, <2>5 DEF Newest
<1>5. CASE ~(UpdateLast(d) /\ mon[d] = m) /\ UNCHANGED <<mon, result, stamp, logged>>
  BY <1>2, <1>3, <1>5 DEF Stored
<1>6. ASSUME NEW e \in Checks, NEW n \in Monitors, StartCheck(e, n) PROVE Newest(m)'
  <2>1. /\ UNCHANGED <<logged, result, stamp>> /\ pc[e] = "idle" /\ e \notin logged
        /\ \A c \in logged : mon'[c] = mon[c]
    BY <1>6, HistoryGrows DEF StartCheck, Step, TypeInv, CheckInv, Started, db
  <2>2. ~UpdateLast(d)
    BY <1>6 DEF UpdateLast, StartCheck, local, Step, TypeInv, TypeOK
  <2> QED BY <1>2, <1>3, <2>1, <2>2 DEF Stored
<1>7. ASSUME NEW e \in Checks, NEW rr \in {"up", "down"}, NEW w \in BOOLEAN, Probe(e, rr, w)
      PROVE  Newest(m)'
  <2>1. /\ UNCHANGED <<logged, mon, last>> /\ e \notin logged
        /\ \A c \in Logs : c # e => result'[c] = result[c] /\ stamp'[c] = stamp[c]
    BY <1>7 DEF Probe, Step, TypeInv, TypeOK, CheckInv, db
  <2>2. pc[e] = "probe" /\ e = d
    BY <1>7, OwnSteps DEF Probe, Step, TypeInv, TypeOK
  <2>3. ~UpdateLast(d)
    BY <2>2 DEF UpdateLast, Step
  <2> QED BY <1>2, <1>3, <2>1, <2>3 DEF Stored, TypeInv, TypeOK
<1>8. ASSUME NEW e \in Checks, InsertLog(e) PROVE Newest(m)'
  <2>1. /\ UNCHANGED <<mon, result, stamp>> /\ pc[e] = "log" /\ pc'[e] = "last"
        /\ logged' = logged \cup {e}
    BY <1>8, AloneSteps DEF InsertLog, Fails, Step, TypeInv, TypeOK, local
  <2>2. mon[e] # m
    BY <2>1 DEF At
  <2>3. ~UpdateLast(d)
    BY <2>1, OwnSteps DEF UpdateLast, Step
  <2> QED BY <1>2, <1>3, <2>1, <2>2, <2>3 DEF Stored
<1>9. ~ProcessStop
  BY DEF ProcessStop, TypeInv, TypeOK, Alone, Undisturbed
<1> QED BY <1>4, <1>5, <1>6, <1>7, <1>8, <1>9, LaterSteps

\* With sequential checks that nothing disturbs, of monitors that share no
\* component, the outage, the status of the component, the automatic incident,
\* the monitor's lastStatus and its newest log agree whenever none of its
\* checks runs; the invariant says how far they are apart at each call.
THEOREM SettledAgrees ==
  ASSUME Alone
  PROVE  Spec => []SettledAgreement
<1>1. Init => SoloInv /\ VisibleInv /\ ConsecutiveInv /\ IncidentInv /\ NamesInv /\ SettledInv
  <2> SUFFICES ASSUME Init
               PROVE  SoloInv /\ VisibleInv /\ ConsecutiveInv /\ IncidentInv /\ NamesInv
                      /\ SettledInv
    OBVIOUS
  <2>1. SoloInv
    BY DEF Init, SoloInv, Sequential, Running, ActiveOutages, AtMostOneActiveOutage
  <2>2. VisibleInv
    BY DEF Init, VisibleInv, Started, Recovering
  <2>3. IncidentInv /\ NamesInv
    BY DEF Init, IncidentInv, NamesInv, Incidents
  <2>4. ConsecutiveInv
    BY InitConsecutive
  <2>5. ASSUME NEW m \in Settling PROVE Agrees(m) /\ Newest(m)
    <3>1. ~At(m, {"mark"}) /\ ~At(m, Reporting) /\ ~At(m, Recovering)
          /\ ~At(m, {"findIncident", "resolveIncident"})
      BY DEF Init, At, Reporting, Recovering
    <3>2. ActiveOutages(m) = {} /\ OpenIncidents({TargetOf[m]}) = {}
      BY DEF Init, ActiveOutages, OpenIncidents
    <3>3. status[TargetOf[m]] = "operational"
      BY <2>5 DEF Init, Settling, Targets
    <3>4. Newest(m)
      BY <2>5 DEF Init, Newest, Stored, Logs, Settling
    <3> QED BY <3>1, <3>2, <3>3, <3>4 DEF Agrees, Shown, Down, Told, OneTold
  <2>6. SettledInv
    BY <2>5 DEF SettledInv, Init
  <2> QED BY <2>1, <2>2, <2>3, <2>4, <2>6
<1>2. SettledInv => SettledAgreement
  <2> SUFFICES ASSUME SettledInv, NEW m \in Settling, \A c \in Checks : Running(c) => mon[c] # m
               PROVE  /\ Down(m) <=> Shown(m)
                      /\ Down(m) <=> Told(m)
                      /\ Newest(m)
    BY DEF SettledAgreement, Settling, Down, Shown, Told, Newest
  <2>1. ~At(m, {"mark"}) /\ ~At(m, Reporting) /\ ~At(m, Recovering)
        /\ ~At(m, {"findIncident", "resolveIncident"}) /\ ~At(m, {"last"})
    BY DEF At, Running, Reporting, Recovering
  <2> QED BY <2>1 DEF SettledInv, Agrees
<1>3. /\ ~Overlap /\ "read" \notin Faults /\ "write" \notin Faults /\ StopBudget = 0
      /\ "affect" \notin AdminOps /\ Undisturbed
  BY DEF Alone, Undisturbed
<1>4. /\ TypeInv /\ SoloInv /\ [Next]_vars => SoloInv'
      /\ TypeInv /\ TypeInv' /\ SoloInv /\ VisibleInv /\ [Next]_vars => VisibleInv'
      /\ TypeInv /\ TypeInv' /\ SoloInv /\ ConsecutiveInv /\ [Next]_vars => ConsecutiveInv'
      /\ TypeInv /\ IncidentInv /\ NamesInv /\ [Next]_vars => NamesInv'
  BY <1>3, SoloNext, VisibleNext, ConsecutiveNext, NamesNext DEF SoloInv
<1>5. TypeInv /\ TypeInv' /\ SoloInv /\ VisibleInv /\ ConsecutiveInv /\ IncidentInv /\ NamesInv
        /\ SettledInv /\ [Next]_vars => SettledInv'
  <2> SUFFICES ASSUME TypeInv, TypeInv', SoloInv, VisibleInv, ConsecutiveInv, IncidentInv,
                      NamesInv, SettledInv, [Next]_vars
               PROVE  SettledInv'
    OBVIOUS
  <2>1. ASSUME NEW m \in Settling PROVE Agrees(m)' /\ (~At(m, {"last"})' => Newest(m)')
    <3>1. CASE UNCHANGED vars
      <4>1. Agrees(m) /\ (~At(m, {"last"}) => Newest(m))
        BY DEF SettledInv
      <4> QED
        BY <3>1, <4>1 DEF vars, local, db, Agrees, Newest, At, Shown, Told, Down, OneTold,
           ActiveOutages, OpenIncidents, Stored
    <3>2. ASSUME NEW d \in Checks, CheckStep(d)
          PROVE  Agrees(m)' /\ (~At(m, {"last"})' => Newest(m)')
      BY <3>2, AgreesHere, AgreesElsewhere, NewestNext
    <3> QED BY <3>1, <3>2, AloneSteps
  <2> QED BY <2>1, AutoNext DEF SettledInv, SSLCalls
<1> QED
  BY <1>1, <1>2, <1>4, <1>5, InitTyped, NextTyped, IncidentNext, PTL DEF Spec

-----------------------------------------------------------------------------
(* Detection implements OutageLifecycle *)

\* A set of numbers that is not empty has a least one, by the well-foundedness
\* of strict inclusion among finite sets.
LEMMA LeastOf ==
  ASSUME NEW T \in SUBSET Nat, T # {}
  PROVE  \E n \in T : \A k \in T : n <= k
<1> DEFINE R == StrictSubsetOrdering(Nat)
           Below(x) == {k \in T : k <= x}
           C == {Below(x) : x \in T}
<1>0. \A i \in T : i \in Nat
  OBVIOUS
<1>1. IsWellFoundedOn(R, FiniteSubsetsOf(Nat))
  BY FS_StrictSubsetOrderingWellFounded
<1>2. C \subseteq FiniteSubsetsOf(Nat) /\ C # {}
  <2>1. ASSUME NEW x \in T PROVE Below(x) \in FiniteSubsetsOf(Nat)
    <3>1. x \in Nat /\ Below(x) \subseteq 0 .. x
      <4>1. ASSUME NEW i \in Below(x) PROVE i \in Nat /\ x \in Nat /\ 0 <= i /\ i <= x
        BY <1>0
      <4>2. x \in Nat /\ \A i \in Nat : 0 <= i /\ i <= x => i \in 0 .. x
        BY <1>0
      <4> QED BY <4>1, <4>2, Zenon
    <3>2. IsFiniteSet(Below(x))
      <4>1. 0 \in Int /\ x \in Int  BY <3>1
      <4>2. IsFiniteSet(0 .. x)  BY <4>1, FS_Interval
      <4> HIDE DEF Below
      <4> QED BY <3>1, <4>2, FS_Subset
    <3> QED BY <3>2 DEF FiniteSubsetsOf
  <2> HIDE DEF Below
  <2> QED BY <2>1
<1> HIDE DEF R
<1>3. PICK A \in C : \A B \in C : <<B, A>> \notin R
  <2> HIDE DEF C
  <2> QED BY <1>1, <1>2, WFMin
<1>4. PICK n \in T : A = Below(n)
  OBVIOUS
<1>5. ASSUME NEW k \in T, ~(n <= k) PROVE FALSE
  <2>1. k \in Nat /\ n \in Nat /\ k < n
    BY <1>5
  <2>2. Below(k) \subseteq Below(n) /\ n \in Below(n) /\ n \notin Below(k)
    <3>1. \A i \in T : i \in Nat /\ (i <= k => i <= n)
      BY <2>1
    <3>2. ~(n <= k) /\ n <= n
      BY <2>1
    <3>3. Below(k) \subseteq Below(n)
      BY <3>1
    <3>4. n \in Below(n) /\ n \notin Below(k)
      BY <3>2
    <3> QED BY <3>3, <3>4
  <2>3. Below(k) \in C /\ Below(k) \in SUBSET Nat /\ Below(n) \in SUBSET Nat
    OBVIOUS
  <2>4. <<Below(k), Below(n)>> \in R
    <3>1. Below(k) # Below(n)  BY <2>2
    <3> HIDE DEF Below
    <3> QED BY <2>2, <2>3, <3>1 DEF R, StrictSubsetOrdering
  <2> QED BY <1>3, <1>4, <2>3, <2>4
<1> QED BY <1>5

\* A set of results that is not empty has an oldest one.
LEMMA OldestOf ==
  ASSUME NEW R, R # {}, \A d \in R : stamp[d] \in Nat
  PROVE  \E d \in R : \A e \in R : stamp[d] <= stamp[e]
<1> DEFINE T == {stamp[d] : d \in R}
<1>1. T \in SUBSET Nat /\ T # {}
  OBVIOUS
<1>2. PICK n \in T : \A k \in T : n <= k
  <2> HIDE DEF T
  <2> QED BY <1>1, LeastOf
<1> QED BY <1>2

LEMMA StoredFinite ==
  ASSUME TypeInv, NEW m \in Monitors, NEW R \in SUBSET Stored(m)
  PROVE  IsFiniteSet(R) /\ Cardinality(R) \in Nat /\ \A d \in R : stamp[d] \in Nat
<1>1. IsFiniteSet(Logs)
  BY FS_Union DEF Logs
<1>2. R \in SUBSET Logs
  BY DEF Stored, TypeInv, TypeOK
<1> QED BY <1>1, <1>2, FS_Subset, FS_CardinalityType DEF TypeInv, TypeOK

LEMMA NoRun == ASSUME NEW m \in Monitors PROVE HasRun(m, 0)
BY FS_EmptySet DEF HasRun

\* Without its oldest failure a run is a run, shorter by one.
LEMMA RunShrinks ==
  ASSUME TypeInv, NEW m \in Monitors, NEW n \in Nat, HasRun(m, n + 1)
  PROVE  HasRun(m, n)
<1>1. PICK R \in SUBSET Stored(m) :
        /\ Cardinality(R) = n + 1
        /\ \A d \in R : result[d] = "down"
        /\ \A d \in R, e \in Stored(m) \ R : stamp[e] <= stamp[d]
  BY DEF HasRun
<1>2. IsFiniteSet(R) /\ \A d \in R : stamp[d] \in Nat
  BY StoredFinite
<1>3. PICK x \in R : \A e \in R : stamp[x] <= stamp[e]
  <2>1. n + 1 # 0
    OBVIOUS
  <2>2. R # {}
    BY <1>1, <2>1, FS_EmptySet
  <2> QED BY <1>2, <2>2, OldestOf
<1>4. Cardinality(R \ {x}) = n
  <2>1. Cardinality(R \ {x}) = Cardinality(R) - 1
    BY <1>2, <1>3, FS_RemoveElement
  <2> QED BY <1>1, <2>1
<1>5. \A d \in R \ {x}, e \in Stored(m) \ (R \ {x}) : stamp[e] <= stamp[d]
  BY <1>1, <1>3
<1> QED BY <1>1, <1>4, <1>5 DEF HasRun

IsRun(m, n) ==
  n \in 0 .. Threshold /\ HasRun(m, n) /\ (n < Threshold => ~HasRun(m, n + 1))

\* Every monitor has one longest run of failures, up to the threshold.
LEMMA RunExists ==
  ASSUME TypeInv, NEW m \in Monitors PROVE \E n \in Nat : IsRun(m, n)
<1> DEFINE T == {n \in Nat : n > Threshold \/ ~HasRun(m, n)}
<1>1. Threshold + 1 \in T /\ T \in SUBSET Nat /\ T # {}
  OBVIOUS
<1>2. PICK n \in T : \A k \in T : n <= k
  <2> HIDE DEF T
  <2> QED BY <1>1, LeastOf
<1>3. n \in Nat /\ n # 0 /\ n <= Threshold + 1
  BY <1>1, <1>2, NoRun
<1>4. n - 1 \in Nat /\ n - 1 \notin T
  BY <1>2, <1>3
<1>5. IsRun(m, n - 1)
  <2>1. n - 1 <= Threshold /\ HasRun(m, n - 1)
    BY <1>4
  <2>2. n - 1 < Threshold => ~HasRun(m, n)
    BY <1>2, <1>3
  <2>3. (n - 1) + 1 = n
    BY <1>3
  <2> QED BY <1>4, <2>1, <2>2, <2>3 DEF IsRun
<1> QED BY <1>4, <1>5

LEMMA LongerRun ==
  ASSUME TypeInv, NEW m \in Monitors, NEW n \in Nat, NEW k \in Nat, n < k, HasRun(m, k)
  PROVE  HasRun(m, n + 1)
<1> DEFINE T == {i \in Nat : n < i /\ HasRun(m, i)}
<1>1. k \in T /\ T \in SUBSET Nat /\ T # {}
  OBVIOUS
<1>2. PICK i \in T : \A j \in T : i <= j
  <2> HIDE DEF T
  <2> QED BY <1>1, LeastOf
<1>3. CASE i = n + 1
  BY <1>3
<1>4. CASE i # n + 1
  <2>1. i \in Nat /\ i - 1 \in Nat /\ n < i - 1 /\ (i - 1) + 1 = i
    BY <1>4
  <2>2. HasRun(m, i - 1)
    BY <2>1, RunShrinks
  <2>3. i - 1 \in T
    BY <2>1, <2>2
  <2> QED BY <1>2, <2>1, <2>3
<1> QED BY <1>3, <1>4

LEMMA RunUnique ==
  ASSUME TypeInv, NEW m \in Monitors, NEW n, NEW k, IsRun(m, n), IsRun(m, k)
  PROVE  n = k
<1>1. n \in Nat /\ k \in Nat /\ n <= Threshold /\ k <= Threshold
  BY DEF IsRun
<1>2. ~(n < k)
  BY <1>1, LongerRun DEF IsRun
<1>3. ~(k < n)
  BY <1>1, LongerRun DEF IsRun
<1> QED BY <1>1, <1>2, <1>3

LEMMA RunOfIs ==
  TypeInv => \A m \in Monitors : \A n : IsRun(m, n) <=> RunOf(m) = n
<1> SUFFICES ASSUME TypeInv, NEW m \in Monitors, NEW n
             PROVE  IsRun(m, n) <=> RunOf(m) = n
  OBVIOUS
<1>1. IsRun(m, RunOf(m))
  BY RunExists DEF RunOf, IsRun
<1> QED BY <1>1, RunUnique

\* No time of a check exceeds the number of times given out; while a check
\* runs its result is newer than every other in the logs of its monitor, and
\* in the logs before they are read; who goes on to open an outage has read
\* what is still there.  Unlike ConsecutiveInv this holds across restarts.
LifeInv ==
  /\ \A d \in Logs : stamp[d] <= Cardinality(Stamped)
  /\ \A c \in Checks :
       /\ pc[c] \in {"idle", "probe"} => stamp[c] = 0
       /\ Running(c) /\ pc[c] \notin {"probe", "log"} => c \in logged
       /\ Running(c) /\ pc[c] # "probe" =>
            \A d \in Stored(mon[c]) : d # c => stamp[d] < stamp[c]
       /\ pc[c] \in {"findOutage", "openOutage"} => LatestAllDown(mon[c])

LEMMA InitLife == Init => LifeInv
<1> SUFFICES ASSUME Init PROVE LifeInv
  OBVIOUS
<1>1. Cardinality(Stamped) = 0 /\ \A d \in Logs : stamp[d] = 0
  BY FS_EmptySet DEF Init, Stamped
<1>2. \A c \in Checks : c \in Logs /\ pc[c] = "idle" /\ stamp[c] = 0
  BY DEF Init, Logs
<1> QED BY <1>1, <1>2 DEF LifeInv, Running

\* As long as no result of a monitor is stored, its logs stay as they are.
LEMMA HistoryKept ==
  ASSUME TypeInv, [Next]_vars, NEW m \in Monitors, \A d \in logged' \ logged : mon[d] # m
  PROVE  /\ Stored(m)' = Stored(m)
         /\ \A d \in Stored(m) : result'[d] = result[d] /\ stamp'[d] = stamp[d]
<1>1. CASE UNCHANGED <<mon, result, stamp, logged>>
  BY <1>1 DEF Stored
<1>2. ASSUME NEW c \in Checks, NEW n \in Monitors, StartCheck(c, n) PROVE UNCHANGED <<result, stamp, logged>> /\ c \notin logged /\ mon' = [mon EXCEPT ![c] = n]
  BY <1>2 DEF StartCheck, Step, db, TypeInv, CheckInv, Started
<1>3. ASSUME NEW c \in Checks, NEW r \in {"up", "down"}, NEW w \in BOOLEAN, Probe(c, r, w)
      PROVE  /\ UNCHANGED <<mon, logged>> /\ c \notin logged
             /\ \A d \in Logs : d # c => result'[d] = result[d] /\ stamp'[d] = stamp[d]
  BY <1>3 DEF Probe, Step, db, TypeInv, TypeOK, CheckInv
<1>4. ASSUME NEW c \in Checks, InsertLog(c)
      PROVE  UNCHANGED <<mon, result, stamp>> /\ logged \subseteq logged'
  BY <1>4 DEF InsertLog, local
<1>5. CASE ProcessStop
  BY <1>1, <1>5 DEF ProcessStop, local, db
<1>6. logged \subseteq Logs
  BY DEF TypeInv, TypeOK
<1>7. CASE \E c \in Checks, n \in Monitors : StartCheck(c, n)
  BY <1>2, <1>6, <1>7 DEF Stored, TypeInv, TypeOK
<1>8. CASE \E c \in Checks, r \in {"up", "down"}, w \in BOOLEAN : Probe(c, r, w)
  BY <1>3, <1>6, <1>8 DEF Stored
<1>9. CASE \E c \in Checks : InsertLog(c)
  BY <1>4, <1>9 DEF Stored
<1> QED BY <1>1, <1>5, <1>7, <1>8, <1>9, LaterSteps

LEMMA RunOfIsNext == (TypeInv => \A m \in Monitors : \A n : IsRun(m, n) <=> RunOf(m) = n)'
BY RunOfIs, PTL

LEMMA RunKept ==
  ASSUME TypeInv, TypeInv', [Next]_vars, NEW m \in Monitors,
         \A d \in logged' \ logged : mon[d] # m
  PROVE  (\A n : HasRun(m, n)' <=> HasRun(m, n)) /\ RunOf(m)' = RunOf(m)
<1>1. /\ Stored(m)' = Stored(m)
      /\ \A d \in Stored(m) : result'[d] = result[d] /\ stamp'[d] = stamp[d]
  BY HistoryKept
<1>2. ASSUME NEW n PROVE HasRun(m, n)' <=> HasRun(m, n)
  BY <1>1 DEF HasRun
<1>3. ASSUME NEW n PROVE IsRun(m, n)' <=> IsRun(m, n)
  BY <1>2 DEF IsRun
<1>4. \A n : IsRun(m, n)' <=> RunOf(m)' = n
  BY RunOfIsNext
<1> QED BY <1>2, <1>3, <1>4, RunOfIs

\* A result that is stored is newer than what was stored before: a failure
\* lengthens the run of its monitor, a success ends it.
LEMMA RunGrows ==
  ASSUME TypeInv, TypeInv', Sequential, LifeInv, "write" \notin Faults,
         NEW c \in Checks, InsertLog(c), NEW m \in Monitors, mon[c] = m
  PROVE  RunOf(m)' = IF result[c] # "down" THEN 0
                     ELSE IF RunOf(m) < Threshold THEN RunOf(m) + 1 ELSE RunOf(m)
<1> DEFINE S == Stored(m)
<1>1. /\ pc[c] = "log" /\ c \notin logged /\ c \in Logs
      /\ UNCHANGED <<mon, result, stamp>> /\ logged' = logged \cup {c}
  BY DEF InsertLog, Step, Fails, local, TypeInv, CheckInv, Started, Logs
<1>2. Stored(m)' = S \cup {c} /\ c \notin S /\ mon'[c] = m
  BY <1>1 DEF Stored
<1>3. \A d \in S : stamp[d] < stamp[c] /\ stamp[d] \in Nat /\ stamp[c] \in Nat
  BY <1>1, <1>2 DEF LifeInv, Running, Stored, TypeInv, TypeOK
<1>4. ASSUME NEW n \in Nat, HasRun(m, n), result[c] = "down" PROVE HasRun(m, n + 1)'
  <2>1. PICK R \in SUBSET S :
          /\ Cardinality(R) = n
          /\ \A d \in R : result[d] = "down"
          /\ \A d \in R, e \in S \ R : stamp[e] <= stamp[d]
    BY <1>4 DEF HasRun
  <2>2. IsFiniteSet(R) /\ c \notin R
    BY <1>1, <1>2, StoredFinite
  <2>3. Cardinality(R \cup {c}) = n + 1
    BY <2>1, <2>2, FS_AddElement
  <2>4. \A d \in R \cup {c}, e \in (S \cup {c}) \ (R \cup {c}) : stamp[e] <= stamp[d]
    BY <1>3, <2>1
  <2>5. R \cup {c} \in SUBSET (S \cup {c}) /\ \A d \in R \cup {c} : result[d] = "down"
    BY <1>4, <2>1
  <2> HIDE DEF S
  <2> QED BY <1>1, <1>2, <2>3, <2>4, <2>5 DEF HasRun
<1>5. ASSUME NEW n \in Nat, HasRun(m, n + 1)' PROVE result[c] = "down" /\ HasRun(m, n)
  <2>1. PICK R \in SUBSET (S \cup {c}) :
          /\ Cardinality(R) = n + 1
          /\ \A d \in R : result[d] = "down"
          /\ \A d \in R, e \in (S \cup {c}) \ R : stamp[e] <= stamp[d]
    BY <1>1, <1>2, <1>5 DEF HasRun
  <2>2. IsFiniteSet(R)
    <3>1. IsFiniteSet(S)
      BY <1>1, StoredFinite
    <3>2. IsFiniteSet(S \cup {c})
      BY <3>1, FS_AddElement
    <3> HIDE DEF S
    <3> QED BY <3>2, FS_Subset
  <2>3. c \in R
    <3>1. n + 1 # 0
      OBVIOUS
    <3>2. PICK d \in R : TRUE
      BY <2>1, <3>1, FS_EmptySet
    <3>3. CASE d # c /\ c \notin R
      <4>1. d \in S /\ stamp[c] <= stamp[d]
        BY <2>1, <3>3
      <4> QED BY <1>3, <4>1
    <3> QED BY <3>3
  <2>4. Cardinality(R \ {c}) = n
    <3>1. Cardinality(R \ {c}) = Cardinality(R) - 1
      BY <2>2, <2>3, FS_RemoveElement
    <3> QED BY <2>1, <3>1
  <2>5. R \ {c} \in SUBSET S /\ \A d \in R \ {c}, e \in S \ (R \ {c}) : stamp[e] <= stamp[d]
    BY <1>2, <2>1
  <2> HIDE DEF S
  <2>6. HasRun(m, n)
    <3>1. S = Stored(m)
      BY DEF S
    <3> QED BY <2>1, <2>4, <2>5, <3>1 DEF HasRun
  <2> QED BY <2>1, <2>3, <2>6
<1>6. HasRun(m, 0)'
  BY FS_EmptySet DEF HasRun
<1>7. \A n : IsRun(m, n)' <=> RunOf(m)' = n
  BY RunOfIsNext
<1>8. PICK r \in Nat : r = RunOf(m) /\ IsRun(m, r)
  <2>1. PICK r \in Nat : IsRun(m, r)
    BY <1>1, RunExists
  <2> QED BY <1>1, <2>1, RunOfIs
<1> HIDE DEF S
<1>9. CASE result[c] # "down"
  <2>1. ~HasRun(m, 0 + 1)'
    BY <1>5, <1>9
  <2>2. IsRun(m, 0)'
    BY <1>6, <2>1 DEF IsRun
  <2>3. RunOf(m)' = 0
    BY <1>1, <1>7, <2>2
  <2> QED BY <1>9, <2>3
<1>10. CASE result[c] = "down" /\ r < Threshold
  <2>1. HasRun(m, r + 1)'
    BY <1>4, <1>8, <1>10 DEF IsRun
  <2>2. ~HasRun(m, (r + 1) + 1)'
    BY <1>5, <1>8, <1>10 DEF IsRun
  <2>3. IsRun(m, r + 1)'
    BY <1>10, <2>1, <2>2 DEF IsRun
  <2>4. RunOf(m)' = r + 1
    BY <1>1, <1>7, <2>3
  <2> QED BY <1>8, <1>10, <2>4
<1>11. CASE result[c] = "down" /\ ~(r < Threshold)
  <2>1. r = Threshold /\ Threshold - 1 \in Nat /\ (Threshold - 1) + 1 = Threshold
    BY <1>8, <1>11 DEF IsRun
  <2>2. HasRun(m, Threshold - 1)
    BY <1>1, <1>8, <2>1, RunShrinks DEF IsRun
  <2>3. HasRun(m, Threshold)'
    BY <1>4, <1>11, <2>1, <2>2
  <2>4. IsRun(m, Threshold)'
    BY <2>3 DEF IsRun
  <2>5. RunOf(m)' = Threshold
    BY <1>1, <1>7, <2>4
  <2> QED BY <1>8, <1>11, <2>1, <2>5
<1> QED BY <1>9, <1>10, <1>11

LEMMA LifeNext ==
  ASSUME ~Overlap, "write" \notin Faults
  PROVE  TypeInv /\ TypeInv' /\ Sequential /\ LifeInv /\ [Next]_vars => LifeInv'
<1> SUFFICES ASSUME TypeInv, TypeInv', Sequential, LifeInv, [Next]_vars PROVE LifeInv'
  OBVIOUS
<1>1. /\ IsFiniteSet(Stamped) /\ Cardinality(Stamped) \in Nat
      /\ \A d \in Logs : stamp[d] \in Nat /\ stamp'[d] \in Nat
  <2>1. IsFiniteSet(Logs)
    BY FS_Union DEF Logs
  <2>2. IsFiniteSet(Stamped)
    BY <2>1, FS_Subset DEF Stamped
  <2> QED BY <2>2, FS_CardinalityType DEF TypeInv, TypeOK
\* Who has read enough failures still sees them.
<1>2. ASSUME NEW c \in Checks, pc'[c] \in {"findOutage", "openOutage"}
      PROVE  LatestAllDown(mon[c])'
  <2>1. Running(c) /\ mon[c] \in Monitors /\ LatestAllDown(mon[c])
    <3>1. CASE pc'[c] = pc[c]
      BY <1>2, <3>1 DEF LifeInv, Running, TypeInv, CheckInv, Started
    <3>2. CASE pc'[c] = "findOutage" /\ pc[c] # "findOutage"
      BY <3>2, OutageSteps DEF Running, TypeInv, CheckInv, Started
    <3>3. CASE pc'[c] = "openOutage" /\ pc[c] # "openOutage"
      BY <3>3, OutageSteps DEF FindOutage, LifeInv, Running, TypeInv, CheckInv, Started
    <3> QED BY <1>2, <3>1, <3>2, <3>3
  <2> DEFINE m == mon[c]
  <2>2. PICK k \in Monitors : k = mon[c] /\ k = mon'[c]
    BY <2>1, HistoryGrows DEF Running, Started
  <2>3. ASSUME NEW d \in logged' \ logged PROVE mon[d] # k
    <3>1. \A e \in Checks : /\ \A n \in Monitors : StartCheck(e, n) => logged' = logged
                            /\ \A r, w : Probe(e, r, w) => logged' = logged
      BY DEF StartCheck, Probe, db
    <3>2. PICK e \in Checks : InsertLog(e)
      BY <2>3, <3>1, LaterSteps DEF ProcessStop, db
    <3>3. d = e /\ pc[d] = "log" /\ pc'[d] = "last"
      BY <2>3, <3>2 DEF InsertLog, Step, TypeInv, TypeOK
    <3>4. d \in Checks /\ Running(d) /\ c # d
      BY <1>2, <3>2, <3>3 DEF Running
    <3> QED BY <2>1, <2>2, <3>4 DEF Sequential
  <2>4. HasRun(k, Threshold)' <=> HasRun(k, Threshold)
    BY <2>3, RunKept
  <2> QED BY <2>1, <2>2, <2>4 DEF LatestAllDown
<1>3. CASE /\ UNCHANGED <<mon, result, stamp, logged>>
           /\ \A c \in Checks : pc'[c] = pc[c] \/ {pc[c], pc'[c]} \cap Early = {}
  <2>1. Stamped' = Stamped /\ \A m : Stored(m)' = Stored(m)
    BY <1>3 DEF Stamped, Stored
  <2>2. ASSUME NEW c \in Checks
        PROVE  /\ pc'[c] \in {"idle", "probe"} => stamp'[c] = 0
               /\ Running(c)' /\ pc'[c] \notin {"probe", "log"} => c \in logged'
               /\ Running(c)' /\ pc'[c] # "probe" =>
                    \A d \in Stored(mon[c])' : d # c => stamp'[d] < stamp'[c]
    <3>1. CASE pc'[c] = pc[c]
      BY <1>3, <2>1, <3>1 DEF LifeInv, Running, Stored
    <3>2. CASE pc'[c] # pc[c]
      <4>1. /\ pc[c] \notin {"idle", "probe", "log", "lost"}
            /\ pc'[c] \notin {"idle", "probe", "log", "lost"}
        BY <1>3, <3>2 DEF Early
      <4>2. Stored(mon[c])' = Stored(mon[c])
        BY <1>3 DEF Stored
      <4>3. Running(c)' => Running(c)
        BY <4>1, OutageSteps DEF StartCheck, Step
      <4> QED BY <1>3, <3>2, <4>1, <4>2, <4>3 DEF LifeInv
    <3> QED BY <3>1, <3>2
  <2> QED BY <1>1, <1>2, <1>3, <2>1, <2>2 DEF LifeInv
<1>4. CASE ProcessStop
  <2>1. /\ UNCHANGED <<mon, result, stamp, logged>>
        /\ \A c \in Checks : pc'[c] = pc[c] \/ pc'[c] = "lost"
    BY <1>4 DEF ProcessStop, local, db, TypeInv, TypeOK
  <2>2. Stamped' = Stamped
    BY <2>1 DEF Stamped
  <2> QED BY <1>1, <1>2, <2>1, <2>2 DEF LifeInv, Running, Stored
<1>5. ASSUME NEW c \in Checks, NEW m \in Monitors, StartCheck(c, m) PROVE LifeInv'
  <2>1. /\ UNCHANGED <<result, stamp, logged>> /\ c \notin logged /\ stamp[c] = 0
        /\ mon' = [mon EXCEPT ![c] = m] /\ pc' = [pc EXCEPT ![c] = "probe"]
    BY <1>5 DEF StartCheck, Step, db, TypeInv, CheckInv, Started, LifeInv
  <2>2. Stamped' = Stamped
    BY <2>1 DEF Stamped
  <2>3. \A k : Stored(k)' = Stored(k)
    BY <2>1 DEF Stored, TypeInv, TypeOK
  <2>4. ASSUME NEW d \in Checks
        PROVE  /\ pc'[d] \in {"idle", "probe"} => stamp'[d] = 0
               /\ Running(d)' /\ pc'[d] \notin {"probe", "log"} => d \in logged'
               /\ Running(d)' /\ pc'[d] # "probe" =>
                    \A e \in Stored(mon[d])' : e # d => stamp'[e] < stamp'[d]
    <3>1. CASE d = c
      BY <2>1, <3>1 DEF TypeInv, TypeOK
    <3>2. CASE d # c
      <4>1. pc'[d] = pc[d] /\ mon'[d] = mon[d]
        BY <2>1, <3>2 DEF TypeInv, TypeOK, Logs
      <4>2. Stored(mon[d])' = Stored(mon[d])
        BY <2>3, <4>1 DEF Stored
      <4> QED BY <2>1, <4>1, <4>2 DEF LifeInv, Running
    <3> QED BY <3>1, <3>2
  <2> QED BY <1>1, <1>2, <2>1, <2>2, <2>4 DEF LifeInv
<1>6. ASSUME NEW c \in Checks, NEW r \in {"up", "down"}, NEW w \in BOOLEAN, Probe(c, r, w)
      PROVE  LifeInv'
  <2>1. /\ UNCHANGED <<mon, logged>> /\ c \notin logged /\ stamp[c] = 0 /\ c \in Logs
        /\ pc[c] = "probe" /\ pc' = [pc EXCEPT ![c] = "log"]
        /\ stamp' = [stamp EXCEPT ![c] = 1 + Cardinality(Stamped)]
    BY <1>6 DEF Probe, Step, db, TypeInv, CheckInv, LifeInv, Logs, Stamped
  <2>2. c \notin Stamped /\ Stamped' = Stamped \cup {c}
    <3>1. 1 + Cardinality(Stamped) # 0 /\ DOMAIN stamp = Logs
      BY <1>1 DEF TypeInv, TypeOK
    <3>2. stamp'[c] # 0 /\ \A d \in Logs : d # c => stamp'[d] = stamp[d]
      BY <2>1, <3>1
    <3> QED BY <2>1, <3>2 DEF Stamped
  <2>3. Cardinality(Stamped)' = Cardinality(Stamped) + 1
    BY <1>1, <2>2, FS_AddElement
  <2>4. stamp'[c] = Cardinality(Stamped) + 1 /\ \A d \in Logs : d # c => stamp'[d] = stamp[d]
    BY <1>1, <2>1 DEF TypeInv, TypeOK
  <2>5. \A d \in Logs : stamp'[d] <= Cardinality(Stamped)'
    BY <1>1, <2>3, <2>4 DEF LifeInv
  <2>6. \A k : Stored(k)' = Stored(k) /\ Stored(k) \subseteq Logs /\ c \notin Stored(k)
    BY <2>1 DEF Stored, TypeInv, TypeOK
  <2>7. ASSUME NEW d \in Checks
        PROVE  /\ pc'[d] \in {"idle", "probe"} => stamp'[d] = 0
               /\ Running(d)' /\ pc'[d] \notin {"probe", "log"} => d \in logged'
               /\ Running(d)' /\ pc'[d] # "probe" =>
                    \A e \in Stored(mon[d])' : e # d => stamp'[e] < stamp'[d]
    <3>1. Stored(mon[d])' = Stored(mon[d])
      BY <2>1 DEF Stored
    <3>2. CASE d = c
      <4>1. pc'[d] = "log"
        BY <2>1, <3>2 DEF TypeInv, TypeOK
      <4>2. ASSUME NEW e \in Stored(mon[d]), e # d PROVE stamp'[e] < stamp'[d]
        BY <1>1, <2>4, <2>6, <3>2, <4>2 DEF LifeInv
      <4> QED BY <3>1, <4>1, <4>2
    <3>3. CASE d # c
      <4>1. pc'[d] = pc[d] /\ d \in Logs
        BY <2>1, <3>3 DEF TypeInv, TypeOK, Logs
      <4>2. ASSUME NEW e \in Stored(mon[d]) PROVE e \in Logs /\ e # c
        BY <2>6
      <4> QED BY <2>1, <2>4, <3>1, <3>3, <4>1, <4>2 DEF LifeInv, Running
    <3> QED BY <3>2, <3>3
  <2> QED BY <1>2, <2>5, <2>7 DEF LifeInv
<1>7. ASSUME NEW c \in Checks, InsertLog(c) PROVE LifeInv'
  <2>1. /\ UNCHANGED <<mon, result, stamp>> /\ logged' = logged \cup {c}
        /\ pc[c] = "log" /\ pc' = [pc EXCEPT ![c] = "last"]
    BY <1>7 DEF InsertLog, Step, local, Fails
  <2>2. Stamped' = Stamped
    BY <2>1 DEF Stamped
  <2>3. ASSUME NEW d \in Checks
        PROVE  /\ pc'[d] \in {"idle", "probe"} => stamp'[d] = 0
               /\ Running(d)' /\ pc'[d] \notin {"probe", "log"} => d \in logged'
               /\ Running(d)' /\ pc'[d] # "probe" =>
                    \A e \in Stored(mon[d])' : e # d => stamp'[e] < stamp'[d]
    <3>1. Stored(mon[d])' \subseteq Stored(mon[d]) \cup {c}
      BY <2>1 DEF Stored
    <3>2. CASE d = c
      BY <2>1, <3>1, <3>2 DEF LifeInv, Running, TypeInv, TypeOK
    <3>3. CASE d # c
      <4>1. pc'[d] = pc[d]
        BY <2>1, <3>3 DEF TypeInv, TypeOK
      <4>2. Running(d) => c \notin Stored(mon[d])'
        BY <2>1, <3>3 DEF Sequential, Running, Stored
      <4>3. Running(d)' <=> Running(d)
        BY <4>1 DEF Running
      <4> QED BY <2>1, <3>1, <3>3, <4>1, <4>2, <4>3 DEF LifeInv
    <3> QED BY <3>2, <3>3
  <2> QED BY <1>1, <1>2, <2>1, <2>2, <2>3 DEF LifeInv
<1> QED BY <1>3, <1>4, <1>5, <1>6, <1>7, LaterSteps

\* Only the calls that insert and resolve outages change who is in one.
LEMMA OutKept ==
  ASSUME TypeInv, [Next]_vars, NEW m \in Monitors,
         \A c \in Checks : OpenOutage(c) \/ ResolveOutage(c) => mon[c] # m
  PROVE  ActiveOutages(m)' = ActiveOutages(m)
<1> SUFFICES ASSUME NEW o \in Checks
             PROVE  outage'[o] = "active" /\ mon'[o] = m <=> outage[o] = "active" /\ mon[o] = m
  BY DEF ActiveOutages
<1>1. outage[o] = "active" => mon'[o] = mon[o]
  BY HistoryGrows DEF TypeInv, CheckInv
<1>2. outage[o] = "active" /\ mon[o] = m => outage'[o] = "active"
  <2> SUFFICES ASSUME outage[o] = "active", mon[o] = m, outage'[o] # "active" PROVE FALSE
    OBVIOUS
  <2>1. PICK d \in Checks : ResolveOutage(d) /\ found[d] = o
    BY OutageSteps
  <2>2. mon[d] = m
    BY <2>1 DEF ResolveOutage, TypeInv, CheckInv
  <2> QED BY <2>1, <2>2
<1>3. outage'[o] = "active" /\ mon'[o] = m => outage[o] = "active"
  <2> SUFFICES ASSUME outage'[o] = "active", mon'[o] = m, outage[o] # "active" PROVE FALSE
    OBVIOUS
  <2>1. OpenOutage(o)
    BY OutageSteps
  <2>2. mon'[o] = mon[o]
    BY <2>1 DEF OpenOutage, local
  <2> QED BY <2>1, <2>2
<1> QED BY <1>1, <1>2, <1>3

InOutage == {m \in Monitors : ActiveOutages(m) # {}}
Streaks == [m \in Monitors |-> RunOf(m)]

LEMMA MappedInit == Init => Lifecycle!Init
<1> SUFFICES ASSUME Init PROVE Lifecycle!Init
  OBVIOUS
<1>1. TypeInv
  BY InitTyped
<1>2. ASSUME NEW m \in Monitors PROVE RunOf(m) \in 0 .. Threshold
  BY <1>1, RunExists, RunOfIs DEF IsRun
<1>3. \A m \in Monitors : ActiveOutages(m) = {}
  BY DEF Init, ActiveOutages
<1> QED BY <1>2, <1>3 DEF Lifecycle!Init

LEMMA MappedStep ==
  ASSUME ~Overlap, "write" \notin Faults
  PROVE  TypeInv /\ TypeInv' /\ Sequential /\ LifeInv /\ [Next]_vars
           => [Lifecycle!Next]_(Lifecycle!vars)
<1> SUFFICES ASSUME TypeInv, TypeInv', Sequential, LifeInv, [Next]_vars
             PROVE  [Lifecycle!Next]_(Lifecycle!vars)
  OBVIOUS
<1>1. CASE logged' = logged /\ \A c \in Checks : ~OpenOutage(c) /\ ~ResolveOutage(c)
  <2>1. \A m \in Monitors : RunOf(m)' = RunOf(m) /\ ActiveOutages(m)' = ActiveOutages(m)
    BY <1>1, RunKept, OutKept
  <2>2. InOutage' = InOutage /\ Streaks' = Streaks
    BY <2>1 DEF InOutage, Streaks
  <2> QED BY <2>2 DEF Lifecycle!vars, InOutage, Streaks
\* A stored result is a failure or a success of its monitor.
<1>2. ASSUME NEW c \in Checks, InsertLog(c) PROVE Lifecycle!Next
  <2>1. PICK m \in Monitors : mon[c] = m
    BY <1>2 DEF InsertLog, Step, TypeInv, CheckInv, Started
  <2>2. logged' = logged \cup {c} /\ UNCHANGED <<outage, mon>>
    BY <1>2 DEF InsertLog, Fails, local
  <2>3. InOutage' = InOutage
    BY <2>2 DEF InOutage, ActiveOutages
  <2>4. \A k \in Monitors \ {m} : RunOf(k)' = RunOf(k)
    BY <2>1, <2>2, RunKept
  <2>5. RunOf(m)' = IF result[c] # "down" THEN 0
                    ELSE IF RunOf(m) < Threshold THEN RunOf(m) + 1 ELSE RunOf(m)
    BY <1>2, <2>1, RunGrows
  <2>6. CASE result[c] = "down"
    <3>1. Streaks' = [Streaks EXCEPT ![m] = IF @ < Threshold THEN @ + 1 ELSE @]
      BY <2>4, <2>5, <2>6 DEF Streaks
    <3> QED BY <2>3, <3>1 DEF Lifecycle!Next, Lifecycle!Fail, InOutage, Streaks
  <2>7. CASE result[c] # "down"
    <3>1. Streaks' = [Streaks EXCEPT ![m] = 0]
      BY <2>4, <2>5, <2>7 DEF Streaks
    <3> QED BY <2>3, <3>1 DEF Lifecycle!Next, Lifecycle!Succeed, InOutage, Streaks
  <2> QED BY <2>6, <2>7
<1>3. ASSUME NEW c \in Checks, OpenOutage(c) \/ ResolveOutage(c),
             NEW m \in Monitors, mon[c] = m
      PROVE  /\ logged' = logged
             /\ \A k \in Monitors : RunOf(k)' = RunOf(k)
             /\ \A k \in Monitors \ {m} : ActiveOutages(k)' = ActiveOutages(k)
  <2>1. logged' = logged
    BY <1>3 DEF OpenOutage, ResolveOutage
  <2>2. \A d \in Checks : OpenOutage(d) \/ ResolveOutage(d) => d = c
    <3>1. ASSUME NEW d \in Checks, OpenOutage(d) \/ ResolveOutage(d)
          PROVE  pc'[d] # pc[d]
      BY <3>1 DEF OpenOutage, ResolveOutage, Step, TypeInv, TypeOK
    <3>2. ASSUME NEW d \in Checks, d # c PROVE pc'[d] = pc[d]
      BY <1>3, <3>2 DEF OpenOutage, ResolveOutage, Step, TypeInv, TypeOK
    <3> QED BY <3>1, <3>2
  <2> QED BY <1>3, <2>1, <2>2, RunKept, OutKept
\* An outage is inserted after a run of failures.
<1>4. ASSUME NEW c \in Checks, OpenOutage(c) PROVE [Lifecycle!Next]_(Lifecycle!vars)
  <2>1. PICK m \in Monitors : mon[c] = m
    BY <1>4 DEF OpenOutage, Step, TypeInv, CheckInv, Started
  <2>2. /\ \A k \in Monitors : RunOf(k)' = RunOf(k)
        /\ \A k \in Monitors \ {m} : ActiveOutages(k)' = ActiveOutages(k)
    BY <1>3, <1>4, <2>1
  <2>3. Streaks' = Streaks
    BY <2>2 DEF Streaks
  <2>4. outage' = [outage EXCEPT ![c] = "active"] /\ mon' = mon /\ pc[c] = "openOutage"
    BY <1>4 DEF OpenOutage, Step, Fails, local
  <2>5. c \in ActiveOutages(m)'
    BY <2>1, <2>4 DEF ActiveOutages, TypeInv, TypeOK
  <2>6. InOutage' = InOutage \cup {m}
    BY <2>2, <2>5 DEF InOutage
  <2>7. RunOf(m) = Threshold
    <3>1. HasRun(m, Threshold)
      BY <2>1, <2>4 DEF LifeInv, LatestAllDown
    <3>2. IsRun(m, Threshold)
      BY <3>1 DEF IsRun
    <3> QED BY <3>2, RunOfIs
  <2>8. CASE m \in InOutage
    <3>1. InOutage' = InOutage
      BY <2>6, <2>8
    <3> QED BY <2>3, <3>1 DEF Lifecycle!vars, InOutage, Streaks
  <2>9. CASE m \notin InOutage
    <3>1. Streaks[m] = Threshold
      BY <2>7 DEF Streaks
    <3> QED BY <2>3, <2>6, <2>9, <3>1 DEF Lifecycle!Next, Lifecycle!Open, InOutage, Streaks
  <2> QED BY <2>8, <2>9
\* An outage is resolved after a success.
<1>5. ASSUME NEW c \in Checks, ResolveOutage(c) PROVE [Lifecycle!Next]_(Lifecycle!vars)
  <2>1. PICK m \in Monitors : mon[c] = m
    BY <1>5 DEF ResolveOutage, TypeInv, CheckInv, Started
  <2>2. /\ \A k \in Monitors : RunOf(k)' = RunOf(k)
        /\ \A k \in Monitors \ {m} : ActiveOutages(k)' = ActiveOutages(k)
    BY <1>3, <1>5, <2>1
  <2>3. Streaks' = Streaks
    BY <2>2 DEF Streaks
  <2>4. /\ outage' = [outage EXCEPT ![found[c]] = "resolved"] /\ mon' = mon
        /\ pc[c] = "resolveOutage" /\ result[c] = "up"
    BY <1>5 DEF ResolveOutage, Fails, local, TypeInv, CheckInv
  <2>5. ActiveOutages(m)' \subseteq ActiveOutages(m)
    BY <2>4 DEF ActiveOutages, TypeInv, TypeOK
  <2>6. InOutage' = InOutage \/ (m \in InOutage /\ InOutage' = InOutage \ {m})
    BY <2>2, <2>5 DEF InOutage
  <2>7. RunOf(m) = 0
    <3>1. c \in Stored(m) /\ \A d \in Stored(m) : d # c => stamp[d] < stamp[c]
      BY <2>1, <2>4 DEF LifeInv, Running, Stored
    <3>2. \A d \in Stored(m) : stamp[d] \in Nat
      BY <3>1, StoredFinite
    <3>3. ~HasRun(m, 0 + 1)
      <4> SUFFICES ASSUME HasRun(m, 0 + 1) PROVE FALSE
        OBVIOUS
      <4>1. PICK R \in SUBSET Stored(m) :
              /\ Cardinality(R) = 0 + 1
              /\ \A d \in R : result[d] = "down"
              /\ \A d \in R, e \in Stored(m) \ R : stamp[e] <= stamp[d]
        BY DEF HasRun
      <4>2. PICK d \in R : TRUE
        <5>1. 0 + 1 # 0
          OBVIOUS
        <5> QED BY <4>1, <5>1, FS_EmptySet
      <4>3. d # c /\ c \notin R
        BY <2>4, <4>1, <4>2
      <4>4. stamp[c] <= stamp[d] /\ stamp[d] < stamp[c] /\ stamp[c] \in Nat /\ stamp[d] \in Nat
        BY <3>1, <3>2, <4>1, <4>2, <4>3
      <4> QED BY <4>4
    <3>4. IsRun(m, 0)
      BY <3>3, NoRun DEF IsRun
    <3> QED BY <3>4, RunOfIs
  <2>8. CASE InOutage' = InOutage
    BY <2>3, <2>8 DEF Lifecycle!vars, InOutage, Streaks
  <2>9. CASE m \in InOutage /\ InOutage' = InOutage \ {m}
    <3>1. Streaks[m] = 0
      BY <2>7 DEF Streaks
    <3> QED BY <2>3, <2>9, <3>1 DEF Lifecycle!Next, Lifecycle!Close, InOutage, Streaks
  <2> QED BY <2>6, <2>8, <2>9
<1>6. logged' = logged \/ \E c \in Checks : InsertLog(c)
  <2>1. \A e \in Checks : /\ \A n \in Monitors : StartCheck(e, n) => logged' = logged
                          /\ \A r, w : Probe(e, r, w) => logged' = logged
    BY DEF StartCheck, Probe, db
  <2> QED BY <2>1, LaterSteps DEF ProcessStop, db
<1> QED BY <1>1, <1>2, <1>4, <1>5, <1>6

\* With sequential checks whose results and outages are stored, whatever reads
\* fail, whoever edits and however often the process restarts, every step of
\* detection is a failure, a success, an opening after Threshold failures, a
\* closing after a success, or nothing of these.
THEOREM TakesLifecycleSteps ==
  ASSUME ~Overlap, "write" \notin Faults
  PROVE  Spec => LifecycleSteps
<1>1. Init => Sequential
  BY DEF Init, Sequential, Running
<1>2. TypeInv /\ Sequential /\ [Next]_vars => Sequential'
  BY SequentialNext
<1>3. TypeInv /\ TypeInv' /\ Sequential /\ LifeInv /\ [Next]_vars => LifeInv'
  BY LifeNext
<1>4. TypeInv /\ TypeInv' /\ Sequential /\ LifeInv /\ [Next]_vars
        => [Lifecycle!Next]_(Lifecycle!vars)
  BY MappedStep
<1> QED
  BY <1>1, <1>2, <1>3, <1>4, InitTyped, NextTyped, InitLife, MappedInit, PTL
     DEF Spec, LifecycleSteps, Lifecycle!Steps

=============================================================================
