----------------------------- MODULE WorkerLoop -----------------------------
(***************************************************************************)
(* The monitoring worker of internal/server/worker.go as a set of          *)
(* goroutines: the loop of StartWorker, the cycle goroutine each accepted  *)
(* tick starts, and the check goroutines runChecks starts without waiting  *)
(* for them.  They share the compare-and-swap flag workerCycleRunning, the *)
(* WaitGroup workerWG, the context workerCtx and, through the monitors     *)
(* collection, the lastCheckedAt of each monitor.                          *)
(*                                                                         *)
(* Time is a natural number of units; the ticker's period, the interval of *)
(* each monitor and the longest time a fetch or a check takes are          *)
(* constants, so that "a check outlives a tick" is a choice of constants.  *)
(***************************************************************************)
EXTENDS Naturals, FiniteSets

CONSTANTS
  Monitors,    \* documents of the monitors collection
  Cycles,      \* identities of cycle goroutines, one per accepted tick
  Checks,      \* identities of check goroutines, one per monitor run
  Period,      \* the ticker's period (10 s in the code)
  Interval,    \* effectiveIntervalSeconds of each monitor
  MaxFetch,    \* longest time from a cycle's start to its last spawn
  MaxCheck,    \* longest time from a check's spawn to its end
  MaxTime,     \* bound on the clock
  PromptLoop,  \* whether the loop receives a tick in the unit it arrives in
  LostWrites,  \* whether the lastCheckedAt write may fail unnoticed
  None         \* no time yet, no monitor yet

ASSUME WorkerAssumption ==
  /\ Period \in Nat \ {0}
  /\ Interval \in [Monitors -> Nat \ {0}]
  /\ MaxFetch \in Nat /\ MaxCheck \in Nat /\ MaxTime \in Nat
  /\ LostWrites \in BOOLEAN /\ PromptLoop \in BOOLEAN
  /\ None \notin Nat /\ None \notin Monitors
  /\ IsFiniteSet(Cycles) /\ IsFiniteSet(Checks)

VARIABLES
  now,         \* the clock
  nextTick,    \* when the ticker fires next
  tick,        \* a tick waits in the ticker's one-place channel
  cancelled,   \* workerCtx is done
  loop,        \* where StartWorker is
  flag,        \* workerCycleRunning
  wg,          \* the counter of workerWG
  cycle,       \* program counter of each cycle goroutine
  began,       \* when each fetching or spawning cycle was started, else 0
  due,         \* monitors each cycle still has to spawn a check for
  check,       \* program counter of each check goroutine
  spawned,     \* when each running check was started, else 0
  mon,         \* the monitor each running check works on
  lastChecked  \* lastCheckedAt of each monitor document

vars == <<now, nextTick, tick, cancelled, loop, flag, wg, cycle, began, due, check,
          spawned, mon, lastChecked>>

cycleVars == <<cycle, began, due>>
checkVars == <<check, spawned, mon, lastChecked>>

CyclePC == {"unused", "fetch", "spawn", "upkeep", "clear", "exit", "gone"}
CheckPC == {"unused", "probe", "detect", "gone"}

TypeOK ==
  /\ now \in Nat /\ nextTick \in Nat
  /\ tick \in BOOLEAN /\ cancelled \in BOOLEAN /\ flag \in BOOLEAN
  /\ loop \in {"select", "draining", "returned"}
  /\ wg \in Nat
  /\ cycle \in [Cycles -> CyclePC]
  /\ began \in [Cycles -> Nat]
  /\ due \in [Cycles -> SUBSET Monitors]
  /\ check \in [Checks -> CheckPC]
  /\ spawned \in [Checks -> Nat]
  /\ mon \in [Checks -> Monitors \cup {None}]
  /\ lastChecked \in [Monitors -> Nat \cup {None}]

\* Monitors may have been checked by an earlier run of the process.
Init ==
  /\ now = 0 /\ nextTick = Period /\ tick = FALSE /\ cancelled = FALSE
  /\ loop = "select" /\ flag = FALSE /\ wg = 0
  /\ cycle = [k \in Cycles |-> "unused"]
  /\ began = [k \in Cycles |-> 0]
  /\ due = [k \in Cycles |-> {}]
  /\ check = [c \in Checks |-> "unused"]
  /\ spawned = [c \in Checks |-> 0]
  /\ mon = [c \in Checks |-> None]
  /\ lastChecked \in [Monitors -> {None, 0}]

LiveCycles == {k \in Cycles : cycle[k] \notin {"unused", "gone"}}
LiveChecks == {c \in Checks : check[c] \notin {"unused", "gone"}}
InBody(k) == cycle[k] \in {"fetch", "spawn", "upkeep", "clear"}

\* Faulty variants of what follows: an Add or a Done forgotten, a flag set
\* without a comparison, probes without a timeout.
AddForgotten == wg' = wg
DoneForgotten == wg' = wg
StoreFlag == flag' = TRUE
NoProbeTimeout ==
  \A k \in Cycles : cycle[k] \in {"fetch", "spawn"} => now < began[k] + MaxFetch

\* workerWG.Add(1) and Done, and the compare-and-swap from 0 to 1.
WgAdd == wg' = wg + 1
WgDone == wg' = wg - 1
CompareAndSwap == ~flag /\ flag' = TRUE

-----------------------------------------------------------------------------
(* The clock and the ticker *)

\* The clock does not run past the longest time a fetch or a check takes.
WithinTimeouts ==
  /\ \A k \in Cycles : cycle[k] \in {"fetch", "spawn"} => now < began[k] + MaxFetch
  /\ \A c \in LiveChecks : now < spawned[c] + MaxCheck

\* Go's ticker drops a tick when the previous one was not received.  With
\* PromptLoop the clock does not run past a tick the loop could receive.
Advance ==
  /\ now < MaxTime
  /\ WithinTimeouts
  /\ PromptLoop => ~(tick /\ loop = "select")
  /\ now' = now + 1
  /\ IF now + 1 = nextTick
       THEN nextTick' = nextTick + Period /\ tick' = (loop = "select" \/ tick)
       ELSE UNCHANGED <<nextTick, tick>>
  /\ UNCHANGED <<cancelled, loop, flag, wg, cycleVars, checkVars>>

-----------------------------------------------------------------------------
(* StartWorker's loop *)

\* A tick whose compare-and-swap succeeds starts a cycle goroutine.  (Which
\* unused identity it takes makes no difference, so one is chosen.)
StartCycle(k) ==
  /\ loop = "select" /\ tick
  /\ cycle[k] = "unused" /\ k = CHOOSE j \in Cycles : cycle[j] = "unused"
  /\ tick' = FALSE
  /\ CompareAndSwap
  /\ WgAdd
  /\ cycle' = [cycle EXCEPT ![k] = "fetch"]
  /\ began' = [began EXCEPT ![k] = now]
  /\ UNCHANGED <<now, nextTick, cancelled, loop, due, checkVars>>

\* "Previous worker cycle still running, skipping tick".
SkipTick ==
  /\ loop = "select" /\ tick
  /\ flag
  /\ tick' = FALSE
  /\ UNCHANGED <<now, nextTick, cancelled, loop, flag, wg, cycleVars, checkVars>>

\* The Done branch of the select: stop the ticker, then wait.
BeginDrain ==
  /\ loop = "select" /\ cancelled
  /\ loop' = "draining"
  /\ UNCHANGED <<now, nextTick, tick, cancelled, flag, wg, cycleVars, checkVars>>

\* workerWG.Wait returns.
Return ==
  /\ loop = "draining" /\ wg = 0
  /\ loop' = "returned"
  /\ UNCHANGED <<now, nextTick, tick, cancelled, flag, wg, cycleVars, checkVars>>

\* StopWorker, or the cancel function of the signal handler.
StopWorker ==
  /\ ~cancelled
  /\ cancelled' = TRUE
  /\ UNCHANGED <<now, nextTick, tick, loop, flag, wg, cycleVars, checkVars>>

-----------------------------------------------------------------------------
(* A cycle goroutine *)

shouldRunMonitor(m) ==
  \/ lastChecked[m] = None
  \/ now >= lastChecked[m] + Interval[m]

CycleStep(k, from, to) ==
  /\ cycle[k] = from
  /\ cycle' = [cycle EXCEPT ![k] = to]

\* runChecks reads the monitors and keeps the due ones; under a done
\* context the read fails and runChecks returns.  The read can fail anyway.
Fetch(k) ==
  /\ \/ /\ ~cancelled
        /\ CycleStep(k, "fetch", "spawn")
        /\ due' = [due EXCEPT ![k] = {m \in Monitors : shouldRunMonitor(m)}]
        /\ UNCHANGED began
     \/ /\ CycleStep(k, "fetch", "upkeep")
        /\ began' = [began EXCEPT ![k] = 0]
        /\ UNCHANGED due
  /\ UNCHANGED <<now, nextTick, tick, cancelled, loop, flag, wg, checkVars>>

\* One iteration of the loop that spawns the checks.
Spawn(k, c, m) ==
  /\ cycle[k] = "spawn" /\ m \in due[k]
  /\ check[c] = "unused" /\ c = CHOOSE d \in Checks : check[d] = "unused"
  /\ due' = [due EXCEPT ![k] = @ \ {m}]
  /\ WgAdd
  /\ check' = [check EXCEPT ![c] = "probe"]
  /\ spawned' = [spawned EXCEPT ![c] = now]
  /\ mon' = [mon EXCEPT ![c] = m]
  /\ UNCHANGED <<now, nextTick, tick, cancelled, loop, flag, cycle, began, lastChecked>>

EndSpawn(k) ==
  /\ CycleStep(k, "spawn", "upkeep") /\ due[k] = {}
  /\ began' = [began EXCEPT ![k] = 0]
  /\ UNCHANGED <<now, nextTick, tick, cancelled, loop, flag, wg, due, checkVars>>

\* updateMaintenanceStatus and pruneExpiredUnverifiedSubscribers write
\* collections this module does not hold (Maintenance, Subscribers).
Upkeep(k) ==
  /\ CycleStep(k, "upkeep", "clear")
  /\ UNCHANGED <<now, nextTick, tick, cancelled, loop, flag, wg, began, due, checkVars>>

\* Deferred calls run last-in first-out: the flag is cleared first ...
ClearFlag(k) ==
  /\ CycleStep(k, "clear", "exit")
  /\ flag' = FALSE
  /\ UNCHANGED <<now, nextTick, tick, cancelled, loop, wg, began, due, checkVars>>

\* ... and workerWG.Done follows.
CycleDone(k) ==
  /\ CycleStep(k, "exit", "gone")
  /\ WgDone
  /\ UNCHANGED <<now, nextTick, tick, cancelled, loop, flag, began, due, checkVars>>

-----------------------------------------------------------------------------
(* A check goroutine, as far as the scheduling is concerned: the probe ends *)
(* and lastCheckedAt is written, then the rest of checkMonitor runs.        *)

Record(c) ==
  /\ check[c] = "probe"
  /\ check' = [check EXCEPT ![c] = "detect"]
  /\ \/ ~cancelled /\ lastChecked' = [lastChecked EXCEPT ![mon[c]] = now]
     \/ (cancelled \/ LostWrites) /\ UNCHANGED lastChecked
  /\ UNCHANGED <<now, nextTick, tick, cancelled, loop, flag, wg, cycleVars, spawned, mon>>

CheckDone(c) ==
  /\ check[c] = "detect"
  /\ check' = [check EXCEPT ![c] = "gone"]
  /\ mon' = [mon EXCEPT ![c] = None]
  /\ spawned' = [spawned EXCEPT ![c] = 0]
  /\ WgDone
  /\ UNCHANGED <<now, nextTick, tick, cancelled, loop, flag, cycleVars,
                 lastChecked>>

-----------------------------------------------------------------------------
LoopNext == SkipTick \/ BeginDrain \/ Return \/ \E k \in Cycles : StartCycle(k)

CycleNext(k) ==
  \/ Fetch(k) \/ EndSpawn(k) \/ Upkeep(k) \/ ClearFlag(k) \/ CycleDone(k)
  \/ \E c \in Checks, m \in Monitors : Spawn(k, c, m)

CheckNext(c) == Record(c) \/ CheckDone(c)

\* Every step of the worker except the cancellation, which comes from
\* outside.
WorkerStep ==
  \/ Advance \/ LoopNext
  \/ \E k \in Cycles : CycleNext(k)
  \/ \E c \in Checks : CheckNext(c)

Next == WorkerStep \/ StopWorker

Spec == Init /\ [][Next]_vars

-----------------------------------------------------------------------------
(* Properties *)

\* The compare-and-swap and the order of the deferred calls: no two cycle
\* goroutines are ever both between their start and the clearing of the flag,
\* and while one is, the flag is set.
OneCycleAtATime ==
  /\ \A j, k \in Cycles : InBody(j) /\ InBody(k) => j = k
  /\ \A k \in Cycles : InBody(k) => flag

\* The WaitGroup counts exactly the goroutines that are alive.
WaitGroupExact == wg = Cardinality(LiveCycles) + Cardinality(LiveChecks)

\* When StartWorker has returned, no cycle and no check is left running, so
\* nothing of the worker touches the database any more.
ReturnedMeansQuiet == loop = "returned" => LiveCycles = {} /\ LiveChecks = {}

\* The documented misuse of a WaitGroup: Add from zero while a Wait may be in
\* progress.  The counter never leaves zero once the loop has begun to drain.
NoAddDuringWait == [][loop # "select" /\ wg = 0 => wg' = 0]_vars

\* Two checks of one monitor never run at the same time.  runChecks does not
\* wait for its checks and lastCheckedAt is written only at the end of a
\* probe, so this holds because a fetch and a check together are shorter than
\* the ticker's period, not because of the compare-and-swap.
NoOverlappingChecks ==
  \A c, d \in LiveChecks : mon[c] = mon[d] => c = d

=============================================================================
