----------------------- MODULE ServerLifecycle_proofs -----------------------
(***************************************************************************)
(* Proofs about WorkerLoop, for every number of monitors, cycles and       *)
(* checks and every choice of the timing constants, and on top of them     *)
(* those about ServerLifecycle, which composes the worker with the server. *)
(***************************************************************************)
EXTENDS ServerLifecycle, FiniteSetTheorems, TLAPS

-----------------------------------------------------------------------------
(* The worker by itself *)

USE DEF WgAdd, WgDone, CompareAndSwap, WithinTimeouts

(***************************************************************************)
(* The invariant behind WaitGroupExact and the type of wg: TypeOK alone    *)
(* does not show that workerWG.Done never takes the counter below zero;    *)
(* that follows only from the counter being the number of goroutines.      *)
(***************************************************************************)
CountInv == TypeOK /\ WaitGroupExact

LEMMA LiveFinite ==
  /\ IsFiniteSet(LiveCycles) /\ Cardinality(LiveCycles) \in Nat
  /\ IsFiniteSet(LiveChecks) /\ Cardinality(LiveChecks) \in Nat
  /\ IsFiniteSet(LiveCycles') /\ IsFiniteSet(LiveChecks')
<1>1. IsFiniteSet(Cycles) /\ IsFiniteSet(Checks)
  BY WorkerAssumption
<1>2. /\ LiveCycles \subseteq Cycles /\ LiveChecks \subseteq Checks
      /\ LiveCycles' \subseteq Cycles /\ LiveChecks' \subseteq Checks
  BY DEF LiveCycles, LiveChecks
<1>3. QED
  BY <1>1, <1>2, FS_Subset, FS_CardinalityType

\* What a step does to the sets of live goroutines, for a step that starts or
\* ends one and for a step that does neither.
LEMMA OneStarts ==
  ASSUME NEW S, NEW T, NEW x, IsFiniteSet(S), x \notin S, T = S \cup {x}
  PROVE  Cardinality(T) = Cardinality(S) + 1
BY FS_AddElement

LEMMA OneEnds ==
  ASSUME NEW S, NEW T, NEW x, IsFiniteSet(S), x \in S, T = S \ {x}
  PROVE  Cardinality(T) = Cardinality(S) - 1 /\ Cardinality(S) > 0
<1>1. Cardinality(T) = Cardinality(S) - 1
  BY FS_RemoveElement
<1>2. IsFiniteSet(T)
  BY FS_RemoveElement
<1>3. Cardinality(T) \in Nat /\ Cardinality(S) \in Nat
  BY <1>2, FS_CardinalityType
<1>4. QED
  BY <1>1, <1>3

LEMMA CountInit == Init => CountInv
<1> SUFFICES ASSUME Init PROVE CountInv
  OBVIOUS
<1>1. TypeOK
  <2>1. lastChecked \in [Monitors -> Nat \cup {None}]
    BY DEF Init
  <2>2. nextTick \in Nat
    BY WorkerAssumption DEF Init
  <2>3. tick \in BOOLEAN /\ cancelled \in BOOLEAN /\ flag \in BOOLEAN
    BY Zenon DEF Init
  <2>4. QED
    BY <2>1, <2>2, <2>3 DEF Init, TypeOK, CyclePC, CheckPC
<1>2. LiveCycles = {} /\ LiveChecks = {}
  BY DEF Init, LiveCycles, LiveChecks
<1>3. Cardinality({}) = 0
  BY FS_EmptySet
<1>4. QED
  BY <1>1, <1>2, <1>3 DEF CountInv, WaitGroupExact, Init

LEMMA CountNext == CountInv /\ [Next]_vars => CountInv'
<1> SUFFICES ASSUME CountInv, [Next]_vars PROVE CountInv'
  OBVIOUS
<1> USE DEF CountInv
<1>a. /\ IsFiniteSet(LiveCycles) /\ Cardinality(LiveCycles) \in Nat
      /\ IsFiniteSet(LiveChecks) /\ Cardinality(LiveChecks) \in Nat
  BY LiveFinite
\* A step that leaves both program counters and wg alone.
<1>b. ASSUME UNCHANGED <<cycle, check, wg>>
      PROVE  WaitGroupExact'
  <2>1. LiveCycles' = LiveCycles /\ LiveChecks' = LiveChecks
    BY <1>b DEF LiveCycles, LiveChecks
  <2>2. QED BY <2>1, <1>b DEF WaitGroupExact
\* A cycle goroutine moves from one live program counter to another.
<1>c. ASSUME NEW k \in Cycles, NEW from, NEW to, CycleStep(k, from, to),
             from \notin {"unused", "gone"}, to \notin {"unused", "gone"},
             UNCHANGED <<check, wg>>
      PROVE  WaitGroupExact'
  <2>1. LiveCycles' = LiveCycles /\ LiveChecks' = LiveChecks
    BY <1>c DEF LiveCycles, LiveChecks, CycleStep, TypeOK
  <2>2. QED BY <2>1, <1>c DEF WaitGroupExact
<1>1. CASE Advance
  <2>0. tick' \in BOOLEAN
    BY <1>1 DEF Advance, TypeOK
  <2>a. now' \in Nat /\ nextTick' \in Nat
    BY <1>1, WorkerAssumption DEF Advance, TypeOK
  <2>1. TypeOK'
    BY <2>0, <2>a, <1>1 DEF Advance, TypeOK, cycleVars, checkVars
  <2>2. QED BY <2>1, <1>1, <1>b DEF Advance, cycleVars, checkVars
<1>2. CASE SkipTick \/ BeginDrain \/ Return \/ StopWorker
  <2>1. TypeOK'
    BY <1>2 DEF SkipTick, BeginDrain, Return, StopWorker, TypeOK, cycleVars, checkVars
  <2>2. QED
    BY <2>1, <1>2, <1>b DEF SkipTick, BeginDrain, Return, StopWorker, cycleVars, checkVars
<1>3. ASSUME NEW k \in Cycles, StartCycle(k)
      PROVE  CountInv'
  <2>0. tick' \in BOOLEAN /\ flag' \in BOOLEAN
    BY <1>3, Zenon DEF StartCycle
  <2>1. TypeOK'
    BY <2>0, <1>3 DEF StartCycle, TypeOK, CyclePC, checkVars
  <2>2. k \notin LiveCycles /\ LiveCycles' = LiveCycles \cup {k}
        /\ LiveChecks' = LiveChecks
    BY <1>3 DEF StartCycle, LiveCycles, LiveChecks, TypeOK, checkVars
  <2>3. Cardinality(LiveCycles') = Cardinality(LiveCycles) + 1
    BY <2>2, <1>a, OneStarts
  <2>4. QED
    BY <2>1, <2>2, <2>3, <1>a, <1>3 DEF WaitGroupExact, StartCycle
<1>4. ASSUME NEW k \in Cycles, Fetch(k)
      PROVE  CountInv'
  <2>1. TypeOK'
    BY <1>4 DEF Fetch, CycleStep, TypeOK, CyclePC, checkVars
  <2>2. QED
    BY <2>1, <1>4, <1>c DEF Fetch, checkVars
<1>5. ASSUME NEW k \in Cycles, EndSpawn(k) \/ Upkeep(k) \/ ClearFlag(k)
      PROVE  CountInv'
  <2>0. flag' \in BOOLEAN
    BY <1>5, Zenon DEF EndSpawn, Upkeep, ClearFlag, TypeOK
  <2>1. TypeOK'
    BY <2>0, <1>5 DEF EndSpawn, Upkeep, ClearFlag, CycleStep, TypeOK, CyclePC, checkVars
  <2>2. QED
    BY <2>1, <1>5, <1>c DEF EndSpawn, Upkeep, ClearFlag, checkVars
<1>6. ASSUME NEW k \in Cycles, CycleDone(k)
      PROVE  CountInv'
  <2>1. k \in LiveCycles /\ LiveCycles' = LiveCycles \ {k}
        /\ LiveChecks' = LiveChecks
    BY <1>6 DEF CycleDone, CycleStep, LiveCycles, LiveChecks, TypeOK, checkVars
  <2>2. Cardinality(LiveCycles') = Cardinality(LiveCycles) - 1
        /\ Cardinality(LiveCycles) > 0
    BY <2>1, <1>a, OneEnds
  <2>3. wg' \in Nat
    BY <2>2, <1>a, <1>6 DEF WaitGroupExact, CycleDone
  <2>4. TypeOK'
    BY <2>3, <1>6 DEF CycleDone, CycleStep, TypeOK, CyclePC, checkVars
  <2>5. QED
    BY <2>1, <2>2, <2>4, <1>a, <1>6 DEF WaitGroupExact, CycleDone
<1>7. ASSUME NEW k \in Cycles, NEW c \in Checks, NEW m \in Monitors,
             Spawn(k, c, m)
      PROVE  CountInv'
  <2>1. TypeOK'
    BY <1>7 DEF Spawn, TypeOK, CheckPC
  <2>2. c \notin LiveChecks /\ LiveChecks' = LiveChecks \cup {c}
        /\ LiveCycles' = LiveCycles
    BY <1>7 DEF Spawn, LiveCycles, LiveChecks, TypeOK
  <2>3. Cardinality(LiveChecks') = Cardinality(LiveChecks) + 1
    BY <2>2, <1>a, OneStarts
  <2>4. QED
    BY <2>1, <2>2, <2>3, <1>a, <1>7 DEF WaitGroupExact, Spawn
<1>8. ASSUME NEW c \in Checks, Record(c)
      PROVE  CountInv'
  <2>1. mon[c] \in Monitors => TypeOK'
    BY <1>8 DEF Record, TypeOK, CheckPC, cycleVars
  <2>2. mon[c] \notin Monitors => TypeOK'
    BY <1>8 DEF Record, TypeOK, CheckPC, cycleVars
  <2>3. LiveChecks' = LiveChecks /\ LiveCycles' = LiveCycles
    BY <1>8 DEF Record, LiveCycles, LiveChecks, TypeOK, cycleVars
  <2>4. QED
    BY <2>1, <2>2, <2>3, <1>8 DEF WaitGroupExact, Record
<1>9. ASSUME NEW c \in Checks, CheckDone(c)
      PROVE  CountInv'
  <2>1. c \in LiveChecks /\ LiveChecks' = LiveChecks \ {c}
        /\ LiveCycles' = LiveCycles
    BY <1>9 DEF CheckDone, LiveCycles, LiveChecks, TypeOK, cycleVars
  <2>2. Cardinality(LiveChecks') = Cardinality(LiveChecks) - 1
        /\ Cardinality(LiveChecks) > 0
    BY <2>1, <1>a, OneEnds
  <2>3. wg' \in Nat
    BY <2>2, <1>a, <1>9 DEF WaitGroupExact, CheckDone
  <2>4. TypeOK'
    BY <2>3, <1>9 DEF CheckDone, TypeOK, CheckPC, cycleVars
  <2>5. QED
    BY <2>1, <2>2, <2>4, <1>a, <1>9 DEF WaitGroupExact, CheckDone
<1>10. CASE UNCHANGED vars
  <2>1. TypeOK'
    BY <1>10 DEF vars, TypeOK, cycleVars, checkVars
  <2>2. QED
    BY <2>1, <1>10, <1>b DEF vars, cycleVars, checkVars
<1>11. QED
  BY <1>1, <1>2, <1>3, <1>4, <1>5, <1>6, <1>7, <1>8, <1>9, <1>10
  DEF Next, WorkerStep, LoopNext, CycleNext, CheckNext

\* Every variable keeps its type; in particular workerWG never goes negative,
\* which in Go is a panic.
THEOREM TypeCorrect == Spec => []TypeOK
<1>1. CountInv => TypeOK
  BY DEF CountInv
<1>2. QED
  BY CountInit, CountNext, <1>1, PTL DEF Spec

\* workerWG counts exactly the goroutines that are alive, so workerWG.Wait
\* waits for all of them and for nothing else.
THEOREM WaitGroupCorrect == Spec => []WaitGroupExact
<1>1. CountInv => WaitGroupExact
  BY DEF CountInv
<1>2. QED
  BY CountInit, CountNext, <1>1, PTL DEF Spec

-----------------------------------------------------------------------------
(***************************************************************************)
(* Draining.  Once the loop has left its select no new cycle starts, and a *)
(* spawn needs a cycle that is itself counted, so the counter can only     *)
(* stay at zero when it gets there.                                        *)
(***************************************************************************)
LEMMA ZeroStaysZero ==
  ASSUME CountInv, [Next]_vars, loop # "select", wg = 0
  PROVE  wg' = 0
<1>1. LiveCycles = {} /\ LiveChecks = {}
  <2>1. Cardinality(LiveCycles) = 0 /\ Cardinality(LiveChecks) = 0
    BY LiveFinite DEF CountInv, WaitGroupExact
  <2>2. QED
    BY <2>1, LiveFinite, FS_EmptySet
<1>2. \A k \in Cycles : cycle[k] \in {"unused", "gone"}
  BY <1>1 DEF LiveCycles
<1>3. \A c \in Checks : check[c] \in {"unused", "gone"}
  BY <1>1 DEF LiveChecks
<1>4. CASE Advance \/ SkipTick \/ BeginDrain \/ Return \/ StopWorker \/ UNCHANGED vars
  BY <1>4 DEF Advance, SkipTick, BeginDrain, Return, StopWorker, vars
<1>5. ASSUME NEW k \in Cycles, StartCycle(k) PROVE FALSE
  BY <1>5 DEF StartCycle
<1>6. ASSUME NEW k \in Cycles, CycleNext(k) PROVE FALSE
  BY <1>2, <1>6
  DEF CycleNext, Fetch, EndSpawn, Upkeep, ClearFlag, CycleDone, Spawn, CycleStep
<1>7. ASSUME NEW c \in Checks, CheckNext(c) PROVE FALSE
  BY <1>3, <1>7 DEF CheckNext, Record, CheckDone
<1>8. QED
  BY <1>4, <1>5, <1>6, <1>7 DEF Next, WorkerStep, LoopNext

\* workerWG.Add is never called from zero while StartWorker may be waiting.
THEOREM NoLateAdd == Spec => NoAddDuringWait
<1>1. CountInv /\ [Next]_vars => [loop # "select" /\ wg = 0 => wg' = 0]_vars
  BY ZeroStaysZero
<1>2. QED
  BY <1>1, CountInit, CountNext, PTL DEF Spec, NoAddDuringWait

QuietInv == CountInv /\ (loop = "returned" => wg = 0)

\* StartWorker returns only when no goroutine of the worker is left, and none
\* appears afterwards.
THEOREM QuietAfterReturn == Spec => []ReturnedMeansQuiet
<1>1. Init => QuietInv
  BY CountInit DEF QuietInv, Init
<1>2. QuietInv /\ [Next]_vars => QuietInv'
  <2> SUFFICES ASSUME QuietInv, [Next]_vars, loop' = "returned" PROVE wg' = 0
    BY CountNext DEF QuietInv
  <2>1. CASE loop = "returned"
    BY <2>1, ZeroStaysZero DEF QuietInv
  <2>2. CASE loop # "returned"
    <3>1. Return
      BY <2>2 DEF Next, WorkerStep, LoopNext, CycleNext, CheckNext, Advance,
        SkipTick, BeginDrain, StartCycle, StopWorker, Fetch, EndSpawn, Upkeep,
        ClearFlag, CycleDone, Spawn, Record, CheckDone, vars
    <3>2. QED BY <3>1 DEF Return
  <2>3. QED BY <2>1, <2>2
<1>3. QuietInv => ReturnedMeansQuiet
  <2> SUFFICES ASSUME QuietInv, loop = "returned"
               PROVE  LiveCycles = {} /\ LiveChecks = {}
    BY DEF ReturnedMeansQuiet
  <2>1. Cardinality(LiveCycles) = 0 /\ Cardinality(LiveChecks) = 0
    BY LiveFinite DEF QuietInv, CountInv, WaitGroupExact
  <2>2. QED
    BY <2>1, LiveFinite, FS_EmptySet
<1>4. QED
  BY <1>1, <1>2, <1>3, PTL DEF Spec

-----------------------------------------------------------------------------
(***************************************************************************)
(* The compare-and-swap.                                                   *)
(***************************************************************************)
CycleInv == TypeOK /\ OneCycleAtATime

LEMMA CycleInvNext == TypeOK /\ OneCycleAtATime /\ [Next]_vars => OneCycleAtATime'
<1> SUFFICES ASSUME TypeOK, OneCycleAtATime, [Next]_vars PROVE OneCycleAtATime'
  OBVIOUS
<1> USE DEF OneCycleAtATime, InBody
<1>1. CASE UNCHANGED <<cycle, flag>>
  BY <1>1
<1>2. ASSUME NEW k \in Cycles, StartCycle(k) PROVE OneCycleAtATime'
  BY <1>2 DEF StartCycle, TypeOK
<1>3. ASSUME NEW k \in Cycles, Fetch(k) \/ EndSpawn(k) \/ Upkeep(k)
      PROVE  OneCycleAtATime'
  <2>1. /\ InBody(k) /\ flag' = flag
        /\ \A j \in Cycles \ {k} : cycle'[j] = cycle[j]
    BY <1>3 DEF Fetch, EndSpawn, Upkeep, CycleStep, TypeOK
  <2>2. \A j \in Cycles \ {k} : ~InBody(j)
    BY <2>1
  <2>3. \A j \in Cycles : InBody(j)' => j = k
    BY <2>1, <2>2
  <2>4. QED BY <2>1, <2>3
<1>4. ASSUME NEW k \in Cycles, ClearFlag(k) PROVE OneCycleAtATime'
  <2>1. cycle'[k] = "exit" /\ \A j \in Cycles \ {k} : cycle'[j] = cycle[j]
    BY <1>4 DEF ClearFlag, CycleStep, TypeOK
  <2>2. \A j \in Cycles \ {k} : ~InBody(j)
    BY <1>4 DEF ClearFlag, CycleStep
  <2>3. QED BY <2>1, <2>2
<1>5. ASSUME NEW k \in Cycles, CycleDone(k) PROVE OneCycleAtATime'
  BY <1>5 DEF CycleDone, CycleStep, TypeOK
<1>6. CASE Advance \/ SkipTick \/ BeginDrain \/ Return \/ StopWorker \/ UNCHANGED vars
  BY <1>6, <1>1
  DEF Advance, SkipTick, BeginDrain, Return, StopWorker, vars, cycleVars
<1>7. ASSUME NEW k \in Cycles, NEW c \in Checks, NEW m \in Monitors,
             Spawn(k, c, m)
      PROVE  OneCycleAtATime'
  BY <1>7, <1>1 DEF Spawn
<1>8. ASSUME NEW c \in Checks, CheckNext(c) PROVE OneCycleAtATime'
  BY <1>8, <1>1 DEF CheckNext, Record, CheckDone, cycleVars
<1> HIDE DEF OneCycleAtATime, InBody
<1>9. QED
  BY <1>2, <1>3, <1>4, <1>5, <1>6, <1>7, <1>8
  DEF Next, WorkerStep, LoopNext, CycleNext

\* At most one cycle goroutine is between its start and the clearing of
\* workerCycleRunning.
THEOREM CompareAndSwapCorrect == Spec => []OneCycleAtATime
<1>1. Init => OneCycleAtATime
  BY DEF Init, OneCycleAtATime, InBody
<1>2. QED
  BY <1>1, CycleInvNext, TypeCorrect, PTL DEF Spec

-----------------------------------------------------------------------------
(***************************************************************************)
(* Real time.  The argument that checks of one monitor do not overlap does *)
(* not use lastCheckedAt at all: when a tick arrives, every cycle of an    *)
(* earlier tick has spawned its checks and every such check has ended, so  *)
(* a cycle always fetches with no check alive and gives each due monitor   *)
(* one check.                                                              *)
(***************************************************************************)
Spawning(k) == cycle[k] \in {"fetch", "spawn"}

TimeInv ==
  /\ now < nextTick
  /\ tick /\ loop = "select" =>
       /\ now + Period = nextTick
       /\ LiveChecks = {}
       /\ \A k \in Cycles : ~Spawning(k)
  /\ \A k \in Cycles : Spawning(k) => /\ began[k] + Period = nextTick
                                      /\ now <= began[k] + MaxFetch
  /\ \A c \in LiveChecks : /\ spawned[c] + Period <= nextTick + MaxFetch
                           /\ now <= spawned[c] + MaxCheck
  /\ \A k \in Cycles : cycle[k] = "fetch" => LiveChecks = {}
  /\ \A k \in Cycles : cycle[k] = "spawn" =>
       \A c \in LiveChecks : mon[c] \notin due[k]

PromptInv == TypeOK /\ OneCycleAtATime /\ TimeInv /\ NoOverlappingChecks

LEMMA PromptNext ==
  ASSUME PromptLoop, MaxFetch + MaxCheck < Period, PromptInv, [Next]_vars
  PROVE  TimeInv' /\ NoOverlappingChecks'
<1> USE DEF PromptInv, TimeInv, NoOverlappingChecks, Spawning, LiveChecks
<1>t. /\ Period \in Nat \ {0} /\ MaxFetch \in Nat /\ MaxCheck \in Nat
      /\ now \in Nat /\ nextTick \in Nat /\ began \in [Cycles -> Nat]
      /\ spawned \in [Checks -> Nat]
  BY WorkerAssumption DEF TypeOK
<1>1. CASE Advance
  <2>1. UNCHANGED <<loop, cycle, began, due, check, spawned, mon>> /\ now' = now + 1
        /\ ~(tick /\ loop = "select")
    BY <1>1 DEF Advance, cycleVars, checkVars
  <2>2. \A k \in Cycles : Spawning(k) => now' <= began[k] + MaxFetch
    BY <1>1, <1>t DEF Advance
  <2>3. \A c \in LiveChecks : now' <= spawned[c] + MaxCheck
    BY <1>1, <1>t DEF Advance
  <2>4. CASE now + 1 = nextTick
    <3>1. nextTick' = nextTick + Period
      BY <1>1, <2>4 DEF Advance
    <3>2. \A k \in Cycles : ~Spawning(k)
      BY <2>2, <2>1, <2>4, <1>t
    <3>3. LiveChecks = {}
      <4> SUFFICES ASSUME NEW c \in LiveChecks PROVE FALSE
        OBVIOUS
      <4>1. now' <= spawned[c] + MaxCheck /\ spawned[c] + Period <= nextTick + MaxFetch
            /\ spawned[c] \in Nat
        BY <2>3, <1>t
      <4>2. QED BY <4>1, <2>1, <2>4, <1>t
    <3>4. QED
      BY <3>1, <3>2, <3>3, <2>1, <2>4, <1>t
  <2>5. CASE now + 1 # nextTick
    <3>1. UNCHANGED <<nextTick, tick>>
      BY <1>1, <2>5 DEF Advance
    <3>2. QED BY <3>1, <2>1, <2>2, <2>3, <2>5, <1>t
  <2>6. QED BY <2>4, <2>5
<1>2. CASE SkipTick \/ BeginDrain \/ Return \/ StopWorker
  BY <1>2, <1>t DEF SkipTick, BeginDrain, Return, StopWorker, cycleVars, checkVars
<1>3. ASSUME NEW k \in Cycles, StartCycle(k)
      PROVE  TimeInv' /\ NoOverlappingChecks'
  <2>1. /\ tick /\ loop = "select" /\ ~tick' /\ UNCHANGED <<loop, now, nextTick, due, check, spawned, mon>>
        /\ cycle' = [cycle EXCEPT ![k] = "fetch"]
        /\ began' = [began EXCEPT ![k] = now]
    BY <1>3 DEF StartCycle, checkVars
  <2>2. \A j \in Cycles : Spawning(j)' => j = k
    BY <2>1 DEF TypeOK
  <2>3. QED
    BY <2>1, <2>2, <1>t DEF TypeOK
<1>4. ASSUME NEW k \in Cycles, Fetch(k)
      PROVE  TimeInv' /\ NoOverlappingChecks'
  <2>1. /\ cycle[k] = "fetch" /\ LiveChecks = {} /\ ~(tick /\ loop = "select")
        /\ UNCHANGED <<loop, now, nextTick, tick, check, spawned, mon>>
    BY <1>4 DEF Fetch, CycleStep, checkVars
  <2>2. \A j \in Cycles \ {k} : cycle'[j] = cycle[j] /\ began'[j] = began[j]
    BY <1>4 DEF Fetch, CycleStep, TypeOK
  <2>3. cycle'[k] = "spawn" => began' = began
    BY <1>4 DEF Fetch, CycleStep, TypeOK
  <2>4. cycle'[k] \in {"spawn", "upkeep"}
    BY <1>4 DEF Fetch, CycleStep, TypeOK
  <2>5. QED BY <2>1, <2>2, <2>3, <2>4, <1>t
<1>5. ASSUME NEW k \in Cycles,
             EndSpawn(k) \/ Upkeep(k) \/ ClearFlag(k) \/ CycleDone(k)
      PROVE  TimeInv' /\ NoOverlappingChecks'
  <2>1. /\ UNCHANGED <<loop, now, nextTick, tick, due, check, spawned, mon>>
        /\ ~Spawning(k)'
        /\ \A j \in Cycles \ {k} : cycle'[j] = cycle[j] /\ began'[j] = began[j]
    BY <1>5 DEF EndSpawn, Upkeep, ClearFlag, CycleDone, CycleStep, checkVars, TypeOK
  <2>2. QED BY <2>1, <1>t
<1>6. ASSUME NEW k \in Cycles, NEW c \in Checks, NEW m \in Monitors, Spawn(k, c, m)
      PROVE  TimeInv' /\ NoOverlappingChecks'
  <2>1. /\ cycle[k] = "spawn" /\ m \in due[k] /\ c \notin LiveChecks
        /\ UNCHANGED <<loop, now, nextTick, tick, cycle, began>>
        /\ ~(tick /\ loop = "select")
        /\ \A d \in Checks \ {c} : /\ check'[d] = check[d] /\ mon'[d] = mon[d]
                                   /\ spawned'[d] = spawned[d]
        /\ check'[c] = "probe" /\ mon'[c] = m /\ spawned'[c] = now
        /\ due'[k] = due[k] \ {m}
    BY <1>6 DEF Spawn, TypeOK
  <2>2. \A j \in Cycles : Spawning(j) => j = k
    BY <2>1 DEF OneCycleAtATime, InBody
  <2>3. LiveChecks' = LiveChecks \cup {c}
    BY <2>1
  <2>4. \A d \in LiveChecks : mon[d] # m
    BY <2>1
  <2>5. NoOverlappingChecks'
    BY <2>1, <2>3, <2>4
  <2>6. TimeInv'
    BY <2>1, <2>2, <2>3, <1>t
  <2>7. QED BY <2>5, <2>6
<1>7. ASSUME NEW c \in Checks, Record(c)
      PROVE  TimeInv' /\ NoOverlappingChecks'
  <2>1. LiveChecks' = LiveChecks
    BY <1>7 DEF Record, TypeOK
  <2>2. UNCHANGED <<loop, now, nextTick, tick, cycle, began, due, spawned, mon>>
    BY <1>7 DEF Record, cycleVars
  <2> HIDE DEF LiveChecks
  <2>3. QED BY <2>1, <2>2
<1>8. ASSUME NEW c \in Checks, CheckDone(c)
      PROVE  TimeInv' /\ NoOverlappingChecks'
  <2>1. LiveChecks' = LiveChecks \ {c}
    BY <1>8 DEF CheckDone, TypeOK
  <2>2. /\ UNCHANGED <<loop, now, nextTick, tick, cycle, began, due>>
        /\ \A d \in Checks \ {c} : spawned'[d] = spawned[d] /\ mon'[d] = mon[d]
    BY <1>8 DEF CheckDone, cycleVars, TypeOK
  <2>3. LiveChecks \subseteq Checks
    OBVIOUS
  <2> HIDE DEF LiveChecks
  <2>4. QED BY <2>1, <2>2, <2>3
<1>9. CASE UNCHANGED vars
  BY <1>9 DEF vars
<1>10. QED
  BY <1>1, <1>2, <1>3, <1>4, <1>5, <1>6, <1>7, <1>8, <1>9
  DEF Next, WorkerStep, LoopNext, CycleNext, CheckNext

\* If the loop is prompt and a fetch and a check together are shorter than
\* the ticker's period, two checks of one monitor never run at the same time.
THEOREM PromptChecksDoNotOverlap ==
  ASSUME PromptLoop, MaxFetch + MaxCheck < Period
  PROVE  Spec => []NoOverlappingChecks
<1>1. Init => TimeInv /\ NoOverlappingChecks
  BY WorkerAssumption DEF Init, TimeInv, NoOverlappingChecks, Spawning, LiveChecks
<1>2. TypeOK /\ OneCycleAtATime /\ TimeInv /\ NoOverlappingChecks /\ [Next]_vars
      => TimeInv' /\ NoOverlappingChecks'
  BY PromptNext DEF PromptInv
<1>3. QED
  BY <1>1, <1>2, TypeCorrect, CompareAndSwapCorrect, PTL DEF Spec

-----------------------------------------------------------------------------
(* The worker inside the server *)

USE WorkerAssumption, LifecycleAssumption

-----------------------------------------------------------------------------
(* The worker keeps its own invariants inside the server *)

LEMMA WorkerInside == [LifeNext]_lifeVars => [Next]_vars
BY DEF LifeNext, Work, Killed, HandleSignal, ForceExit, Next, lifeVars

LifeCount == LifeTypeOK /\ CountInv

LEMMA LifeCountInit == LifeInit => LifeCount
BY CountInit DEF LifeInit, LifeCount, CountInv, LifeTypeOK

LEMMA LifeCountNext == LifeCount /\ [LifeNext]_lifeVars => LifeCount'
<1> SUFFICES ASSUME LifeCount, [LifeNext]_lifeVars PROVE LifeCount'
  OBVIOUS
<1>1. CountInv'
  BY WorkerInside, CountNext DEF LifeCount
<1>2. TypeOK'
  BY <1>1 DEF CountInv
<1> SUFFICES LifeTypeOK'
  BY <1>1 DEF LifeCount
<1>3. CASE Killed
  BY <1>2, <1>3 DEF Killed, LifeCount, LifeTypeOK, vars
<1>4. CASE HandleSignal
  BY <1>2, <1>4 DEF HandleSignal, StopWorker, LifeCount, LifeTypeOK, TypeOK
<1>5. CASE ForceExit
  BY <1>2, <1>5 DEF ForceExit, LifeCount, LifeTypeOK, vars
<1>6. CASE Work
  <2>1. cancelled' = cancelled
    BY <1>6 DEF Work, WorkerStep, Advance, LoopNext, SkipTick, BeginDrain, Return,
       StartCycle, CycleNext, Fetch, EndSpawn, Upkeep, ClearFlag, CycleDone, Spawn,
       CheckNext, Record, CheckDone
  <2> QED BY <1>2, <1>6, <2>1 DEF Work, server, LifeCount, LifeTypeOK
<1>7. CASE UNCHANGED lifeVars
  BY <1>2, <1>7 DEF lifeVars, vars, server, LifeCount, LifeTypeOK
<1> QED BY <1>3, <1>4, <1>5, <1>6, <1>7 DEF LifeNext

\* The types of the composition; in particular the timer runs, and the handler
\* ends, only after the context was cancelled.
THEOREM LifeTypeCorrect == LifeSpec => []LifeTypeOK
<1>1. LifeCount => LifeTypeOK
  BY DEF LifeCount
<1> QED BY <1>1, LifeCountInit, LifeCountNext, PTL DEF LifeSpec

-----------------------------------------------------------------------------
(* No check is cut off when the timeout is longer than a fetch and a check *)

Fetching(k) == cycle[k] \in {"fetch", "spawn"}

\* Every cycle that can still spawn checks was started before the signal, so
\* the last check it spawns ends MaxFetch + MaxCheck after the signal at most.
BudgetInv ==
  /\ \A k \in Cycles : Fetching(k) => began[k] <= now /\ now <= began[k] + MaxFetch
  /\ \A c \in LiveChecks : spawned[c] <= now /\ now <= spawned[c] + MaxCheck
  /\ handler = "timing" =>
       /\ timeout > 0
       /\ \A k \in Cycles : cycle[k] = "spawn" => began[k] + timeout <= deadline
       /\ \A c \in LiveChecks : spawned[c] + timeout <= deadline + MaxFetch
  /\ NoCheckCutOff

LEMMA BudgetWork ==
  ASSUME LifeCount, BudgetInv, Work PROVE BudgetInv'
<1> USE DEF BudgetInv, Fetching, LiveChecks
<1>t. /\ MaxFetch \in Nat /\ MaxCheck \in Nat /\ timeout \in Nat /\ now \in Nat
      /\ deadline \in Nat /\ began \in [Cycles -> Nat] /\ spawned \in [Checks -> Nat]
      /\ cycle \in [Cycles -> CyclePC] /\ check \in [Checks -> CheckPC]
  BY DEF LifeCount, LifeTypeOK, TypeOK
<1>w. /\ proc = "running" /\ WorkerStep /\ UNCHANGED <<timeout, proc, handler, deadline>>
  BY DEF Work, server
<1>c. handler = "timing" => cancelled
  BY DEF LifeCount, LifeTypeOK
<1>x. NoCheckCutOff'
  BY <1>w DEF NoCheckCutOff
<1>1. CASE Advance
  BY <1>1, <1>t, <1>w, <1>x DEF Advance, WithinTimeouts, cycleVars, checkVars
<1>2. CASE SkipTick \/ BeginDrain \/ Return
  BY <1>2, <1>w, <1>x DEF SkipTick, BeginDrain, Return, cycleVars, checkVars
<1>3. ASSUME NEW k \in Cycles, StartCycle(k) PROVE BudgetInv'
  BY <1>3, <1>t, <1>w, <1>x DEF StartCycle, checkVars
<1>4. ASSUME NEW k \in Cycles, Fetch(k) PROVE BudgetInv'
  <2>1. \/ ~cancelled /\ cycle' = [cycle EXCEPT ![k] = "spawn"] /\ began' = began
        \/ cycle' = [cycle EXCEPT ![k] = "upkeep"] /\ began' = [began EXCEPT ![k] = 0]
    BY <1>4 DEF Fetch, CycleStep
  <2>2. cycle[k] = "fetch" /\ UNCHANGED <<now, check, spawned>>
    BY <1>4 DEF Fetch, CycleStep, checkVars
  <2> QED BY <2>1, <2>2, <1>t, <1>w, <1>c, <1>x
<1>5. ASSUME NEW k \in Cycles, EndSpawn(k) \/ Upkeep(k) \/ ClearFlag(k) \/ CycleDone(k)
      PROVE  BudgetInv'
  <2>1. /\ UNCHANGED <<now, check, spawned>>
        /\ \A j \in Cycles : j # k => cycle'[j] = cycle[j] /\ began'[j] = began[j]
        /\ cycle'[k] \notin {"fetch", "spawn"}
    BY <1>5, <1>t DEF EndSpawn, Upkeep, ClearFlag, CycleDone, CycleStep, checkVars
  <2> QED BY <2>1, <1>t, <1>w, <1>x
<1>6. ASSUME NEW k \in Cycles, NEW c \in Checks, NEW m \in Monitors, Spawn(k, c, m)
      PROVE  BudgetInv'
  <2>1. /\ UNCHANGED <<now, cycle, began>> /\ cycle[k] = "spawn"
        /\ \A d \in Checks : d # c => check'[d] = check[d] /\ spawned'[d] = spawned[d]
        /\ spawned'[c] = now
    BY <1>6, <1>t DEF Spawn
  <2> QED BY <2>1, <1>t, <1>w, <1>x
<1>7. ASSUME NEW c \in Checks, Record(c) \/ CheckDone(c) PROVE BudgetInv'
  <2>1. /\ UNCHANGED <<now, cycle, began>> /\ check[c] \in {"probe", "detect"}
        /\ \A d \in Checks : d # c => check'[d] = check[d] /\ spawned'[d] = spawned[d]
        /\ check'[c] \in {"detect", "gone"}
        /\ check'[c] = "detect" => spawned'[c] = spawned[c]
    BY <1>7, <1>t DEF Record, CheckDone, cycleVars
  <2> QED BY <2>1, <1>t, <1>w, <1>x
<1> QED
  BY <1>w, <1>1, <1>2, <1>3, <1>4, <1>5, <1>6, <1>7
  DEF WorkerStep, LoopNext, CycleNext, CheckNext

LEMMA BudgetNext ==
  ASSUME \A t \in Timeouts : t > 0 => MaxFetch + MaxCheck < t
  PROVE  LifeCount /\ BudgetInv /\ [LifeNext]_lifeVars => BudgetInv'
<1> SUFFICES ASSUME LifeCount, BudgetInv, [LifeNext]_lifeVars PROVE BudgetInv'
  OBVIOUS
<1>t. /\ MaxFetch \in Nat /\ MaxCheck \in Nat /\ timeout \in Nat /\ now \in Nat
      /\ deadline \in Nat /\ began \in [Cycles -> Nat] /\ spawned \in [Checks -> Nat]
  BY DEF LifeCount, LifeTypeOK, TypeOK
<1> USE DEF BudgetInv, Fetching, LiveChecks, NoCheckCutOff
<1>1. CASE proc = "running" /\ Killed
  BY <1>1 DEF Killed, vars
<1>2. CASE proc = "running" /\ HandleSignal
  BY <1>2, <1>t DEF HandleSignal, StopWorker, cycleVars, checkVars
<1>3. CASE proc = "running" /\ ForceExit
  <2>1. LiveChecks = {}
    <3> SUFFICES ASSUME NEW c \in LiveChecks PROVE FALSE
      OBVIOUS
    <3>1. spawned[c] \in Nat /\ now <= spawned[c] + MaxCheck
          /\ spawned[c] + timeout <= deadline + MaxFetch /\ now >= deadline
          /\ timeout > 0
      BY <1>3, <1>t DEF ForceExit
    <3>2. MaxFetch + MaxCheck < timeout
      BY <3>1 DEF LifeCount, LifeTypeOK
    <3> QED BY <3>1, <3>2, <1>t
  <2> QED BY <1>3, <2>1 DEF ForceExit, vars
<1>4. CASE UNCHANGED lifeVars
  BY <1>4 DEF lifeVars, vars, server
<1> HIDE DEF BudgetInv
<1> QED BY <1>1, <1>2, <1>3, <1>4, BudgetWork DEF LifeNext

\* os.Exit does not wait for the checks, but with a SHUTDOWN_TIMEOUT longer
\* than the longest fetch and the longest check together it cuts none off.
THEOREM LongTimeoutCutsNothing ==
  ASSUME \A t \in Timeouts : t > 0 => MaxFetch + MaxCheck < t
  PROVE  LifeSpec => []NoCheckCutOff
<1>1. LifeInit => BudgetInv
  BY DEF LifeInit, Init, BudgetInv, Fetching, LiveChecks, NoCheckCutOff
<1>2. BudgetInv => NoCheckCutOff
  BY DEF BudgetInv
<1> QED BY <1>1, <1>2, LifeCountInit, LifeCountNext, BudgetNext, PTL DEF LifeSpec

=============================================================================
