--------------------------- MODULE ServerLifecycle ---------------------------
(***************************************************************************)
(* RunServer of internal/server/server.go and the signal handler of        *)
(* internal/server/signals.go around the worker of WorkerLoop.             *)
(*                                                                         *)
(* r.Run serves until the process ends: nothing closes its listener, so    *)
(* the code after it, which waits for the context and stops the worker, is *)
(* reached by no behaviour and is not part of Next.  The worker is         *)
(* cancelled by the signal handler, through the context it was given.      *)
(***************************************************************************)
EXTENDS WorkerLoop

CONSTANT Timeouts  \* values SHUTDOWN_TIMEOUT may have, in units of the clock

ASSUME LifecycleAssumption == Timeouts \subseteq Nat

VARIABLES
  timeout,  \* SHUTDOWN_TIMEOUT of this process
  proc,     \* the process: "running", "killed" by a signal, "exit1"
  handler,  \* the goroutine of SetupShutdownSignalHandler
  deadline  \* when its timer fires

server == <<timeout, proc, handler, deadline>>
lifeVars == <<vars, server>>

LifeTypeOK ==
  /\ TypeOK
  /\ timeout \in Timeouts
  /\ proc \in {"running", "killed", "exit1"}
  /\ handler \in {"none", "waiting", "timing", "over"}
  /\ deadline \in Nat
  /\ handler \in {"timing", "over"} => cancelled

\* GRACEFUL_SHUTDOWN decides whether there is a handler.
LifeInit ==
  /\ Init
  /\ timeout \in Timeouts
  /\ proc = "running" /\ deadline = 0
  /\ handler \in {"waiting", "none"}

\* Faulty variants: a handler that does not cancel, and one that exits at once.
ForgetCancel ==
  /\ handler = "waiting" /\ now + timeout <= MaxTime
  /\ handler' = IF timeout > 0 THEN "timing" ELSE "over"
  /\ deadline' = now + timeout
  /\ UNCHANGED <<vars, timeout, proc>>
ExitAtOnce ==
  /\ handler = "timing"
  /\ proc' = "exit1" /\ handler' = "over"
  /\ UNCHANGED <<vars, timeout, deadline>>

\* SIGINT or SIGTERM when nothing asked to be notified of it.
Killed ==
  /\ proc = "running" /\ handler = "none"
  /\ proc' = "killed"
  /\ UNCHANGED <<vars, timeout, handler, deadline>>

\* The handler receives the first signal: it cancels the context and, with a
\* timeout, starts its timer.  A later signal stays in the channel.  (MaxTime
\* leaves room for the timer to fire.)
HandleSignal ==
  /\ handler = "waiting" /\ now + timeout <= MaxTime
  /\ StopWorker
  /\ handler' = IF timeout > 0 THEN "timing" ELSE "over"
  /\ deadline' = now + timeout
  /\ UNCHANGED <<timeout, proc>>

\* The timer fires: os.Exit(1), whatever the worker has done meanwhile.
ForceExit ==
  /\ handler = "timing" /\ now >= deadline
  /\ proc' = "exit1" /\ handler' = "over"
  /\ UNCHANGED <<vars, timeout, deadline>>

\* The worker and the clock; the clock stops at a timer that is due.
Work ==
  /\ proc = "running"
  /\ WorkerStep
  /\ handler = "timing" /\ now >= deadline => now' = now
  /\ UNCHANGED server

LifeNext == (proc = "running" /\ (Killed \/ HandleSignal \/ ForceExit)) \/ Work

LifeSpec == LifeInit /\ [][LifeNext]_lifeVars

\* The clock goes on and a due timer fires.  Goroutines that can run do run (the
\* Go scheduler), every probe ends (each has a timeout), and a select with a
\* ready Done case does not pass it over for ever (Go chooses among ready cases
\* at random).  Nobody is obliged to send a signal.
LifeFairSpec ==
  /\ LifeSpec
  /\ WF_lifeVars(proc = "running" /\ ForceExit)
  /\ WF_lifeVars(Work /\ Advance)
  /\ WF_lifeVars(Work /\ BeginDrain) /\ WF_lifeVars(Work /\ Return)
  /\ \A k \in Cycles : WF_lifeVars(Work /\ CycleNext(k))
  /\ \A c \in Checks : WF_lifeVars(Work /\ CheckNext(c))

-----------------------------------------------------------------------------
(* Properties *)

\* No check is cut off by the exit between two of its writes.  Nobody waits
\* for the checks before os.Exit, so this needs a timeout longer than a fetch
\* and a check together.
NoCheckCutOff == proc = "exit1" => LiveChecks = {}

\* A signal is seen through: with a timeout the process ends, and with none,
\* when nothing ends the process, the worker at least drains and returns.
ShutdownCompletes ==
  handler \in {"timing", "over"}
    ~> IF timeout > 0 THEN proc = "exit1" ELSE loop = "returned"

\* "Force exit after timeout (safety net)": a worker that has shut down in
\* time needs no forced exit.
ForcedOnlyWhenStuck == [][proc' = "exit1" /\ proc # "exit1" => loop # "returned"]_lifeVars

=============================================================================
