--------------------------- MODULE OutageLifecycle ---------------------------
(***************************************************************************)
(* What outage detection promises, without goroutines or a database: each  *)
(* monitor has a run of failures and is or is not in an outage; an outage  *)
(* opens on a run of Threshold failures and closes on a success, one at a  *)
(* time and in turn.                                                       *)
(***************************************************************************)
EXTENDS Naturals

CONSTANTS Monitors, Threshold

VARIABLES
  streak,  \* failures since the last success, capped at Threshold
  out      \* monitors in an outage

vars == <<streak, out>>

Init ==
  /\ streak \in [Monitors -> 0 .. Threshold]
  /\ out = {}

Fail(m) ==
  /\ streak' = [streak EXCEPT ![m] = IF @ < Threshold THEN @ + 1 ELSE @]
  /\ UNCHANGED out

Succeed(m) ==
  /\ streak' = [streak EXCEPT ![m] = 0]
  /\ UNCHANGED out

Open(m) ==
  /\ m \notin out /\ streak[m] = Threshold
  /\ out' = out \cup {m}
  /\ UNCHANGED streak

Close(m) ==
  /\ m \in out /\ streak[m] = 0
  /\ out' = out \ {m}
  /\ UNCHANGED streak

Next == \E m \in Monitors : Fail(m) \/ Succeed(m) \/ Open(m) \/ Close(m)

Steps == Init /\ [][Next]_vars

\* An outage that should open or close does, unless the next result changes
\* that first.
Spec ==
  /\ Steps
  /\ \A m \in Monitors : WF_vars(Open(m)) /\ WF_vars(Close(m))

=============================================================================
