--------------------------- MODULE TaskLifecycle ---------------------------
(***************************************************************************)
(* What the runtime promises about every unit of scheduled work, whatever  *)
(* the scheduler does to get there: the state machine of                   *)
(* agent-core/src/state.rs (TaskState), written there as a table that      *)
(* `can_transition` answers from.  Nothing in the scheduler consults the   *)
(* table except `pause`; module Scheduler is checked against it.           *)
(*                                                                         *)
(* One command may move several tasks at once (a failed dependency takes   *)
(* everything waiting on it along), so a step of this specification moves  *)
(* any number of tasks, each along one edge of the table.                  *)
(***************************************************************************)
CONSTANT Task

VARIABLE state

Terminal == {"Completed", "Failed", "Cancelled"}

\* "Absent" is a task the scheduler has never been given.
TaskState == {"Pending", "Running", "Waiting", "Paused"} \cup Terminal

\* The edges that are not an early end.
Progress ==
  { <<"Pending", "Running">>, <<"Running", "Waiting">>, <<"Waiting", "Running">>,
    <<"Running", "Completed">>, <<"Pending", "Paused">>, <<"Waiting", "Paused">>,
    <<"Paused", "Pending">> }

CanTransition(from, to) ==
  /\ from \notin Terminal
  /\ to \in {"Cancelled", "Failed"} \/ <<from, to>> \in Progress

\* A submission is accepted as Pending, or has already failed on a
\* dependency that cannot complete by the time the caller is answered.
CanEnter(to) == to \in {"Pending", "Failed"}

TypeOK == state \in [Task -> TaskState \cup {"Absent"}]

Init == state = [t \in Task |-> "Absent"]

Move(t) ==
  \/ state'[t] = state[t]
  \/ state[t] = "Absent" /\ CanEnter(state'[t])
  \/ state[t] # "Absent" /\ CanTransition(state[t], state'[t])

Next ==
  /\ state' \in [Task -> TaskState \cup {"Absent"}]
  /\ \A t \in Task : Move(t)

Spec == Init /\ [][Next]_state
============================================================================
