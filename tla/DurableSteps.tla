---------------------------- MODULE DurableSteps ----------------------------
(***************************************************************************)
(* What the automation promises about a run, whatever happens to the       *)
(* process: its steps are attempted in the order of the definition, none   *)
(* before the gates it needs have been opened by a person or an event,     *)
(* none that has succeeded, and nothing once the run is over.  A step may  *)
(* be attempted many times, since the process can die during one.          *)
(*                                                                         *)
(* Module AutomationRuns is shown to implement it.                         *)
(***************************************************************************)
EXTENDS Naturals

CONSTANTS
  Run, Step,  \* Step is a set of numbers, in the order of the definition
  Optional,   \* steps a run may go past without their success
  Needs       \* the gates of each step: some of "event" and "approval"

VARIABLES
  phase,   \* of each run: "absent", "live", "over"
  opened,  \* gates, as pairs of a step and what opened it
  tries,   \* how often each step was attempted
  done     \* the steps that have succeeded

vars == <<phase, opened, tries, done>>

Gates == {gate \in Step \X {"event", "approval"} : gate[2] \in Needs[gate[1]]}

Init ==
  /\ phase = [r \in Run |-> "absent"]
  /\ opened = [r \in Run |-> {}]
  /\ tries = [r \in Run |-> [s \in Step |-> 0]]
  /\ done = [r \in Run |-> {}]

Begin(r) ==
  /\ phase[r] = "absent"
  /\ phase' = [phase EXCEPT ![r] = "live"]
  /\ UNCHANGED <<opened, tries, done>>

\* An answer may come too late to matter.
Open(r, g) ==
  /\ phase[r] # "absent" /\ g \notin opened[r]
  /\ opened' = [opened EXCEPT ![r] = @ \cup {g}]
  /\ UNCHANGED <<phase, tries, done>>

\* It is the turn of a step when everything before it is behind the run.
InTurn(r, s) ==
  /\ s \notin done[r]
  /\ \A g \in Needs[s] : <<s, g>> \in opened[r]
  /\ \A t \in Step : t < s => t \in done[r] \cup Optional

Attempt(r, s) ==
  /\ phase[r] = "live" /\ InTurn(r, s)
  /\ tries' = [tries EXCEPT ![r][s] = @ + 1]
  /\ UNCHANGED <<phase, opened, done>>

Succeed(r, s) ==
  /\ phase[r] = "live" /\ s \notin done[r] /\ tries[r][s] > 0
  /\ done' = [done EXCEPT ![r] = @ \cup {s}]
  /\ UNCHANGED <<phase, opened, tries>>

End(r) ==
  /\ phase[r] = "live"
  /\ phase' = [phase EXCEPT ![r] = "over"]
  /\ UNCHANGED <<opened, tries, done>>

Next ==
  \E r \in Run :
    \/ Begin(r) \/ End(r)
    \/ \E g \in Gates : Open(r, g)
    \/ \E s \in Step : Attempt(r, s) \/ Succeed(r, s)

Spec == Init /\ [][Next]_vars
=============================================================================
