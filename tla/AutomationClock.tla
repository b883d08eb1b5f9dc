-------------------------- MODULE AutomationClock --------------------------
(***************************************************************************)
(* The scheduler of the automation (electron/automation/scheduler.mjs): at *)
(* start and then on a timer it asks which fires of each cron trigger are  *)
(* due since the position stored for it, and asks for runs of them, which  *)
(* the concurrency limit may refuse (AutomationRuns!CreateRun).            *)
(*                                                                         *)
(* A pass is one turn of the event loop, but the process may die between   *)
(* its writes.  `todo` is what is left of the pass for the trigger at      *)
(* hand: the fires runs are still to be asked for.                         *)
(***************************************************************************)
EXTENDS CronSchedule

CONSTANTS
  Trigger, None,
  TickMs, GraceMs, BackfillCap,
  Horizon,        \* bound: the last instant
  MaxEdits, MaxCrashes

Policies == {"skip", "backfill", "run-once-on-launch"}
Instants == 0 .. Horizon

ASSUME ClockAssumption ==
  /\ None \notin Trigger \cup Instants \cup [trigger : Trigger, fires : Seq(Instants)]
  /\ \A e \in Expression : Parses(e)
  /\ {TickMs, BackfillCap} \subseteq Nat \ {0} /\ {GraceMs, Horizon, MaxEdits, MaxCrashes} \subseteq Nat

VARIABLES
  now,
  def,        \* the definition's triggers: None or an expression and a policy
  position,   \* trigger_state: last_fired_at, or None
  up, lastTickAt,
  pass,       \* triggers the pass has yet to look at, or None between passes
  todo,       \* None, or a trigger and the fires to ask runs for
  answered,   \* history: fires runs were asked for, in order
  seen,       \* history: when the trigger of this workflow was first looked at
  edits, crashes

stored == <<def, position>>
history == <<answered, seen>>
bounds == <<edits, crashes>>
vars == <<now, stored, up, lastTickAt, pass, todo, history, bounds>>

Init ==
  /\ now = 0
  /\ def \in [Trigger -> {None} \cup [expression : Expression, policy : Policies]]
  /\ position = [t \in Trigger |-> None]
  /\ up = FALSE /\ lastTickAt = None
  /\ pass = None /\ todo = None
  /\ answered = [t \in Trigger |-> <<>>] /\ seen = [t \in Trigger |-> None]
  /\ edits = 0 /\ crashes = 0

Idle == pass = None /\ todo = None

-----------------------------------------------------------------------------
\* Time passes between passes: while the machine sleeps, too.
Pass ==
  /\ Idle /\ now < Horizon
  /\ now' = now + 1
  /\ UNCHANGED <<stored, up, lastTickAt, pass, todo, history, bounds>>

\* A pass vouches for what came due after `since`; after a gap, for nothing.
Begins(since) ==
  /\ pass' = [left |-> Trigger, since |-> since] /\ lastTickAt' = now

Start ==
  /\ ~up /\ up' = TRUE
  /\ Begins(None)
  /\ UNCHANGED <<now, stored, todo, history, bounds>>

\* Mutant: any earlier tick of the process vouches.
LiveSince_always == lastTickAt

LiveSince == IF now - lastTickAt <= TickMs + GraceMs THEN lastTickAt ELSE None

\* The timer is never early, and may be as late as it likes.
Tick ==
  /\ up /\ Idle /\ now >= lastTickAt + TickMs
  /\ Begins(LiveSince)
  /\ UNCHANGED <<now, stored, up, todo, history, bounds>>

\* A trigger of the pass, in the order of the definition or of another.
Looks(t) ==
  /\ pass # None /\ todo = None /\ t \in pass.left
  /\ pass' = [pass EXCEPT !.left = @ \ {t}]

Absent(t) ==
  /\ Looks(t) /\ def[t] = None
  /\ UNCHANGED <<now, stored, up, lastTickAt, todo, history, bounds>>

\* Mutant: a schedule that is new is due since the epoch.
FirstPosition_epoch == -1

FirstPosition == now

FirstSight(t) ==
  /\ Looks(t) /\ def[t] # None /\ position[t] = None
  /\ position' = [position EXCEPT ![t] = FirstPosition]
  /\ seen' = [seen EXCEPT ![t] = now]
  /\ UNCHANGED <<now, def, up, lastTickAt, todo, answered, bounds>>

\* The fires the walk finds, for a limit the policy consumes.
Due(t) ==
  LET limit == IF def[t].policy = "backfill" \/ pass.since # None THEN BackfillCap ELSE 1
  IN FireTimes(def[t].expression, position[t], now, limit)

\* On time are those after the edge; the policy speaks of the others.
Edge == IF pass.since = None THEN now ELSE pass.since

OnTime(t) == LET due == Due(t).times IN AtPlaces(due, {i \in DOMAIN due : due[i] > Edge})
Missed(t) == LET due == Due(t).times IN AtPlaces(due, {i \in DOMAIN due : due[i] <= Edge})

\* Mutant: the policy speaks of every fire.
Chosen_policyOnly(t) ==
  LET due == Due(t).times
  IN CASE def[t].policy = "skip" -> <<>>
       [] def[t].policy = "backfill" -> due
       [] OTHER -> <<Head(due)>>

Chosen(t) ==
  OnTime(t) \o
    (CASE def[t].policy = "skip" \/ Missed(t) = <<>> -> <<>>
       [] def[t].policy = "backfill" -> Missed(t)
       [] OTHER -> <<Head(Missed(t))>>)

NoneDue(t) ==
  /\ Looks(t) /\ def[t] # None /\ position[t] # None /\ Due(t).times = <<>>
  /\ UNCHANGED <<now, stored, up, lastTickAt, todo, history, bounds>>

\* The new position is stored before any run is asked for.
Advance(t) ==
  /\ Looks(t) /\ def[t] # None /\ position[t] # None /\ Due(t).times # <<>>
  /\ position' = [position EXCEPT ![t] = now]
  /\ todo' = IF Chosen(t) = <<>> THEN None ELSE [trigger |-> t, fires |-> Chosen(t)]
  /\ UNCHANGED <<now, def, up, lastTickAt, history, bounds>>

\* createRun, for the next fire.
Enqueue ==
  /\ todo # None
  /\ answered' = [answered EXCEPT ![todo.trigger] = Append(@, Head(todo.fires))]
  /\ todo' = IF Len(todo.fires) = 1 THEN None ELSE [todo EXCEPT !.fires = Tail(@)]
  /\ UNCHANGED <<now, def, position, up, lastTickAt, pass, seen, bounds>>

EndPass ==
  /\ pass # None /\ todo = None /\ pass.left = {}
  /\ pass' = None
  /\ UNCHANGED <<now, stored, up, lastTickAt, todo, history, bounds>>

-----------------------------------------------------------------------------
\* The definition is saved with the trigger changed, or without it: the row of
\* its position stays.
SaveTrigger(t, d) ==
  /\ Idle /\ edits < MaxEdits /\ d # def[t]
  /\ def' = [def EXCEPT ![t] = d] /\ edits' = edits + 1
  /\ UNCHANGED <<now, position, up, lastTickAt, pass, todo, history, crashes>>

\* Mutant: the positions survive the workflow.
Cleared_none == position

Cleared == [t \in Trigger |-> None]

DeleteWorkflow ==
  /\ Idle /\ up /\ edits < MaxEdits
  /\ def' = [t \in Trigger |-> None] /\ position' = Cleared /\ edits' = edits + 1
  /\ seen' = [t \in Trigger |-> None]
  /\ UNCHANGED <<now, up, lastTickAt, pass, todo, answered, crashes>>

\* The application is closed, or dies between two writes.
Stop ==
  /\ up /\ crashes < MaxCrashes
  /\ up' = FALSE /\ lastTickAt' = None /\ pass' = None /\ todo' = None
  /\ crashes' = crashes + 1
  /\ UNCHANGED <<now, stored, history, edits>>

Next ==
  \/ Pass \/ Start \/ Tick \/ Enqueue \/ EndPass \/ DeleteWorkflow \/ Stop
  \/ \E t \in Trigger :
       \/ Absent(t) \/ FirstSight(t) \/ NoneDue(t) \/ Advance(t)
       \/ \E d \in {None} \cup [expression : Expression, policy : Policies] : SaveTrigger(t, d)

Spec == Init /\ [][Next]_vars

-----------------------------------------------------------------------------
TypeOK ==
  /\ now \in Instants /\ up \in BOOLEAN /\ edits \in Nat /\ crashes \in Nat
  /\ lastTickAt \in Instants \cup {None}
  /\ def \in [Trigger -> {None} \cup [expression : Expression, policy : Policies]]
  /\ position \in [Trigger -> Instants \cup {None}]
  /\ pass \in {None} \cup [left : SUBSET Trigger, since : Instants \cup {None}]
  /\ todo \in {None} \cup [trigger : Trigger, fires : Seq(Instants)]
  /\ answered \in [Trigger -> Seq(Instants)]
  /\ seen \in [Trigger -> Instants \cup {None}]

\* The walk by days, hours and minutes finds exactly the moments the wall
\* clock reads a time the expression names, each once and in order.
WalkIsExact ==
  \A t \in Trigger : def[t] # None /\ position[t] # None =>
    LET due == FireTimes(def[t].expression, position[t], now, 0).times
    IN /\ ToSet(due) = {x \in position[t] + 1 .. now : Named(def[t].expression, x)}
       /\ \A i, j \in DOMAIN due : i < j => due[i] < due[j]

\* No fire is run twice, over closing, crashes in the middle of a pass, late
\* timers, and triggers that are removed and come back.
NoFireTwice ==
  \A t \in Trigger : \A i, j \in DOMAIN answered[t] :
    answered[t][i] = answered[t][j] => i = j

Asked(t) == Len(answered'[t]) > Len(answered[t])

\* Under "skip" nothing is run that came due while nobody was there to see it:
\* what is run is as old as a tick that was a little late, at most.
SkipIsFresh ==
  [][\A t \in Trigger : Asked(t) /\ def[t].policy = "skip" =>
       now - Last(answered'[t]) <= TickMs + GraceMs]_vars

\* A schedule never runs for the time before it was first seen, nor a deleted
\* workflow's successor for the time of its predecessor.
NothingBeforeFirstSight ==
  [][\A t \in Trigger : Asked(t) => seen[t] # None /\ Last(answered'[t]) > seen[t]]_vars

\* A fire that came due while the scheduler was ticking is run, whatever the
\* policy; but a pass may have met its cap before it.
Decides(t) == pass # None /\ pass' # None /\ t \in pass.left \ pass'.left
Watched(t) ==
  {x \in Instants : pass.since < x /\ position[t] < x /\ x <= now /\ Named(def[t].expression, x)}

OnTimeRuns ==
  [][\A t \in Trigger :
       Decides(t) /\ def[t] # None /\ position[t] # None /\ pass.since # None =>
         Due(t).truncated \/ \A x \in Watched(t) : todo' # None /\ x \in ToSet(todo'.fires)]_vars

\* As the code has it (scheduler.mjs 135): fires that were watched are on time.
OnTimeAlwaysRuns ==
  [][\A t \in Trigger :
       Decides(t) /\ def[t] # None /\ position[t] # None /\ pass.since # None =>
         \A x \in Watched(t) : todo' # None /\ x \in ToSet(todo'.fires)]_vars
=============================================================================
