------------------------ MODULE SchedulerSettlement ------------------------
(***************************************************************************)
(* Proofs about how tasks move and end: queued work is picked up and not   *)
(* passed over, every unsettled task has what will move it, nobody is told *)
(* of an end before the attempt is over, and the states follow the table   *)
(* of agent-core.                                                          *)
(*                                                                         *)
(* What concerns the queue holds of every submission.  The rest needs that *)
(* a task is in the scheduler's hands once: a slot, a timer or an attempt, *)
(* and not two of them.  What breaks that is a pause during a backoff, or  *)
(* while a dependency runs, so these theorems are about clients that pause *)
(* neither (the runtime submits with no retries and no dependencies, in    *)
(* server/execution.rs:137-140); without it two of them are false.         *)
(***************************************************************************)
EXTENDS SchedulerProofs

\* A permit of the class is free only if its holder has just given it back.
Returned(c) == \E u \in Task : ClassOf[u] = c /\ work[u].phase \in {"reported", "lost"}

Exhausted(s) == free[ClassOf[s.task]] = 0 \/ Returned(ClassOf[s.task])

\* What the pump has set aside, and what it left in the queue, had no permit.
PumpInv ==
  /\ pc # "pump" => deferred = {}
  /\ \A s \in deferred : Exhausted(s)
  /\ pc = "idle" => \A s \in ready : Exhausted(s)
  /\ \A t \in Task : work[t].phase = "lost" => t \in MayPanic

-----------------------------------------------------------------------------
\* Whoever is paused is neither retried nor made to wait for others.
PlainPauses == \A t \in Pausable : MaxAttempts[t] = 1 /\ DependsOn[t] = {}

Queued == {"Pending", "Waiting"}
Withdrawn(t) == state[t] = "Cancelled" /\ outcome[t] = "Cancelled"
Resting(t) == work[t].phase = "none"

\* One slot for a task, in one place; no task blocked twice on another.
QueueInv ==
  /\ \A r, s \in Slots : r.task = s.task => r = s
  /\ ready \cap deferred = {}
  /\ pc # "pump" => deferred = {}
  /\ pc \in {"idle", "pump"} => closing = {}
  /\ \A x \in Task : \A i, j \in DOMAIN dependents[x] :
       dependents[x][i] = dependents[x][j] => i = j

\* A task is queued, or backing off, or running; what was withdrawn from the
\* queue may have left its slot there.
Alone(t) ==
  /\ HasSlot(t) => Resting(t) /\ ~Backing(t) /\ (state[t] \in Queued \/ Withdrawn(t))
  /\ \A n \in Nat : <<t, n>> \in timers => state[t] = "Waiting" /\ Resting(t) /\ attempt[t] = n
  /\ ~Resting(t) <=> state[t] = "Running"
  /\ state[t] = "Paused" => t \in Pausable
  /\ state[t] \in Queued \cup {"Paused"} => body[t]
  /\ state[t] = "Waiting" => MaxAttempts[t] > 1 /\ attempt[t] > 0
  /\ t \in closing => /\ Resting(t) /\ ~Backing(t)
                      /\ state[t] \in Queued \cup {"Paused"} \/ Withdrawn(t)
                      /\ state[t] \in Live => pending[t] = {}

\* What a task still waits for is unsettled and knows of it; what it does not
\* wait for has completed.
Waits(t) ==
  /\ pending[t] \subseteq DependsOn[t]
  /\ state[t] \in Live => /\ \A d \in pending[t] : BlockedOn(t, d)
                          /\ \A d \in DependsOn[t] : state[d] = "Completed" \/ d \in pending[t]

\* While the driver serves, what waits for nothing has a slot or a timer.
Moving(t) ==
  pc \in {"idle", "pump"} =>
    /\ state[t] = "Pending" /\ pending[t] = {} => HasSlot(t)
    /\ state[t] = "Waiting" => HasSlot(t) \/ Backing(t)

Told(t) == waiter[t] \in Outcome => state[t] \in Terminal /\ waiter[t] = outcome[t]

ThreadInv ==
  QueueInv /\ \A t \in Task : Alone(t) /\ Waits(t) /\ Moving(t) /\ Told(t)

-----------------------------------------------------------------------------
(* The queue is picked up, in order.                                       *)

LEMMA PumpSteps ==
  ASSUME TypeOK, AttemptInv, PumpInv, Next
  PROVE  PumpInv'
<1>0. /\ \A s \in Slots : s.task \in Task /\ ClassOf[s.task] \in Class
      /\ free \in [Class -> Nat]
      /\ \A t \in Task : work[t] \in [phase : Phase, attempt : Nat, outcome : Outcome \cup {"none"}]
  BY SpecAssumption DEF TypeOK, QueueTypeOK, WorkTypeOK, WorkOK, Slots
<1>1. ASSUME work' = work, free' = free, pc' # "idle",
             deferred' = deferred, pc' = "pump" \/ deferred = {}
      PROVE  PumpInv'
  BY <1>1 DEF PumpInv, Exhausted, Returned
<1>2. ASSUME NEW t \in Task, Submit(t) \/ Cancel(t) \/ Resume(t) PROVE PumpInv'
  <2>1. work' = work /\ free' = free /\ pc' = "pump" /\ deferred' = deferred
    BY <1>2 DEF Submit, Cancel, Resume, workVars, queueVars
  <2> QED
    BY <1>1, <2>1
<1>3. ASSUME NEW t \in Task, Watch(t) \/ Pause(t) PROVE PumpInv'
  <2>1. /\ work' = work /\ free' = free /\ deferred' = deferred /\ ready' \subseteq ready /\ pc' = pc
    BY <1>3 DEF Watch, Pause, workVars, queueVars
  <2> QED
    BY <2>1 DEF PumpInv, Exhausted, Returned
<1>4. ASSUME NEW t \in Task, Settle(t) PROVE PumpInv'
  <2>1. pc = "idle" /\ pc' = "pump" /\ deferred' = deferred
    BY <1>4 DEF Settle
  <2>2. \A u \in Task : work'[u].phase = "lost" => u \in MayPanic
    BY <1>4, <1>0 DEF Settle, Idle, PumpInv
  <2> QED
    BY <2>1, <2>2 DEF PumpInv
<1>5. ASSUME NEW k \in timers, Backoff(k[1], k[2]) PROVE PumpInv'
  <2>1. work' = work /\ free' = free /\ pc' = "pump" /\ deferred' = deferred
    BY <1>5 DEF Backoff, Requeue, BackoffCancelled, queueVars
  <2> QED
    BY <1>1, <2>1
<1>6. ASSUME NEW s \in ready, PumpCancelled(s) \/ PumpDrop(s) PROVE PumpInv'
  <2>1. work' = work /\ free' = free /\ pc' = "pump" /\ deferred' = deferred
    BY <1>6 DEF PumpCancelled, PumpDrop, workVars
  <2> QED
    BY <1>1, <2>1
<1>7. ASSUME NEW s \in ready, PumpDefer(s) PROVE PumpInv'
  <2>1. /\ work' = work /\ free' = free /\ pc' = "pump" /\ deferred' = deferred \cup {s}
        /\ free[ClassOf[s.task]] = 0
    BY <1>7 DEF PumpDefer, workVars
  <2> QED
    BY <2>1 DEF PumpInv, Exhausted, Returned
<1>8. ASSUME NEW s \in ready, PumpStart(s) PROVE PumpInv'
  <2>1. /\ s.task \in Task /\ ClassOf[s.task] \in Class
        /\ pc = "pump" /\ pc' = "pump" /\ deferred' = deferred /\ free[ClassOf[s.task]] > 0
        /\ \A c \in Class \ {ClassOf[s.task]} : free'[c] = free[c]
    BY <1>0, <1>8 DEF PumpStart, Slots
  <2>2. /\ work[s.task].phase = "none" /\ work'[s.task].phase = "starting"
        /\ \A u \in Task \ {s.task} : work'[u] = work[u]
    BY <1>0, <1>8, <2>1 DEF PumpStart, AttemptInv, EntryInv, TypeOK, WorkTypeOK, WorkOK
  <2>3. \A c : Returned(c) => Returned(c)'
    BY <2>2 DEF Returned
  <2>4. ASSUME NEW r \in deferred PROVE Exhausted(r)'
    <3>1. ClassOf[r.task] \in Class /\ Exhausted(r)
      BY <1>0 DEF Slots, PumpInv
    <3>2. CASE free[ClassOf[r.task]] = 0
      <4>1. ClassOf[r.task] # ClassOf[s.task]
        BY <1>0, <2>1, <3>2
      <4> QED
        BY <2>1, <3>1, <3>2, <4>1 DEF Exhausted
    <3>3. CASE Returned(ClassOf[r.task])
      BY <2>3, <3>3 DEF Exhausted
    <3> QED
      BY <3>1, <3>2, <3>3 DEF Exhausted
  <2> QED
    BY <2>1, <2>2, <2>4 DEF PumpInv
<1>9. ASSUME PumpEnd PROVE PumpInv'
  BY <1>9 DEF PumpEnd, PumpInv, Exhausted, Returned, workVars
<1>10. ASSUME NEW t \in Task, Work(t) PROVE PumpInv'
  <2>1. /\ pc' = pc /\ ready' = ready /\ deferred' = deferred
        /\ \A u \in Task \ {t} : work'[u] = work[u]
        /\ work[t].phase \notin {"reported", "lost"}
        /\ work'[t].phase = "lost" => t \in MayPanic
        /\ free' = free \/ (/\ free' = [free EXCEPT ![ClassOf[t]] = @ + 1]
                            /\ work'[t].phase \in {"reported", "lost"})
    BY <1>0, <1>10 DEF Work, BeginBody, BodyReturns, SeeCancelled, MeetDeadline, StopBody, EndGrace,
       BodyPanics, Report, workerFrame, queueVars, TypeOK, WorkTypeOK, WorkOK
  <2>2. \A c : Returned(c) => Returned(c)'
    BY <2>1 DEF Returned
  <2>3. ASSUME NEW r \in Slots, Exhausted(r) PROVE Exhausted(r)'
    <3>1. ClassOf[r.task] \in Class
      BY <1>0
    <3>2. CASE free'[ClassOf[r.task]] = free[ClassOf[r.task]]
      BY <2>2, <2>3, <3>2 DEF Exhausted
    <3>3. CASE free'[ClassOf[r.task]] # free[ClassOf[r.task]]
      <4>1. ClassOf[r.task] = ClassOf[t] /\ work'[t].phase \in {"reported", "lost"}
        BY <1>0, <2>1, <3>1, <3>3
      <4> QED
        BY <4>1 DEF Exhausted, Returned
    <3> QED
      BY <3>2, <3>3
  <2> QED
    BY <2>1, <2>3 DEF PumpInv, Slots
<1>11. ASSUME Shutdown \/ CollectPaused \/ Stop \/ \E t \in Task : Drain(t) PROVE PumpInv'
  <2>1. work' = work /\ free' = free /\ pc' \notin {"idle", "pump"} /\ pc # "pump" /\ deferred' = deferred
    BY <1>11 DEF Shutdown, CollectPaused, Stop, Drain, workVars, queueVars
  <2> QED
    BY <1>1, <2>1 DEF PumpInv
<1> QED
  BY <1>2, <1>3, <1>4, <1>5, <1>6, <1>7, <1>8, <1>9, <1>10, <1>11
  DEF Next, Client, Pump, Reports, Closing

\* What was left in the queue was left for want of a permit.
THEOREM LeftForAPermit == Spec => []PumpInv
<1>1. Init => PumpInv
  BY DEF Init, PumpInv, Idle
<1>2. TypeOK /\ AttemptInv /\ PumpInv /\ [Next]_vars => PumpInv'
  <2> SUFFICES ASSUME TypeOK, AttemptInv, PumpInv, UNCHANGED vars PROVE PumpInv'
    BY PumpSteps
  <2> QED
    BY DEF vars, queueVars, workVars, PumpInv, Exhausted, Returned
<1> QED
  BY <1>1, <1>2, AttemptsInvariant, PTL DEF Spec

\* When the driver rests with a task still queued, its class has no permit or
\* a report that will pump again is on its way (driver.rs, pump's comment), if
\* no body panics: a panic gives the permit back and sends nothing.
THEOREM NoWakeupLost ==
  ASSUME MayPanic = {}
  PROVE  Spec => []NoLostWakeup
<1>1. PumpInv => NoLostWakeup
  BY DEF PumpInv, NoLostWakeup, Exhausted, Returned
<1> QED
  BY <1>1, LeftForAPermit, PTL

\* A better task is passed over only by a permit that came back while the
\* pump ran (driver.rs, pump and its deferred slots).
THEOREM OvertakingIsRelease == Spec => OvertakenOnlyByRelease
<1> DEFINE InOrder == \A s \in ready : Starts(s) => \A r \in Slots : Outranks(r, s) =>
             \E u \in Task : /\ ClassOf[u] = ClassOf[s.task]
                             /\ work[u].phase \in {"reported", "lost"}
<1>1. TypeOK /\ AttemptInv /\ PumpInv /\ Next => InOrder
  <2> SUFFICES ASSUME TypeOK, AttemptInv, PumpInv, Next, NEW s \in ready, Starts(s),
                      NEW r \in Slots, Outranks(r, s)
               PROVE  Returned(ClassOf[s.task])
    BY DEF Returned
  <2>0. /\ s.task \in Task /\ s.seq \in Nat /\ r.task \in Task /\ r.seq \in Nat
        /\ PriorityOf[s.task] \in Nat /\ PriorityOf[r.task] \in Nat /\ attempt' # attempt
    BY SpecAssumption DEF TypeOK, QueueTypeOK, Slots, Starts
  <2>1. PICK x \in ready : PumpStart(x)
    <3>1. ASSUME NEW t \in Task PROVE ~Submit(t) /\ ~Watch(t) /\ ~Cancel(t) /\ ~Pause(t) /\ ~Resume(t)
                                      /\ ~Settle(t) /\ ~Drain(t) /\ ~Work(t)
      BY <2>0 DEF Submit, Watch, Cancel, Pause, Resume, Settle, Drain, Work, BeginBody, BodyReturns,
         SeeCancelled, MeetDeadline, StopBody, EndGrace, BodyPanics, workerFrame, entryVars,
         FinishUnsuccessful, FinishCompleted
    <3>2. ASSUME NEW k \in timers PROVE ~Backoff(k[1], k[2])
      BY <2>0 DEF Backoff, Requeue, BackoffCancelled, entryVars, FinishUnsuccessful
    <3>3. ASSUME NEW y \in ready PROVE ~PumpCancelled(y) /\ ~PumpDefer(y) /\ ~PumpDrop(y)
      BY <2>0 DEF PumpCancelled, PumpDefer, PumpDrop, entryVars, FinishUnsuccessful
    <3>4. ~Shutdown /\ ~PumpEnd /\ ~CollectPaused /\ ~Stop
      BY <2>0 DEF Shutdown, PumpEnd, CollectPaused, Stop, entryVars
    <3> QED
      BY <3>1, <3>2, <3>3, <3>4 DEF Next, Client, Pump, Reports, Closing
  <2>2. s = x
    BY <2>1 DEF PumpStart, Starts
  <2>3. r \notin ready
    <3> SUFFICES ASSUME r \in ready PROVE FALSE
      OBVIOUS
    <3>1. Precedes(s, r)
      BY <2>1, <2>2 DEF PumpStart, IsFirst
    <3> QED
      BY <2>0, <3>1 DEF Precedes, Outranks
  <2>4. Exhausted(r) /\ ClassOf[r.task] = ClassOf[s.task]
    BY <2>3 DEF Slots, PumpInv, Outranks
  <2>5. free[ClassOf[s.task]] > 0 /\ free[ClassOf[s.task]] \in Nat
    BY <2>0, <2>1, <2>2, SpecAssumption DEF PumpStart, TypeOK, WorkTypeOK
  <2> QED
    BY <2>4, <2>5 DEF Exhausted
<1>2. TypeOK /\ AttemptInv /\ PumpInv /\ [Next]_vars => [InOrder]_vars
  BY <1>1
<1> QED
  BY <1>2, LeftForAPermit, AttemptsInvariant, PTL DEF Spec, OvertakenOnlyByRelease

-----------------------------------------------------------------------------
(* One slot, one timer or one attempt.                                     *)

LEMMA DoomedClosed ==
  ASSUME TypeOK, NEW t \in Task, NEW d \in Doomed(t), NEW i \in DOMAIN dependents[d],
         state[dependents[d][i]] \notin Terminal
  PROVE  dependents[d][i] \in Doomed(t)
<1>1. d \in Task /\ dependents[d][i] \in Task
  BY DEF Doomed, TypeOK, EntryTypeOK
<1>2. ASSUME NEW S \in SUBSET Task, IsCascade(t, S) PROVE dependents[d][i] \in S
  <2>1. d \in S
    BY <1>2 DEF Doomed
  <2> QED
    BY <1>2, <2>1 DEF IsCascade
<1> QED
  BY <1>1, <1>2 DEF Doomed

\* What fails along with another task is in no queue, timer or worker.
LEMMA DoomedAreIdle ==
  ASSUME TypeOK, AttemptInv, ThreadInv, NEW t \in Task, NEW d \in Doomed(t), d # t
  PROVE  d \in Task /\ state[d] \in Live /\ Resting(d) /\ ~HasSlot(d) /\ ~Backing(d) /\ d \notin closing
<1>1. d \in Task /\ state[d] \in Live /\ pending[d] # {}
  BY DoomedAreBlocked DEF Doomed, AttemptInv
<1>2. attempt[d] = 0 /\ Resting(d)
  BY <1>1 DEF AttemptInv, EntryInv, Resting, TypeOK, EntryTypeOK
<1>3. ~HasSlot(d)
  BY <1>1 DEF AttemptInv, SlotInv, HasSlot
<1>4. ~Backing(d)
  BY <1>2 DEF AttemptInv, TimerInv, Backing
<1>5. d \notin closing
  BY <1>1 DEF ThreadInv, Alone
<1> QED
  BY <1>1, <1>2, <1>3, <1>4, <1>5

\* The parts of the invariant that an early end of t keeps.
LEMMA UnsuccessfulEntries ==
  ASSUME PlainPauses, TypeOK, AttemptInv, ThreadInv,
         NEW t \in Task, NEW out \in Outcome \ {"Completed"},
         state[t] \in Live \/ (Withdrawn(t) /\ out = "Cancelled"),
         FinishUnsuccessful(t, out)
  PROVE  /\ pending' = pending /\ attempt' = attempt
         /\ state'[t] \in {"Failed", "Cancelled"} /\ outcome'[t] = out
         /\ out = "Cancelled" => Withdrawn(t)'
         /\ \A d \in Doomed(t) \ {t} : state'[d] = "Failed"
         /\ \A d \in Task \ Doomed(t) : /\ state'[d] = state[d] /\ outcome'[d] = outcome[d]
                                        /\ waiter'[d] = waiter[d] /\ dependents'[d] = dependents[d]
                                        /\ body'[d] = body[d]
         /\ \A d \in Doomed(t) : dependents'[d] = <<>>
         /\ \A d \in Task : Waits(d)' /\ Told(d)'
<1> DEFINE end == [d \in Task |-> IF d = t THEN out ELSE "DependencyFailed"]
<1>1. t \in Doomed(t) /\ Doomed(t) \subseteq Task
  BY DoomedAreBlocked DEF Doomed, AttemptInv
<1>2. \A d \in Doomed(t) \ {t} : state[d] \in Live
  BY DoomedAreIdle
<1>3. \A d \in Task : /\ state'[d] = IF d \in Doomed(t) THEN StateOf(end[d]) ELSE state[d]
                      /\ outcome'[d] = IF d \in Doomed(t) THEN end[d] ELSE outcome[d]
                      /\ waiter'[d] = IF d \in Doomed(t) THEN Answered(waiter[d], end[d]) ELSE waiter[d]
                      /\ dependents'[d] = IF d \in Doomed(t) THEN <<>> ELSE dependents[d]
  BY DEF FinishUnsuccessful
<1>4. \A d \in Task \ Doomed(t) : body'[d] = body[d]
  BY DEF FinishUnsuccessful, DropBodies, TypeOK, EntryTypeOK
<1>5. pending' = pending /\ attempt' = attempt
  BY DEF FinishUnsuccessful
<1>6. /\ StateOf("DependencyFailed") = "Failed" /\ StateOf("Cancelled") = "Cancelled"
      /\ StateOf(out) \in {"Failed", "Cancelled"}
  BY DEF StateOf
<1>7. /\ end[t] = out /\ \A d \in Task \ {t} : end[d] = "DependencyFailed"
  OBVIOUS
<1> HIDE DEF end
<1>8. /\ state'[t] \in {"Failed", "Cancelled"} /\ outcome'[t] = out
      /\ out = "Cancelled" => Withdrawn(t)'
      /\ \A d \in Doomed(t) \ {t} : state'[d] = "Failed" /\ outcome'[d] = "DependencyFailed"
  BY <1>1, <1>3, <1>6, <1>7 DEF Withdrawn
<1>9. ASSUME NEW d \in Task PROVE Waits(d)'
  <2> SUFFICES ASSUME state'[d] \in Live
               PROVE  /\ \A x \in pending[d] : BlockedOn(d, x)'
                      /\ \A x \in DependsOn[d] : state'[x] = "Completed" \/ x \in pending[d]
    BY <1>5 DEF Waits, ThreadInv, BlockedOn
  <2>1. d \notin Doomed(t) /\ state'[d] = state[d]
    BY <1>3, <1>8 DEF Live
  <2>2. Waits(d)
    BY DEF ThreadInv
  <2>3. ASSUME NEW x \in pending[d] PROVE BlockedOn(d, x)'
    <3>1. BlockedOn(d, x) /\ x \in Task
      BY <2>1, <2>2 DEF Waits, TypeOK, EntryTypeOK
    <3>2. PICK i \in DOMAIN dependents[x] : dependents[x][i] = d
      BY <3>1 DEF BlockedOn
    <3>3. x \notin Doomed(t)
      BY <2>1, <3>2, DoomedClosed DEF Live, Terminal
    <3> QED
      BY <1>3, <3>1, <3>3 DEF BlockedOn
  <2>4. ASSUME NEW x \in DependsOn[d], x \notin pending[d] PROVE state'[x] = "Completed"
    <3>1. state[x] = "Completed" /\ x \in Task
      BY <2>1, <2>2, <2>4, SpecAssumption DEF Waits
    <3>2. x \notin Doomed(t)
      BY <1>2, <3>1 DEF Live, Withdrawn
    <3> QED
      BY <1>3, <3>1, <3>2
  <2> QED
    BY <2>3, <2>4
<1>10. ASSUME NEW d \in Task PROVE Told(d)'
  <2>1. Told(d)
    BY DEF ThreadInv
  <2>2. CASE d \notin Doomed(t)
    BY <1>3, <2>1, <2>2 DEF Told
  <2>3. CASE d \in Doomed(t)
    <3>1. waiter'[d] = Answered(waiter[d], end[d]) /\ outcome'[d] = end[d] /\ state'[d] \in Terminal
      BY <1>3, <1>8, <2>3 DEF Terminal
    <3>2. CASE waiter[d] = "waiting"
      BY <3>1, <3>2 DEF Told, Answered
    <3>3. CASE waiter[d] # "waiting"
      <4>1. waiter'[d] = waiter[d]
        BY <3>1, <3>3 DEF Answered
      <4>2. waiter[d] \in Outcome => state[d] \in Terminal /\ waiter[d] = outcome[d]
        BY <2>1 DEF Told
      <4>3. waiter[d] \in Outcome => d = t /\ outcome[d] = "Cancelled" /\ out = "Cancelled"
        BY <1>2, <2>3, <4>2 DEF Withdrawn, Live, Terminal
      <4> QED
        BY <1>7, <3>1, <4>1, <4>2, <4>3 DEF Told
    <3> QED
      BY <3>2, <3>3
  <2> QED
    BY <2>2, <2>3
<1> QED
  BY <1>1, <1>3, <1>4, <1>5, <1>8, <1>9, <1>10

\* A step that ends t early, takes it out of timers and workers, and leaves
\* its slot behind only if it was cancelled.
LEMMA UnsuccessfulThreads ==
  ASSUME PlainPauses, TypeOK, AttemptInv, ThreadInv,
         NEW t \in Task, NEW out \in Outcome \ {"Completed"},
         state[t] \in Live \/ (Withdrawn(t) /\ out = "Cancelled"),
         FinishUnsuccessful(t, out),
         Slots' \subseteq Slots, ready' \cap deferred' = {}, pc' # "pump" => deferred' = {},
         closing' \subseteq closing, timers' \subseteq timers,
         pc' \in {"idle", "pump"} => pc \in {"idle", "pump"},
         \A d \in Task \ {t} : work'[d] = work[d],
         work'[t].phase = "none", ~Backing(t)',
         HasSlot(t)' \/ t \in closing' => out = "Cancelled",
         \A d \in Task \ {t} : HasSlot(d) => HasSlot(d)',
         \A d \in Task \ {t} : Backing(d) => Backing(d)'
  PROVE  ThreadInv'
<1>1. /\ pending' = pending /\ attempt' = attempt
      /\ state'[t] \in {"Failed", "Cancelled"} /\ outcome'[t] = out
      /\ out = "Cancelled" => Withdrawn(t)'
      /\ \A d \in Doomed(t) \ {t} : state'[d] = "Failed"
      /\ \A d \in Task \ Doomed(t) : /\ state'[d] = state[d] /\ outcome'[d] = outcome[d]
                                     /\ waiter'[d] = waiter[d] /\ dependents'[d] = dependents[d]
                                     /\ body'[d] = body[d]
      /\ \A d \in Doomed(t) : dependents'[d] = <<>>
      /\ \A d \in Task : Waits(d)' /\ Told(d)'
  BY UnsuccessfulEntries
<1>2. QueueInv'
  <2>1. \A x \in Task : \A i, j \in DOMAIN dependents'[x] : dependents'[x][i] = dependents'[x][j] => i = j
    BY <1>1 DEF ThreadInv, QueueInv
  <2> QED
    BY <2>1 DEF ThreadInv, QueueInv
<1>3. \A d \in Task : /\ HasSlot(d)' => HasSlot(d)
                      /\ Backing(d)' => Backing(d)
                      /\ d # t => (Resting(d)' <=> Resting(d))
  BY DEF HasSlot, Backing, Resting
<1>4. \A d \in Task : \A n \in Nat : <<d, n>> \in timers => Backing(d)
  BY DEF Backing
<1>5. ASSUME NEW d \in Task PROVE Alone(d)'
  <2>1. CASE d \notin Doomed(t)
    <3>1. d # t
      BY <2>1, DoomedAreBlocked DEF AttemptInv
    <3>2. Alone(d)
      BY DEF ThreadInv
    <3>3. (Resting(d)' <=> Resting(d)) /\ (HasSlot(d)' => HasSlot(d)) /\ (Backing(d)' => Backing(d))
      BY <1>3, <3>1
    <3>4. Withdrawn(d)' <=> Withdrawn(d)
      BY <1>1, <2>1 DEF Withdrawn
    <3> QED
      BY <1>1, <2>1, <3>2, <3>3, <3>4 DEF Alone
  <2>2. CASE d \in Doomed(t) /\ d # t
    <3>1. Resting(d) /\ ~HasSlot(d) /\ ~Backing(d) /\ d \notin closing
      BY <2>2, DoomedAreIdle
    <3>2. state'[d] = "Failed"
      BY <1>1, <2>2
    <3>3. Resting(d)' /\ ~HasSlot(d)' /\ ~Backing(d)' /\ d \notin closing'
      BY <1>3, <2>2, <3>1
    <3>4. \A n \in Nat : <<d, n>> \notin timers'
      BY <1>4, <3>1
    <3> QED
      BY <3>2, <3>3, <3>4 DEF Alone, Queued
  <2>3. CASE d = t
    <3>1. Resting(t)' /\ \A n \in Nat : <<t, n>> \notin timers'
      BY DEF Resting, Backing
    <3>2. state'[t] \notin Live \cup Queued \cup {"Running", "Waiting", "Paused"}
      BY <1>1 DEF Live, Queued
    <3> QED
      BY <1>1, <2>3, <3>1, <3>2 DEF Alone
  <2> QED
    BY <2>1, <2>2, <2>3
<1>6. ASSUME NEW d \in Task PROVE Moving(d)'
  <2>1. CASE d \in Doomed(t)
    <3>1. state'[d] \in {"Failed", "Cancelled"}
      BY <1>1, <2>1
    <3> QED
      BY <3>1 DEF Moving
  <2>2. CASE d \notin Doomed(t)
    <3>1. d # t
      BY <2>2, DoomedAreBlocked DEF AttemptInv
    <3> QED
      BY <1>1, <2>2, <3>1 DEF Moving, ThreadInv
  <2> QED
    BY <2>1, <2>2
<1> QED
  BY <1>1, <1>2, <1>5, <1>6 DEF ThreadInv

\* A step that leaves the entries alone and queues nothing new.
LEMMA QueueThreads ==
  ASSUME TypeOK, ThreadInv, UNCHANGED <<entryVars, timers>>, Slots' \subseteq Slots,
         QueueInv', \A d \in Task : Resting(d)' <=> Resting(d),
         \A d \in closing' \ closing : HasSlot(d) \/ state[d] = "Paused",
         \A d \in closing' \ closing : state[d] \in Live => pending[d] = {},
         \A d \in Task : Moving(d)', \A d \in Task : Told(d)'
  PROVE  ThreadInv'
<1>1. \A d \in Task : (HasSlot(d)' => HasSlot(d)) /\ (Backing(d)' <=> Backing(d))
  BY DEF HasSlot, Backing
<1>2. ASSUME NEW d \in Task PROVE Alone(d)'
  <2>1. Alone(d) /\ (Withdrawn(d)' <=> Withdrawn(d))
    BY DEF ThreadInv, Withdrawn, entryVars
  <2>2. ASSUME d \in closing'
        PROVE  /\ Resting(d) /\ ~Backing(d)
               /\ state[d] \in Queued \cup {"Paused"} \/ Withdrawn(d)
               /\ state[d] \in Live => pending[d] = {}
    <3>1. CASE d \in closing
      BY <2>1, <3>1 DEF Alone
    <3>2. CASE d \notin closing /\ HasSlot(d)
      BY <2>1, <2>2, <3>2 DEF Alone
    <3>3. CASE d \notin closing /\ state[d] = "Paused"
      <4>1. Resting(d)
        BY <2>1, <3>3 DEF Alone
      <4>2. ~Backing(d)
        <5> SUFFICES ASSUME NEW k \in timers, k[1] = d PROVE FALSE
          BY DEF Backing
        <5>1. k = <<d, k[2]>> /\ k[2] \in Nat
          BY DEF TypeOK, WorkTypeOK
        <5> QED
          BY <2>1, <3>3, <5>1 DEF Alone
      <4> QED
        BY <2>2, <3>3, <4>1, <4>2
    <3> QED
      BY <2>2, <3>1, <3>2, <3>3
  <2>3. UNCHANGED <<state, outcome, body, attempt, pending, timers>>
    BY DEF entryVars
  <2> QED
    BY <1>1, <2>1, <2>2, <2>3 DEF Alone
<1>3. \A d \in Task : Waits(d)'
  BY DEF ThreadInv, Waits, BlockedOn, entryVars
<1> QED
  BY <1>2, <1>3 DEF ThreadInv

\* The task of a slot, and of a timer.
LEMMA SlotOwner ==
  ASSUME TypeOK, NEW s \in Slots
  PROVE  s.task \in Task /\ HasSlot(s.task)
BY DEF TypeOK, QueueTypeOK, Slots, HasSlot

LEMMA TimerOwner ==
  ASSUME TypeOK, ThreadInv, NEW t, NEW n, <<t, n>> \in timers
  PROVE  /\ t \in Task /\ n \in Nat /\ Backing(t)
         /\ state[t] = "Waiting" /\ Resting(t) /\ ~HasSlot(t) /\ attempt[t] = n
         /\ \A k \in timers : k[1] = t => k = <<t, n>>
<1>1. t \in Task /\ n \in Nat
  BY DEF TypeOK, WorkTypeOK
<1>2. Backing(t)
  BY DEF Backing
<1>3. state[t] = "Waiting" /\ Resting(t) /\ ~HasSlot(t) /\ attempt[t] = n
  BY <1>1, <1>2 DEF ThreadInv, Alone
<1>4. ASSUME NEW k \in timers, k[1] = t PROVE k = <<t, n>>
  <2>1. k = <<t, k[2]>> /\ k[2] \in Nat
    BY <1>4 DEF TypeOK, WorkTypeOK
  <2>2. attempt[t] = k[2]
    BY <1>1, <2>1 DEF ThreadInv, Alone
  <2> QED
    BY <1>3, <2>1, <2>2
<1> QED
  BY <1>1, <1>2, <1>3, <1>4

LEMMA PausedIsPlain ==
  ASSUME PlainPauses, ThreadInv, NEW t \in Task, state[t] = "Paused"
  PROVE  pending[t] = {} /\ ~HasSlot(t) /\ Resting(t)
BY DEF PlainPauses, ThreadInv, Alone, Waits, Queued, Withdrawn

\* Being paused does not survive a timer.
LEMMA NotBacking ==
  ASSUME TypeOK, ThreadInv, NEW t \in Task, state[t] # "Waiting"
  PROVE  ~Backing(t)
<1> SUFFICES ASSUME NEW k \in timers, k[1] = t PROVE FALSE
  BY DEF Backing
<1>1. <<t, k[2]>> \in timers
  BY DEF TypeOK, WorkTypeOK
<1> QED
  BY <1>1, TimerOwner

\* The pump and the shutdown, where they settle nothing.
LEMMA QuietThreads ==
  ASSUME PlainPauses, TypeOK, AttemptInv, ThreadInv,
         \/ \E s \in ready : PumpDefer(s) \/ PumpDrop(s)
         \/ PumpEnd \/ Shutdown \/ CollectPaused \/ Stop
  PROVE  ThreadInv'
<1> USE DEF tokenVars, queueVars, workVars
<1>0. /\ QueueInv /\ \A d \in Task : Alone(d) /\ Moving(d) /\ Told(d)
      /\ ready \subseteq Slots /\ deferred \subseteq Slots
      /\ \A x \in Task : \A i, j \in DOMAIN dependents[x] : dependents[x][i] = dependents[x][j] => i = j
  BY DEF ThreadInv, QueueInv, Slots
<1>1. ASSUME NEW s \in ready, PumpDefer(s) PROVE ThreadInv'
  <2>1. /\ UNCHANGED <<entryVars, timers, waiter, work, closing, pc>> /\ Slots' = Slots /\ pc = "pump"
        /\ ready' = ready \ {s} /\ deferred' = deferred \cup {s}
    BY <1>1 DEF PumpDefer, Slots
  <2>2. QueueInv'
    BY <1>0, <2>1 DEF QueueInv, entryVars
  <2>3. \A d \in Task : Resting(d)' <=> Resting(d)
    BY <2>1 DEF Resting
  <2>4. \A d \in Task : Moving(d)' /\ Told(d)'
    BY <1>0, <2>1 DEF Moving, Told, HasSlot, Backing, entryVars
  <2> QED
    BY <2>1, <2>2, <2>3, <2>4, QueueThreads
<1>2. ASSUME NEW s \in ready, PumpDrop(s) PROVE ThreadInv'
  <2>1. /\ UNCHANGED <<entryVars, timers, waiter, work, closing, pc, deferred>> /\ pc = "pump"
        /\ ready' = ready \ {s} /\ ~body[s.task]
    BY <1>2 DEF PumpDrop, Slots
  <2>2. Slots' \subseteq Slots
    BY <2>1 DEF Slots
  <2>3. QueueInv'
    BY <1>0, <2>1, <2>2 DEF QueueInv, entryVars
  <2>4. \A d \in Task : Resting(d)' <=> Resting(d)
    BY <2>1 DEF Resting
  <2>5. ASSUME NEW d \in Task PROVE Moving(d)'
    <3>1. CASE d = s.task
      BY <1>0, <2>1, <3>1 DEF Moving, Alone, Queued, entryVars
    <3>2. CASE d # s.task
      <4>1. HasSlot(d) => HasSlot(d)'
        BY <2>1, <3>2 DEF HasSlot, Slots
      <4> QED
        BY <1>0, <2>1, <4>1 DEF Moving, Backing, entryVars
    <3> QED
      BY <3>1, <3>2
  <2>6. \A d \in Task : Told(d)'
    BY <1>0, <2>1 DEF Told, entryVars
  <2> QED
    BY <2>1, <2>2, <2>3, <2>4, <2>5, <2>6, QueueThreads
<1>3. ASSUME PumpEnd PROVE ThreadInv'
  <2>1. /\ UNCHANGED <<entryVars, timers, waiter, work, closing>> /\ Slots' = Slots
        /\ pc = "pump" /\ pc' = "idle" /\ ready' = deferred /\ deferred' = {}
    BY <1>3 DEF PumpEnd, Slots
  <2>2. QueueInv'
    BY <1>0, <2>1 DEF QueueInv, entryVars
  <2>3. \A d \in Task : Resting(d)' <=> Resting(d)
    BY <2>1 DEF Resting
  <2>4. \A d \in Task : Moving(d)' /\ Told(d)'
    BY <1>0, <2>1 DEF Moving, Told, HasSlot, Backing, entryVars
  <2> QED
    BY <2>1, <2>2, <2>3, <2>4, QueueThreads
<1>4. ASSUME Shutdown PROVE ThreadInv'
  <2>1. /\ UNCHANGED <<entryVars, timers, waiter, work, deferred>>
        /\ pc = "idle" /\ pc' = "draining" /\ ready' = {}
        /\ closing' = {s.task : s \in ready}
    BY <1>4 DEF Shutdown
  <2>2. Slots' \subseteq Slots
    BY <2>1 DEF Slots
  <2>3. QueueInv'
    BY <1>0, <2>1, <2>2 DEF QueueInv, entryVars
  <2>4. \A d \in Task : Resting(d)' <=> Resting(d)
    BY <2>1 DEF Resting
  <2>5. \A d \in closing' : HasSlot(d) /\ (state[d] \in Live => pending[d] = {})
    BY <1>0, <2>1, SlotOwner DEF AttemptInv, SlotInv
  <2>6. \A d \in Task : Moving(d)' /\ Told(d)'
    BY <1>0, <2>1 DEF Moving, Told, entryVars
  <2> QED
    BY <2>1, <2>2, <2>3, <2>4, <2>5, <2>6, QueueThreads
<1>5. ASSUME CollectPaused PROVE ThreadInv'
  <2>1. /\ UNCHANGED <<entryVars, timers, waiter, work, ready, deferred>>
        /\ pc = "draining" /\ pc' = "holding"
        /\ closing' = {t \in Task : state[t] = "Paused"}
    BY <1>5 DEF CollectPaused
  <2>2. Slots' = Slots
    BY <2>1 DEF Slots
  <2>3. QueueInv'
    BY <1>0, <2>1, <2>2 DEF QueueInv, entryVars
  <2>4. \A d \in Task : Resting(d)' <=> Resting(d)
    BY <2>1 DEF Resting
  <2>5. \A d \in closing' : state[d] = "Paused" /\ pending[d] = {}
    BY <2>1, PausedIsPlain
  <2>6. \A d \in Task : Moving(d)' /\ Told(d)'
    BY <1>0, <2>1 DEF Moving, Told, entryVars
  <2> QED
    BY <2>1, <2>2, <2>3, <2>4, <2>5, <2>6, QueueThreads
<1>6. ASSUME Stop PROVE ThreadInv'
  <2>1. /\ UNCHANGED <<entryVars, timers, work, ready, deferred, closing>>
        /\ pc = "holding" /\ pc' = "stopped"
        /\ waiter' = [t \in Task |-> Answered(waiter[t], "stopped")]
    BY <1>6 DEF Stop
  <2>2. Slots' = Slots
    BY <2>1 DEF Slots
  <2>3. QueueInv'
    BY <1>0, <2>1, <2>2 DEF QueueInv, entryVars
  <2>4. \A d \in Task : Resting(d)' <=> Resting(d)
    BY <2>1 DEF Resting
  <2>5. \A d \in Task : waiter'[d] = waiter[d] \/ waiter'[d] = "stopped"
    BY <2>1 DEF Answered
  <2>6. \A d \in Task : Moving(d)' /\ Told(d)'
    BY <1>0, <2>1, <2>5 DEF Moving, Told, Outcome, BodyResult, entryVars
  <2> QED
    BY <2>1, <2>2, <2>3, <2>4, <2>6, QueueThreads
<1> QED
  BY <1>1, <1>2, <1>3, <1>4, <1>5, <1>6

\* Callers and workers.
LEMMA OutsideThreads ==
  ASSUME TypeOK, AttemptInv, ThreadInv, NEW t \in Task, Watch(t) \/ Work(t)
  PROVE  ThreadInv'
<1>0. /\ QueueInv /\ \A d \in Task : Moving(d) /\ Told(d)
      /\ \A x \in Task : \A i, j \in DOMAIN dependents[x] : dependents[x][i] = dependents[x][j] => i = j
  BY DEF ThreadInv, QueueInv
<1>1. UNCHANGED <<entryVars, queueVars, pc, closing, timers>>
  BY DEF Watch, Work, BeginBody, BodyReturns, SeeCancelled, MeetDeadline, StopBody, EndGrace,
     BodyPanics, workerFrame, workVars
<1>2. \A d \in Task : Resting(d)' <=> Resting(d)
  <2>1. CASE Watch(t)
    BY <2>1 DEF Watch, workVars, Resting
  <2>2. CASE Work(t)
    <3>1. /\ work[t].phase # "none" /\ work'[t].phase # "none"
          /\ \A d \in Task \ {t} : work'[d] = work[d]
      BY <2>2 DEF Work, BeginBody, BodyReturns, SeeCancelled, MeetDeadline, StopBody, EndGrace, BodyPanics,
         Report, TypeOK, WorkTypeOK, WorkOK
    <3> QED
      BY <3>1 DEF Resting
  <2> QED
    BY <2>1, <2>2
<1>3. Slots' = Slots /\ QueueInv'
  BY <1>0, <1>1 DEF QueueInv, Slots, queueVars, entryVars
<1>4. \A d \in Task : Moving(d)'
  BY <1>0, <1>1 DEF Moving, HasSlot, Backing, Slots, queueVars, entryVars
<1>5. \A d \in Task : Told(d)'
  <2>1. CASE Watch(t)
    <3>1. /\ \A d \in Task \ {t} : waiter'[d] = waiter[d]
          /\ waiter'[t] \in {"stopped", "waiting"} \/ (state[t] \in Terminal /\ waiter'[t] = outcome[t])
      BY <2>1 DEF Watch, TypeOK, WorkTypeOK
    <3> QED
      BY <1>0, <1>1, <3>1 DEF Told, Outcome, BodyResult, entryVars
  <2>2. CASE Work(t)
    <3>1. waiter' = waiter
      BY <2>2 DEF Work, BeginBody, BodyReturns, SeeCancelled, MeetDeadline, StopBody, EndGrace,
         BodyPanics, workerFrame
    <3> QED
      BY <1>0, <1>1, <3>1 DEF Told, entryVars
  <2> QED
    BY <2>1, <2>2
<1> QED
  BY <1>1, <1>2, <1>3, <1>4, <1>5, QueueThreads

\* Early ends: cancelled, failed, drained.
LEMMA EndingThreads ==
  ASSUME PlainPauses, TypeOK, AttemptInv, ThreadInv, NEW t \in Task, NEW out \in Outcome \ {"Completed"},
         FinishUnsuccessful(t, out),
         \/ Cancel(t) /\ state[t] = "Pending" /\ out = "Cancelled"
         \/ Resume(t) /\ UNCHANGED ready
         \/ Settle(t) /\ UNCHANGED <<ready, timers>>
         \/ Drain(t) /\ out = "Cancelled"
         \/ out = "Cancelled" /\ \E s \in ready : s.task = t /\ PumpCancelled(s)
         \/ \E n \in Nat : /\ Requeue(t, n) \/ BackoffCancelled(t, n)
                           /\ UNCHANGED ready
  PROVE  ThreadInv'
<1> USE DEF tokenVars, queueVars, workVars
<1>0. /\ QueueInv /\ Alone(t)
      /\ \A d \in Task : work[d] \in [phase : Phase, attempt : Nat, outcome : Outcome \cup {"none"}]
  BY DEF ThreadInv, TypeOK, WorkTypeOK, WorkOK
<1>1. ASSUME state[t] \in Live \/ (Withdrawn(t) /\ out = "Cancelled"),
             Resting(t), work' = work, timers' = timers, ~Backing(t),
             closing' \subseteq closing, HasSlot(t) \/ t \in closing => out = "Cancelled",
             Slots' = Slots, ready' \cap deferred' = {}, pc' # "pump" => deferred' = {},
             pc' \in {"idle", "pump"} => pc \in {"idle", "pump"}
      PROVE  ThreadInv'
  <2>1. ~Backing(t)' /\ work'[t].phase = "none" /\ (HasSlot(t)' \/ t \in closing' => out = "Cancelled")
    BY <1>1 DEF Backing, Resting, HasSlot
  <2>2. \A d \in Task : (HasSlot(d) => HasSlot(d)') /\ (Backing(d) => Backing(d)')
    BY <1>1 DEF Backing, HasSlot
  <2> QED
    BY <1>1, <2>1, <2>2, UnsuccessfulThreads
<1>2. CASE Cancel(t) /\ state[t] = "Pending" /\ out = "Cancelled"
  <2>1. /\ work' = work /\ timers' = timers /\ closing' = closing /\ pc = "idle" /\ pc' = "pump"
        /\ ready' = ready /\ deferred' = deferred
    BY <1>2 DEF Cancel
  <2>2. Resting(t) /\ ~Backing(t) /\ state[t] \in Live
    BY <1>0, <1>2, NotBacking DEF Alone, Live
  <2>3. ready' \cap deferred' = {} /\ Slots' = Slots
    BY <1>0, <2>1 DEF QueueInv, Slots
  <2> QED
    BY <1>1, <1>2, <2>1, <2>2, <2>3
<1>3. CASE Resume(t) /\ UNCHANGED ready
  <2>1. /\ work' = work /\ timers' = timers /\ closing' = closing /\ pc = "idle" /\ pc' = "pump"
        /\ ready' = ready /\ deferred' = deferred /\ state[t] = "Paused"
    BY <1>3 DEF Resume
  <2>2. Resting(t) /\ ~Backing(t) /\ state[t] \in Live /\ ~HasSlot(t)
    BY <2>1, NotBacking, PausedIsPlain DEF Live
  <2>3. ready' \cap deferred' = {} /\ Slots' = Slots /\ t \notin closing
    BY <1>0, <2>1 DEF QueueInv, Slots
  <2> QED
    BY <1>1, <2>1, <2>2, <2>3
<1>4. CASE Settle(t) /\ UNCHANGED <<ready, timers>>
  <2>1. /\ work' = [work EXCEPT ![t] = Idle] /\ work[t].phase = "reported"
        /\ closing' = closing /\ pc = "idle" /\ pc' = "pump"
        /\ ready' = ready /\ deferred' = deferred /\ timers' = timers
    BY <1>4 DEF Settle
  <2>2. state[t] = "Running" /\ ~HasSlot(t) /\ ~Backing(t) /\ t \notin closing
    BY <1>0, <2>1, NotBacking DEF Alone, Resting
  <2>3. /\ work'[t].phase = "none" /\ \A d \in Task \ {t} : work'[d] = work[d]
    BY <1>0, <2>1 DEF Idle, TypeOK, WorkTypeOK, WorkOK
  <2>4. ready' \cap deferred' = {} /\ Slots' = Slots
    BY <1>0, <2>1 DEF QueueInv, Slots
  <2>5. ~Backing(t)' /\ ~HasSlot(t)' /\ \A d \in Task : (HasSlot(d) => HasSlot(d)') /\ (Backing(d) => Backing(d)')
    BY <2>1, <2>2, <2>4 DEF Backing, HasSlot
  <2> QED
    BY <2>1, <2>2, <2>3, <2>4, <2>5, UnsuccessfulThreads DEF Live
<1>5. CASE Drain(t) /\ out = "Cancelled"
  <2>1. /\ work' = work /\ timers' = timers /\ closing' \subseteq closing /\ t \in closing
        /\ pc \in {"draining", "holding"} /\ pc' = pc /\ ready' = ready /\ deferred' = deferred
    BY <1>5 DEF Drain
  <2>2. Resting(t) /\ ~Backing(t) /\ (state[t] \in Live \/ Withdrawn(t))
    BY <1>0, <2>1 DEF Alone, Queued, Live
  <2>3. ready' \cap deferred' = {} /\ Slots' = Slots /\ deferred' = {}
    BY <1>0, <2>1 DEF QueueInv, Slots
  <2> QED
    BY <1>1, <1>5, <2>1, <2>2, <2>3
<1>6. ASSUME NEW s \in ready, s.task = t, PumpCancelled(s), out = "Cancelled" PROVE ThreadInv'
  <2>1. /\ work' = work /\ timers' = timers /\ closing' = closing
        /\ pc = "pump" /\ pc' = pc /\ ready' = ready \ {s} /\ deferred' = deferred
    BY <1>6 DEF PumpCancelled
  <2>2. HasSlot(t)
    BY <1>6 DEF HasSlot, Slots
  <2>3. Resting(t) /\ ~Backing(t) /\ (state[t] \in Live \/ Withdrawn(t))
    BY <1>0, <2>2 DEF Alone, Queued, Live
  <2>4. ready' \cap deferred' = {} /\ Slots' \subseteq Slots
    BY <1>0, <2>1 DEF QueueInv, Slots
  <2>5. /\ ~Backing(t)' /\ work'[t].phase = "none"
        /\ \A d \in Task : Backing(d) => Backing(d)'
    BY <2>1, <2>3 DEF Backing, Resting
  <2>6. \A d \in Task \ {t} : HasSlot(d) => HasSlot(d)'
    BY <1>6, <2>1 DEF HasSlot, Slots
  <2> QED
    BY <1>6, <2>1, <2>3, <2>4, <2>5, <2>6, UnsuccessfulThreads
<1>7. ASSUME NEW n \in Nat, Requeue(t, n) \/ BackoffCancelled(t, n), UNCHANGED ready PROVE ThreadInv'
  <2>1. /\ work' = work /\ <<t, n>> \in timers /\ timers' = timers \ {<<t, n>>} /\ closing' = closing
        /\ pc = "idle" /\ pc' = "pump" /\ ready' = ready /\ deferred' = deferred
    BY <1>7 DEF Requeue, BackoffCancelled
  <2>2. /\ state[t] = "Waiting" /\ Resting(t) /\ ~HasSlot(t)
        /\ \A k \in timers : k[1] = t => k = <<t, n>>
    BY <2>1, TimerOwner
  <2>3. ready' \cap deferred' = {} /\ Slots' = Slots /\ t \notin closing
    BY <1>0, <2>1 DEF QueueInv, Slots
  <2>4. ~Backing(t)' /\ work'[t].phase = "none" /\ \A d \in Task \ {t} : Backing(d) => Backing(d)'
    BY <2>1, <2>2 DEF Backing, Resting
  <2>5. ~HasSlot(t)' /\ \A d \in Task : HasSlot(d) => HasSlot(d)'
    BY <2>2, <2>3 DEF HasSlot
  <2> QED
    BY <2>1, <2>2, <2>3, <2>4, <2>5, UnsuccessfulThreads DEF Live
<1> QED
  BY <1>2, <1>3, <1>4, <1>5, <1>6, <1>7

\* One task goes on, in another way than before.
LEMMA LiveThreads ==
  ASSUME TypeOK, ThreadInv, NEW t \in Task, state[t] \in Live, state'[t] \in Live,
         UNCHANGED <<outcome, pending, dependents, waiter>>,
         \A d \in Task \ {t} : /\ state'[d] = state[d] /\ body'[d] = body[d]
                               /\ attempt'[d] = attempt[d] /\ work'[d] = work[d]
                               /\ HasSlot(d)' <=> HasSlot(d)
                               /\ \A n : <<d, n>> \in timers' <=> <<d, n>> \in timers,
         timers' \subseteq Task \X Nat,
         QueueInv', closing' = {}, pc \in {"idle", "pump"}, Alone(t)', Moving(t)'
  PROVE  ThreadInv'
<1>1. \A d \in Task \ {t} : Alone(d) /\ Moving(d)
  BY DEF ThreadInv
<1>2. ASSUME NEW d \in Task \ {t} PROVE Alone(d)' /\ Moving(d)'
  <2>1. Backing(d)' <=> Backing(d)
    <3>1. \A k \in timers \cup timers' : k = <<k[1], k[2]>>
      BY DEF TypeOK, WorkTypeOK
    <3> QED
      BY <3>1 DEF Backing
  <2>2. (Resting(d)' <=> Resting(d)) /\ (Withdrawn(d)' <=> Withdrawn(d))
    BY DEF Resting, Withdrawn
  <2>3. Alone(d)'
    BY <1>1, <2>1, <2>2 DEF Alone
  <2> QED
    BY <1>1, <2>1, <2>3 DEF Moving
<1>3. \A d \in Task : (state'[d] \in Live <=> state[d] \in Live) /\ (state'[d] = "Completed" <=> state[d] = "Completed")
  BY DEF Live
<1>4. ASSUME NEW d \in Task PROVE Waits(d)'
  <2>1. Waits(d)
    BY DEF ThreadInv
  <2>2. \A x \in Task : BlockedOn(d, x)' <=> BlockedOn(d, x)
    BY <1>3 DEF BlockedOn
  <2>3. pending[d] \subseteq Task /\ DependsOn[d] \subseteq Task
    BY SpecAssumption DEF TypeOK, EntryTypeOK
  <2> QED
    BY <1>3, <2>1, <2>2, <2>3 DEF Waits
<1>5. \A d \in Task : Told(d)'
  <2>1. \A d \in Task : Told(d) /\ (state[d] \in Terminal => state'[d] = state[d])
    BY DEF ThreadInv, Live, Terminal
  <2> QED
    BY <2>1 DEF Told
<1> QED
  BY <1>2, <1>4, <1>5 DEF ThreadInv

LEMMA StartThreads ==
  ASSUME TypeOK, AttemptInv, ThreadInv, NEW s \in ready, PumpStart(s)
  PROVE  ThreadInv'
<1> DEFINE t == s.task
<1>1. t \in Task /\ state[t] \in Live /\ HasSlot(t)
  BY StartedWasLive, SlotOwner DEF Slots
<1>2. QueueInv /\ Alone(t) /\ ready \subseteq Slots
  BY <1>1 DEF ThreadInv, Slots
<1>3. /\ pc = "pump" /\ pc' = "pump" /\ closing' = {} /\ ready' = ready \ {s} /\ deferred' = deferred
      /\ UNCHANGED <<outcome, pending, dependents, waiter, timers>>
  BY <1>2 DEF PumpStart, QueueInv
<1>4. /\ state'[t] = "Running" /\ work'[t].phase = "starting"
      /\ \A d \in Task \ {t} : /\ state'[d] = state[d] /\ body'[d] = body[d]
                               /\ attempt'[d] = attempt[d] /\ work'[d] = work[d]
  BY <1>1 DEF PumpStart, TakeBody, TypeOK, EntryTypeOK, WorkTypeOK, WorkOK
<1>5. Slots' \subseteq Slots /\ \A r \in Slots : r \in Slots' <=> r # s
  BY <1>2, <1>3 DEF Slots, QueueInv
<1>6. ~HasSlot(t)' /\ \A d \in Task \ {t} : HasSlot(d)' <=> HasSlot(d)
  BY <1>2, <1>5 DEF HasSlot, QueueInv
<1>7. QueueInv'
  <2>1. ready' \cap deferred' = {} /\ \A r, q \in Slots' : r.task = q.task => r = q
    BY <1>2, <1>3, <1>5 DEF QueueInv
  <2> QED
    BY <1>2, <1>3, <2>1 DEF QueueInv
<1>8. \A n : <<t, n>> \notin timers
  BY <1>1, <1>2 DEF Alone, Backing
<1>9. Alone(t)' /\ Moving(t)'
  BY <1>3, <1>4, <1>6, <1>8 DEF Alone, Moving, Resting, Queued, Withdrawn
<1>10. timers' \subseteq Task \X Nat
  BY <1>3 DEF TypeOK, WorkTypeOK
<1> HIDE DEF t
<1> QED
  BY <1>1, <1>3, <1>4, <1>6, <1>7, <1>9, <1>10, LiveThreads DEF Live

LEMMA PauseThreads ==
  ASSUME PlainPauses, TypeOK, AttemptInv, ThreadInv, NEW t \in Task, Pause(t)
  PROVE  ThreadInv'
<1>1. QueueInv /\ Alone(t) /\ Waits(t)
  BY DEF ThreadInv
<1>2. /\ pc = "idle" /\ pc' = pc /\ closing' = {} /\ ready' = {s \in ready : s.task # t}
      /\ deferred = {} /\ deferred' = {} /\ t \in Pausable
      /\ UNCHANGED <<outcome, pending, dependents, waiter, timers, work, body, attempt>>
  BY <1>1 DEF Pause, QueueInv, workVars
<1>3. state[t] = "Pending" /\ state'[t] = "Paused" /\ \A d \in Task \ {t} : state'[d] = state[d]
  BY <1>1, <1>2 DEF Pause, Alone, PlainPauses, TypeOK, EntryTypeOK
<1>4. Slots = ready /\ Slots' = ready'
  BY <1>2 DEF Slots
<1>5. ~HasSlot(t)' /\ \A d \in Task \ {t} : HasSlot(d)' <=> HasSlot(d)
  BY <1>2, <1>4 DEF HasSlot
<1>6. QueueInv'
  <2>1. \A r, q \in Slots' : r.task = q.task => r = q
    BY <1>1, <1>2, <1>4 DEF QueueInv
  <2> QED
    BY <1>1, <1>2, <2>1 DEF QueueInv
<1>7. Alone(t)' /\ Moving(t)'
  <2>1. Resting(t)' /\ Resting(t)
    BY <1>1, <1>2, <1>3 DEF Alone, Resting
  <2>2. \A n : <<t, n>> \notin timers'
    BY <1>2, <1>3, TimerOwner
  <2> QED
    BY <1>1, <1>2, <1>3, <1>5, <2>1, <2>2 DEF Alone, Moving, Queued
<1>8. timers' \subseteq Task \X Nat
  BY <1>2 DEF TypeOK, WorkTypeOK
<1> QED
  BY <1>2, <1>3, <1>5, <1>6, <1>7, <1>8, LiveThreads DEF Live

\* A new slot for a task that has none.
LEMMA NewSlot ==
  ASSUME TypeOK, QueueInv, NEW t \in Task, ~HasSlot(t),
         ready' = ready \cup {Slot(t, nextSeq)}, deferred' = deferred
  PROVE  /\ HasSlot(t)' /\ \A d \in Task \ {t} : HasSlot(d)' <=> HasSlot(d)
         /\ ready' \cap deferred' = {}
         /\ \A r, q \in Slots' : r.task = q.task => r = q
<1>1. Slot(t, nextSeq).task = t
  BY DEF Slot
<1>2. Slots' = Slots \cup {Slot(t, nextSeq)}
  BY DEF Slots
<1>3. \A r \in Slots : r.task # t
  BY DEF HasSlot
<1>4. Slot(t, nextSeq) \notin deferred
  BY <1>1, <1>3 DEF Slots
<1> HIDE DEF Slots
<1>5. HasSlot(t)' /\ \A d \in Task \ {t} : HasSlot(d)' <=> HasSlot(d)
  BY <1>1, <1>2 DEF HasSlot
<1>6. \A r, q \in Slots' : r.task = q.task => r = q
  BY <1>1, <1>2, <1>3 DEF QueueInv
<1>7. ready' \cap deferred' = {}
  BY <1>4 DEF QueueInv
<1> QED
  BY <1>5, <1>6, <1>7

LEMMA ResumeThreads ==
  ASSUME PlainPauses, TypeOK, AttemptInv, ThreadInv, NEW t \in Task, Resume(t)
  PROVE  ThreadInv'
<1>1. QueueInv /\ Alone(t) /\ state[t] = "Paused"
  BY DEF ThreadInv, Resume
<1>2. pending[t] = {} /\ ~HasSlot(t) /\ Resting(t) /\ \A n : <<t, n>> \notin timers
  BY <1>1, PausedIsPlain, TimerOwner
<1>3. CASE FinishUnsuccessful(t, "Cancelled") /\ UNCHANGED ready
  BY <1>3, EndingThreads DEF Outcome, BodyResult
<1>4. CASE ~IsCancelled(t) /\ state' = [state EXCEPT ![t] = "Pending"] /\ Push(t)
           /\ UNCHANGED <<outcome, body, attempt, pending, lineage, dependents, waiter>>
  <2>1. /\ pc = "idle" /\ pc' = "pump" /\ closing' = {} /\ deferred = {} /\ deferred' = deferred
        /\ ready' = ready \cup {Slot(t, nextSeq)}
        /\ UNCHANGED <<timers, work>>
    BY <1>1, <1>4 DEF Resume, Push, QueueInv, workVars
  <2>2. state'[t] = "Pending" /\ \A d \in Task \ {t} : state'[d] = state[d]
    BY <1>4 DEF TypeOK, EntryTypeOK
  <2>3. /\ HasSlot(t)' /\ \A d \in Task \ {t} : HasSlot(d)' <=> HasSlot(d)
        /\ ready' \cap deferred' = {}
        /\ \A r, q \in Slots' : r.task = q.task => r = q
    BY <1>1, <1>2, <2>1, NewSlot
  <2>4. QueueInv'
    BY <1>1, <1>4, <2>1, <2>3 DEF QueueInv
  <2>5. Alone(t)' /\ Moving(t)'
    <3>1. Resting(t)' /\ \A n : <<t, n>> \notin timers'
      BY <1>2, <2>1 DEF Resting
    <3>2. ~Backing(t)'
      BY <2>1, <1>1, NotBacking DEF Backing
    <3> QED
      BY <1>1, <1>4, <2>1, <2>2, <2>3, <3>1, <3>2 DEF Alone, Moving, Queued
  <2>6. timers' \subseteq Task \X Nat
    BY <2>1 DEF TypeOK, WorkTypeOK
  <2> QED
    BY <1>1, <1>4, <2>1, <2>2, <2>3, <2>4, <2>5, <2>6, LiveThreads DEF Live
<1> QED
  BY <1>2, <1>3, <1>4 DEF Resume

LEMMA BackoffThreads ==
  ASSUME PlainPauses, TypeOK, AttemptInv, ThreadInv, NEW k \in timers, Backoff(k[1], k[2])
  PROVE  ThreadInv'
<1>1. PICK t \in Task, n \in Nat : k = <<t, n>>
  BY DEF TypeOK, WorkTypeOK
<1>2. /\ Backing(t) /\ state[t] = "Waiting" /\ Resting(t) /\ ~HasSlot(t) /\ attempt[t] = n
      /\ \A j \in timers : j[1] = t => j = <<t, n>>
  BY <1>1, TimerOwner
<1>3. Requeue(t, n) \/ BackoffCancelled(t, n)
  BY <1>1 DEF Backoff
<1>4. QueueInv /\ Alone(t)
  BY DEF ThreadInv
<1>5. CASE FinishUnsuccessful(t, "Cancelled") /\ UNCHANGED ready
  BY <1>3, <1>5, EndingThreads DEF Outcome, BodyResult
<1>6. CASE UNCHANGED <<entryVars, waiter>> /\ Push(t) /\ Requeue(t, n)
  <2>1. /\ pc = "idle" /\ pc' = "pump" /\ closing' = {} /\ deferred = {} /\ deferred' = deferred
        /\ ready' = ready \cup {Slot(t, nextSeq)} /\ timers' = timers \ {<<t, n>>} /\ work' = work
        /\ UNCHANGED <<outcome, pending, dependents, waiter, state, body, attempt>>
    BY <1>4, <1>6 DEF Requeue, Push, QueueInv, entryVars
  <2>2. /\ HasSlot(t)' /\ \A d \in Task \ {t} : HasSlot(d)' <=> HasSlot(d)
        /\ ready' \cap deferred' = {}
        /\ \A r, q \in Slots' : r.task = q.task => r = q
    BY <1>2, <1>4, <2>1, NewSlot
  <2>3. QueueInv'
    BY <1>4, <2>1, <2>2 DEF QueueInv
  <2>4. Alone(t)' /\ Moving(t)'
    <3>1. Resting(t)' /\ ~Backing(t)' /\ \A m : <<t, m>> \notin timers'
      BY <1>2, <2>1 DEF Resting, Backing
    <3> QED
      BY <1>2, <1>4, <2>1, <2>2, <3>1 DEF Alone, Moving, Queued
  <2>5. timers' \subseteq Task \X Nat
    BY <2>1 DEF TypeOK, WorkTypeOK
  <2>6. \A d \in Task \ {t} : \A m : <<d, m>> \in timers' <=> <<d, m>> \in timers
    BY <2>1
  <2> QED
    BY <1>2, <2>1, <2>2, <2>3, <2>4, <2>5, <2>6, LiveThreads DEF Live
<1>7. state[t] \notin Terminal /\ ~IsStale(t, n)
  BY <1>2 DEF IsStale, Terminal
<1> QED
  BY <1>3, <1>5, <1>6, <1>7 DEF Requeue, BackoffCancelled, queueVars

LEMMA CancelThreads ==
  ASSUME PlainPauses, TypeOK, AttemptInv, ThreadInv, NEW t \in Task, Cancel(t)
  PROVE  ThreadInv'
<1>1. CASE FinishUnsuccessful(t, "Cancelled") /\ state[t] = "Pending"
  BY <1>1, EndingThreads DEF Outcome, BodyResult
<1>2. CASE UNCHANGED <<entryVars, waiter>>
  <2>1. /\ pc = "idle" /\ pc' = "pump" /\ UNCHANGED <<closing, ready, deferred, work, timers>>
    BY DEF Cancel, queueVars, workVars
  <2>2. Slots' = Slots /\ QueueInv'
    BY <1>2, <2>1 DEF ThreadInv, QueueInv, Slots, entryVars
  <2>3. \A d \in Task : /\ Moving(d)' /\ Told(d)'
                        /\ Resting(d)' <=> Resting(d)
    BY <1>2, <2>1 DEF ThreadInv, Moving, Told, Resting, HasSlot, Backing, Slots, entryVars
  <2> QED
    BY <1>2, <2>1, <2>2, <2>3, QueueThreads
<1> QED
  BY <1>1, <1>2 DEF Cancel

\* A task that was never submitted is nowhere.
LEMMA AbsentIsNowhere ==
  ASSUME TypeOK, AttemptInv, ThreadInv, NEW t \in Task, state[t] = "Absent"
  PROVE  /\ ~HasSlot(t) /\ Resting(t) /\ ~Backing(t) /\ attempt[t] = 0
         /\ \A n : <<t, n>> \notin timers
         /\ \A x \in Task : \A i \in DOMAIN dependents[x] : dependents[x][i] # t
<1>1. ~HasSlot(t)
  BY DEF AttemptInv, SlotInv, HasSlot
<1>2. Resting(t) /\ attempt[t] = 0
  BY DEF AttemptInv, EntryInv, Resting
<1>3. ~Backing(t) /\ \A n : <<t, n>> \notin timers
  BY NotBacking, TimerOwner
<1>4. \A x \in Task : \A i \in DOMAIN dependents[x] : dependents[x][i] # t
  BY DEF AttemptInv, BlockedInv
<1> QED
  BY <1>1, <1>2, <1>3, <1>4

LEMMA SubmitThreads ==
  ASSUME TypeOK, AttemptInv, ThreadInv, NEW t \in Task, Submit(t)
  PROVE  ThreadInv'
<1>1. /\ pc = "idle" /\ pc' = "pump" /\ closing' = closing /\ deferred' = deferred
      /\ UNCHANGED <<attempt, work, timers, waiter>> /\ state[t] = "Absent"
  BY DEF Submit, workVars
<1>2. QueueInv /\ closing = {} /\ deferred = {}
  BY <1>1 DEF ThreadInv, QueueInv
<1>3. /\ ~HasSlot(t) /\ Resting(t) /\ ~Backing(t) /\ attempt[t] = 0
      /\ \A n : <<t, n>> \notin timers
      /\ \A x \in Task : \A i \in DOMAIN dependents[x] : dependents[x][i] # t
  BY <1>1, AbsentIsNowhere
<1>4. \A d \in Task \ {t} : /\ state'[d] = state[d] /\ outcome'[d] = outcome[d]
                            /\ body'[d] = body[d] /\ pending'[d] = pending[d]
  BY DEF Submit, TypeOK, EntryTypeOK
<1>5. \A x \in Task : dependents[x] \in Seq(Task)
  BY DEF TypeOK, EntryTypeOK
<1>6. \/ state'[t] = "Failed" /\ UNCHANGED <<pending, dependents, ready>>
      \/ /\ ~Unsatisfiable(t) /\ state'[t] = "Pending" /\ body'[t] /\ pending'[t] = OpenDeps(t)
         /\ dependents' = [d \in Task |->
              IF d \in OpenDeps(t) THEN Append(dependents[d], t) ELSE dependents[d]]
         /\ IF OpenDeps(t) = {} THEN ready' = ready \cup {Slot(t, nextSeq)} ELSE ready' = ready
  BY <1>1 DEF Submit, Push, TypeOK, EntryTypeOK
<1>7. \A x \in Task : /\ DOMAIN dependents[x] \subseteq DOMAIN dependents'[x]
                      /\ \A i \in DOMAIN dependents[x] : dependents'[x][i] = dependents[x][i]
                      /\ \A i \in DOMAIN dependents'[x] \ DOMAIN dependents[x] :
                           dependents'[x][i] = t /\ i = Len(dependents[x]) + 1
  BY <1>5, <1>6, SMTT(30)
<1>8. /\ \A d \in Task \ {t} : HasSlot(d)' <=> HasSlot(d)
      /\ ready' \cap deferred' = {} /\ \A r, q \in Slots' : r.task = q.task => r = q
      /\ HasSlot(t)' <=> state'[t] = "Pending" /\ OpenDeps(t) = {}
  <2>1. CASE ready' = ready /\ ~(state'[t] = "Pending" /\ OpenDeps(t) = {})
    BY <1>1, <1>2, <1>3, <2>1 DEF QueueInv, HasSlot, Slots
  <2>2. CASE state'[t] = "Pending" /\ OpenDeps(t) = {} /\ ready' = ready \cup {Slot(t, nextSeq)}
    BY <1>1, <1>2, <1>3, <2>2, NewSlot
  <2> QED
    BY <1>6, <2>1, <2>2
<1>9. QueueInv'
  <2>1. ASSUME NEW x \in Task, NEW i \in DOMAIN dependents'[x], NEW j \in DOMAIN dependents'[x],
               dependents'[x][i] = dependents'[x][j]
        PROVE  i = j
    <3>1. CASE i \in DOMAIN dependents[x] /\ j \in DOMAIN dependents[x]
      BY <1>2, <1>7, <2>1, <3>1 DEF QueueInv
    <3>2. CASE i \notin DOMAIN dependents[x] \/ j \notin DOMAIN dependents[x]
      BY <1>3, <1>7, <2>1, <3>2
    <3> QED
      BY <3>1, <3>2
  <2> QED
    BY <1>1, <1>2, <1>8, <2>1 DEF QueueInv
<1>10. ASSUME NEW d \in Task \ {t} PROVE Alone(d)' /\ Moving(d)' /\ Told(d)'
  <2>1. Alone(d) /\ Moving(d) /\ Told(d)
    BY DEF ThreadInv
  <2>2. /\ Resting(d)' <=> Resting(d)
        /\ Backing(d)' <=> Backing(d)
        /\ Withdrawn(d)' <=> Withdrawn(d)
    BY <1>1, <1>4 DEF Resting, Backing, Withdrawn
  <2>3. HasSlot(d)' <=> HasSlot(d)
    BY <1>8
  <2>4. Alone(d)'
    BY <1>1, <1>2, <1>4, <2>1, <2>2, <2>3 DEF Alone
  <2>5. Moving(d)'
    BY <1>1, <1>4, <2>1, <2>2, <2>3 DEF Moving
  <2> QED
    BY <1>1, <1>4, <2>1, <2>4, <2>5 DEF Told
<1>11. Alone(t)' /\ Moving(t)' /\ Told(t)'
  <2>1. Resting(t)' /\ ~Backing(t)' /\ \A n : <<t, n>> \notin timers'
    BY <1>1, <1>3 DEF Resting, Backing
  <2>2. state'[t] = "Pending" => body'[t] /\ pending'[t] = OpenDeps(t)
    BY <1>6
  <2>3. state'[t] \in {"Pending", "Failed"}
    BY <1>6
  <2>4. waiter'[t] \notin Outcome
    BY <1>1 DEF ThreadInv, Told, Terminal
  <2>5. Alone(t)'
    BY <1>1, <1>2, <1>8, <2>1, <2>2, <2>3 DEF Alone, Queued
  <2> QED
    BY <1>8, <2>2, <2>3, <2>4, <2>5 DEF Moving, Told
<1>12. ASSUME NEW d \in Task, NEW x \in Task, BlockedOn(d, x) PROVE BlockedOn(d, x)'
  <2>1. state[x] \in Live /\ x # t
    BY <1>1, <1>12 DEF BlockedOn, Live
  <2>2. PICK i \in DOMAIN dependents[x] : dependents[x][i] = d
    BY <1>12 DEF BlockedOn
  <2> QED
    BY <1>4, <1>7, <2>1, <2>2 DEF BlockedOn
<1>13. ASSUME NEW d \in Task \ {t} PROVE Waits(d)'
  <2>1. Waits(d) /\ pending[d] \subseteq Task /\ DependsOn[d] \subseteq Task
    BY SpecAssumption DEF ThreadInv, TypeOK, EntryTypeOK
  <2>2. \A x \in Task : state[x] = "Completed" => state'[x] = "Completed"
    BY <1>1, <1>4
  <2> QED
    BY <1>4, <1>12, <2>1, <2>2 DEF Waits
<1>14. Waits(t)'
  <2>1. CASE state'[t] = "Failed" /\ UNCHANGED pending
    BY <2>1 DEF ThreadInv, Waits, Live
  <2>2. CASE /\ ~Unsatisfiable(t) /\ pending'[t] = OpenDeps(t)
             /\ dependents' = [d \in Task |->
                  IF d \in OpenDeps(t) THEN Append(dependents[d], t) ELSE dependents[d]]
    <3>1. DependsOn[t] \subseteq Task /\ OpenDeps(t) \subseteq DependsOn[t]
      BY SpecAssumption DEF OpenDeps
    <3>2. ASSUME NEW x \in OpenDeps(t) PROVE BlockedOn(t, x)'
      <4>1. x \in Task /\ state[x] \in Live /\ x # t /\ state'[x] = state[x]
        BY <1>1, <1>4, <3>1 DEF OpenDeps, Live
      <4>2. dependents'[x] = Append(dependents[x], t) /\ dependents[x] \in Seq(Task)
        BY <1>5, <2>2, <4>1
      <4>3. /\ Len(dependents[x]) + 1 \in DOMAIN dependents'[x]
            /\ dependents'[x][Len(dependents[x]) + 1] = t
        BY <4>2
      <4> QED
        BY <4>1, <4>3 DEF BlockedOn
    <3>3. ASSUME NEW x \in DependsOn[t] PROVE state'[x] = "Completed" \/ x \in OpenDeps(t)
      <4>1. x \in Task /\ state[x] \notin {"Absent", "Failed", "Cancelled"}
        BY <2>2, <3>1 DEF Unsatisfiable
      <4>2. state[x] \in Live \/ state[x] = "Completed"
        BY <4>1, StateKinds DEF Terminal
      <4> QED
        BY <1>1, <1>4, <4>1, <4>2 DEF OpenDeps
    <3> QED
      BY <2>2, <3>1, <3>2, <3>3 DEF Waits
  <2> QED
    BY <1>6, <2>1, <2>2
<1> QED
  BY <1>9, <1>10, <1>11, <1>13, <1>14 DEF ThreadInv

\* Whoever waits for t alone is pending, and nowhere else.
LEMMA FreedIsPending ==
  ASSUME PlainPauses, TypeOK, AttemptInv, ThreadInv, NEW t \in Task, NEW i \in DOMAIN dependents[t],
         state[dependents[t][i]] \notin Terminal, pending[dependents[t][i]] \subseteq {t}
  PROVE  LET u == dependents[t][i] IN
         /\ u \in Task /\ state[u] = "Pending" /\ pending[u] = {t}
         /\ ~HasSlot(u) /\ ~Backing(u) /\ Resting(u) /\ \A n : <<u, n>> \notin timers
<1> DEFINE u == dependents[t][i]
<1>1. u \in Task
  BY DEF TypeOK, EntryTypeOK
<1>2. state[u] \in Live /\ pending[u] = {t}
  <2>1. state[u] # "Absent" /\ (state[u] \in Live => t \in pending[u])
    BY DEF AttemptInv, BlockedInv
  <2> QED
    BY <1>1, <2>1, StateKinds
<1> HIDE DEF u
<1>3. attempt[u] = 0 /\ Resting(u)
  <2>1. EntryInv(u) /\ pending[u] # {}
    BY <1>1, <1>2 DEF AttemptInv
  <2> QED
    BY <1>2, <2>1 DEF EntryInv, Resting
<1>4. ~HasSlot(u)
  BY <1>2 DEF AttemptInv, SlotInv, HasSlot
<1>5. state[u] = "Pending"
  <2>1. Alone(u) /\ Waits(u)
    BY <1>1 DEF ThreadInv
  <2>2. state[u] # "Paused"
    BY <1>2, <2>1 DEF PlainPauses, Alone, Waits
  <2>3. state[u] # "Running" /\ state[u] # "Waiting"
    BY <1>3, <2>1 DEF Alone
  <2> QED
    BY <1>2, <2>2, <2>3 DEF Live
<1>6. ~Backing(u) /\ \A n : <<u, n>> \notin timers
  BY <1>1, <1>5, NotBacking, TimerOwner
<1> QED
  BY <1>1, <1>2, <1>3, <1>4, <1>5, <1>6 DEF u

LEMMA CompletedThreads ==
  ASSUME PlainPauses, TypeOK, AttemptInv, ThreadInv, NEW t \in Task, state[t] = "Running",
         FinishCompleted(t), pc = "idle", pc' = "pump", closing' = closing, deferred' = deferred,
         timers' = timers, work'[t].phase = "none", \A d \in Task \ {t} : work'[d] = work[d]
  PROVE  ThreadInv'
<1> DEFINE blocked == dependents[t]
           released == {i \in DOMAIN blocked :
                          state[blocked[i]] \notin Terminal /\ pending[blocked[i]] \subseteq {t}}
           new == {Slot(blocked[i], nextSeq + i - 1) : i \in released}
<1>1. /\ \A d \in Task \ {t} : /\ state'[d] = state[d] /\ outcome'[d] = outcome[d] /\ waiter'[d] = waiter[d]
                               /\ body'[d] = body[d] /\ dependents'[d] = dependents[d]
      /\ state'[t] = "Completed" /\ outcome'[t] = "Completed" /\ dependents'[t] = <<>>
      /\ waiter'[t] = Answered(waiter[t], "Completed")
      /\ \A d \in Task : pending'[d] = pending[d] \ {t}
      /\ attempt' = attempt
  BY DEF FinishCompleted, DropBodies, TypeOK, EntryTypeOK, WorkTypeOK
<1>2. ready' = ready \cup new
  BY DEF FinishCompleted
<1>3. QueueInv /\ closing = {} /\ deferred = {} /\ Alone(t)
  BY DEF ThreadInv, QueueInv
<1>4. ~HasSlot(t) /\ ~Resting(t) /\ \A n : <<t, n>> \notin timers
  BY <1>3, TimerOwner DEF Alone
<1>5. \A i \in released : /\ blocked[i] \in Task \ {t} /\ state[blocked[i]] = "Pending"
                          /\ pending[blocked[i]] = {t}
                          /\ ~HasSlot(blocked[i]) /\ ~Backing(blocked[i]) /\ Resting(blocked[i])
  BY <1>4, FreedIsPending
<1>6. \A s \in new : \E i \in released : s = Slot(blocked[i], nextSeq + i - 1)
  OBVIOUS
<1>7. \A i \in released : Slot(blocked[i], nextSeq + i - 1) \in new
  OBVIOUS
<1>8. \A i, j \in DOMAIN blocked : blocked[i] = blocked[j] => i = j
  BY <1>3 DEF QueueInv
<1>9. Slots = ready /\ Slots' = ready \cup new
  BY <1>2, <1>3 DEF Slots
<1>10. \A i \in released : i \in DOMAIN blocked
  OBVIOUS
<1>11. \A d \in Task, i \in DOMAIN dependents[t] :
         dependents[t][i] = d /\ state[d] \notin Terminal /\ pending[d] \subseteq {t} => i \in released
  OBVIOUS
<1> HIDE DEF blocked, released, new
<1>12. \A d \in Task : HasSlot(d)' <=> HasSlot(d) \/ \E i \in released : blocked[i] = d
  <2>1. \A u, m : Slot(u, m).task = u
    BY DEF Slot
  <2>2. \A d \in Task : HasSlot(d)' <=> HasSlot(d) \/ \E y \in new : y.task = d
    BY <1>9 DEF HasSlot
  <2>3. \A d : (\E y \in new : y.task = d) <=> \E i \in released : blocked[i] = d
    BY <1>6, <1>7, <2>1
  <2> QED
    BY <2>2, <2>3
<1>13. QueueInv'
  <2>1. ASSUME NEW r \in Slots', NEW q \in Slots', r.task = q.task PROVE r = q
    <3>1. CASE r \in ready /\ q \in ready
      BY <1>3, <1>9, <2>1, <3>1 DEF QueueInv
    <3>2. CASE r \in new /\ q \in new
      <4>1. PICK i \in released : r = Slot(blocked[i], nextSeq + i - 1)
        BY <1>6, <3>2
      <4>2. PICK j \in released : q = Slot(blocked[j], nextSeq + j - 1)
        BY <1>6, <3>2
      <4>3. blocked[i] = blocked[j]
        BY <2>1, <4>1, <4>2 DEF Slot
      <4> QED
        BY <1>8, <1>10, <4>1, <4>2, <4>3
    <3>3. ASSUME NEW x \in ready, NEW y \in new, x.task = y.task PROVE FALSE
      <4>1. PICK i \in released : y = Slot(blocked[i], nextSeq + i - 1)
        BY <1>6
      <4>2. x.task = blocked[i]
        BY <3>3, <4>1 DEF Slot
      <4> QED
        BY <1>5, <1>9, <4>2 DEF HasSlot
    <3> QED
      BY <1>9, <2>1, <3>1, <3>2, <3>3
  <2>2. \A x \in Task : \A i, j \in DOMAIN dependents'[x] : dependents'[x][i] = dependents'[x][j] => i = j
    BY <1>1, <1>3 DEF QueueInv
  <2> QED
    BY <1>3, <2>1, <2>2 DEF QueueInv
<1>14. \A d \in Task \ {t} : (Resting(d)' <=> Resting(d)) /\ (Withdrawn(d)' <=> Withdrawn(d))
  BY <1>1 DEF Resting, Withdrawn
<1>15. \A d \in Task : Backing(d)' <=> Backing(d)
  BY DEF Backing
<1>16. ASSUME NEW d \in Task PROVE Alone(d)'
  <2>1. CASE d = t
    <3>1. ~HasSlot(t)' /\ Resting(t)' /\ \A n : <<t, n>> \notin timers'
      BY <1>4, <1>5, <1>12 DEF Resting
    <3> QED
      BY <1>1, <1>3, <2>1, <3>1 DEF Alone, Queued
  <2>2. CASE d # t
    <3>1. Alone(d)
      BY DEF ThreadInv
    <3>2. HasSlot(d)' => Resting(d)' /\ ~Backing(d)' /\ (state'[d] \in Queued \/ Withdrawn(d)')
      <4>1. CASE HasSlot(d)
        BY <1>1, <1>14, <1>15, <2>2, <3>1, <4>1 DEF Alone
      <4>2. CASE \E i \in released : blocked[i] = d
        BY <1>1, <1>5, <1>14, <1>15, <2>2, <4>2 DEF Queued
      <4> QED
        BY <1>12, <4>1, <4>2
    <3> QED
      BY <1>1, <1>3, <1>14, <2>2, <3>1, <3>2 DEF Alone
  <2> QED
    BY <2>1, <2>2
<1>17. ASSUME NEW d \in Task PROVE Waits(d)'
  <2>1. Waits(d) /\ DependsOn[d] \subseteq Task /\ pending[d] \subseteq Task
    BY SpecAssumption DEF ThreadInv, TypeOK, EntryTypeOK
  <2>2. CASE d = t
    BY <1>1, <2>1, <2>2 DEF Waits, Live
  <2>3. CASE d # t
    <3>1. \A x \in Task \ {t} : BlockedOn(d, x) => BlockedOn(d, x)'
      BY <1>1 DEF BlockedOn
    <3>2. \A x \in Task : state[x] = "Completed" => state'[x] = "Completed"
      BY <1>1
    <3> QED
      BY <1>1, <2>1, <2>3, <3>1, <3>2 DEF Waits
  <2> QED
    BY <2>2, <2>3
<1>18. ASSUME NEW d \in Task PROVE Moving(d)'
  <2>1. CASE d = t
    BY <1>1, <2>1 DEF Moving
  <2>2. CASE d # t
    <3>1. Moving(d) /\ Waits(d) /\ state'[d] = state[d]
      BY <1>1, <2>2 DEF ThreadInv
    <3>2. ASSUME state[d] = "Pending", pending[d] # {}, pending[d] \ {t} = {}
          PROVE  HasSlot(d)'
      <4>1. BlockedOn(d, t)
        BY <3>1, <3>2 DEF Waits, Live
      <4>2. PICK i \in DOMAIN dependents[t] : dependents[t][i] = d
        BY <4>1 DEF BlockedOn
      <4>3. i \in released /\ blocked[i] = d
        BY <1>11, <3>2, <4>2 DEF Terminal, blocked
      <4> QED
        BY <1>12, <4>3
    <3> QED
      BY <1>1, <1>12, <1>15, <3>1, <3>2 DEF Moving
  <2> QED
    BY <2>1, <2>2
<1>19. ASSUME NEW d \in Task PROVE Told(d)'
  <2>1. Told(d)
    BY DEF ThreadInv
  <2>2. CASE d = t
    <3>1. waiter[t] \notin Outcome
      BY <2>1, <2>2 DEF Told, Terminal
    <3> QED
      BY <1>1, <2>2, <3>1 DEF Told, Answered, Terminal
  <2> QED
    BY <1>1, <2>1, <2>2 DEF Told
<1> QED
  BY <1>13, <1>16, <1>17, <1>18, <1>19 DEF ThreadInv

LEMMA SettleThreads ==
  ASSUME PlainPauses, TypeOK, AttemptInv, ThreadInv, NEW t \in Task, Settle(t)
  PROVE  ThreadInv'
<1> DEFINE n == work[t].attempt
           out == work[t].outcome
<1>1. /\ pc = "idle" /\ pc' = "pump" /\ closing' = closing /\ deferred' = deferred
      /\ work[t].phase = "reported" /\ work'[t].phase = "none"
      /\ \A d \in Task \ {t} : work'[d] = work[d]
  BY DEF Settle, Idle, TypeOK, WorkTypeOK, WorkOK
<1>2. QueueInv /\ Alone(t) /\ closing = {} /\ deferred = {}
  BY <1>1 DEF ThreadInv, QueueInv
<1>3. ~Resting(t) /\ state[t] = "Running" /\ ~HasSlot(t) /\ \A m : <<t, m>> \notin timers
  BY <1>1, <1>2, TimerOwner DEF Alone, Resting
<1>4. n = attempt[t] /\ attempt[t] > 0 /\ attempt[t] \in Nat
  BY <1>1 DEF AttemptInv, EntryInv, TypeOK, EntryTypeOK
<1>5. out \in Outcome
  BY <1>1 DEF TypeOK, WorkTypeOK, WorkOK
<1>6. ~IsStale(t, n)
  BY <1>3, <1>4 DEF IsStale, Terminal
<1>7. CASE MayRetry(t, n, out)
  <2>1. /\ body' = [body EXCEPT ![t] = TRUE] /\ state' = [state EXCEPT ![t] = "Waiting"]
        /\ timers' = timers \cup {<<t, n>>}
        /\ UNCHANGED <<outcome, attempt, pending, dependents, ready, waiter>>
    BY <1>6, <1>7 DEF Settle
  <2>2. /\ state'[t] = "Waiting" /\ body'[t]
        /\ \A d \in Task \ {t} : state'[d] = state[d] /\ body'[d] = body[d]
    BY <2>1 DEF TypeOK, EntryTypeOK
  <2>3. Slots' = Slots
    BY <1>1, <2>1 DEF Slots
  <2>4. \A d \in Task : HasSlot(d)' <=> HasSlot(d)
    BY <2>3 DEF HasSlot
  <2>5. QueueInv'
    BY <1>1, <1>2, <2>1, <2>3 DEF QueueInv
  <2>6. n < MaxAttempts[t] /\ MaxAttempts[t] > 1
    BY <1>4, <1>7, SpecAssumption DEF MayRetry
  <2>7. Alone(t)'
    <3>1. Resting(t)' /\ ~HasSlot(t)' /\ t \notin closing' /\ attempt'[t] = n
      BY <1>1, <1>2, <1>3, <1>4, <2>1, <2>4 DEF Resting
    <3>2. \A m \in Nat : <<t, m>> \in timers' => m = n
      BY <1>3, <2>1
    <3> QED
      BY <1>4, <2>2, <2>6, <3>1, <3>2 DEF Alone
  <2>8. Moving(t)'
    <3>1. Backing(t)'
      <4>1. <<t, n>> \in timers' /\ <<t, n>>[1] = t
        BY <2>1
      <4> QED
        BY <4>1 DEF Backing
    <3> QED
      BY <2>2, <3>1 DEF Moving
  <2>9. /\ timers' \subseteq Task \X Nat
        /\ \A d \in Task \ {t} : \A m : <<d, m>> \in timers' <=> <<d, m>> \in timers
    BY <1>4, <2>1 DEF TypeOK, WorkTypeOK
  <2>10. \A d \in Task \ {t} : attempt'[d] = attempt[d]
    BY <2>1
  <2> HIDE DEF n, out
  <2> QED
    BY <1>1, <1>2, <1>3, <2>1, <2>2, <2>4, <2>5, <2>7, <2>8, <2>9, <2>10, LiveThreads DEF Live
<1>8. CASE ~MayRetry(t, n, out) /\ out = "Completed"
  <2>1. FinishCompleted(t) /\ timers' = timers
    BY <1>6, <1>8 DEF Settle
  <2> QED
    BY <1>1, <1>3, <2>1, CompletedThreads
<1>9. CASE ~MayRetry(t, n, out) /\ out # "Completed"
  <2>1. FinishUnsuccessful(t, out) /\ UNCHANGED <<ready, timers>>
    BY <1>6, <1>9 DEF Settle
  <2>2. out \in Outcome \ {"Completed"}
    BY <1>5, <1>9
  <2> HIDE DEF out
  <2> QED
    BY <2>1, <2>2, EndingThreads
<1> QED
  BY <1>7, <1>8, <1>9

LEMMA ThreadSteps ==
  ASSUME PlainPauses, TypeOK, AttemptInv, ThreadInv, Next
  PROVE  ThreadInv'
<1>1. ASSUME NEW t \in Task, Submit(t) \/ Watch(t) \/ Cancel(t) \/ Pause(t) \/ Resume(t) PROVE ThreadInv'
  BY <1>1, SubmitThreads, OutsideThreads, CancelThreads, PauseThreads, ResumeThreads
<1>2. ASSUME NEW s \in ready, PumpCancelled(s) PROVE ThreadInv'
  <2>1. s.task \in Task /\ FinishUnsuccessful(s.task, "Cancelled")
    BY <1>2, SlotTask DEF PumpCancelled
  <2>2. "Cancelled" \in Outcome \ {"Completed"}
    BY DEF Outcome, BodyResult
  <2>3. \E r \in ready : r.task = s.task /\ PumpCancelled(r)
    BY <1>2
  <2> QED
    BY <2>1, <2>2, <2>3, EndingThreads
<1>3. ASSUME NEW s \in ready, PumpStart(s) PROVE ThreadInv'
  BY <1>3, StartThreads
<1>4. ASSUME NEW s \in ready, PumpDefer(s) \/ PumpDrop(s) PROVE ThreadInv'
  BY <1>4, QuietThreads
<1>5. ASSUME PumpEnd \/ Shutdown \/ CollectPaused \/ Stop PROVE ThreadInv'
  BY <1>5, QuietThreads
<1>6. ASSUME NEW t \in Task, Settle(t) \/ Work(t) PROVE ThreadInv'
  BY <1>6, SettleThreads, OutsideThreads
<1>7. ASSUME NEW k \in timers, Backoff(k[1], k[2]) PROVE ThreadInv'
  BY <1>7, BackoffThreads
<1>8. ASSUME NEW t \in Task, Drain(t) PROVE ThreadInv'
  <2>1. FinishUnsuccessful(t, "Cancelled") /\ "Cancelled" \in Outcome \ {"Completed"}
    BY <1>8 DEF Drain, Outcome, BodyResult
  <2> QED
    BY <1>8, <2>1, EndingThreads
<1> QED
  BY <1>1, <1>2, <1>3, <1>4, <1>5, <1>6, <1>7, <1>8 DEF Next, Client, Pump, Reports, Closing

\* One slot, one timer or one attempt for a task, and all its dependencies
\* know of it, if clients pause only what is not retried and waits for nobody.
THEOREM ThreadInvariant ==
  ASSUME PlainPauses
  PROVE  Spec => []ThreadInv
<1>1. Init => ThreadInv
  <2> SUFFICES ASSUME Init PROVE ThreadInv
    OBVIOUS
  <2>1. QueueInv
    BY DEF Init, QueueInv, Slots
  <2>2. ASSUME NEW t \in Task PROVE Alone(t) /\ Waits(t) /\ Moving(t) /\ Told(t)
    <3>1. /\ state[t] = "Absent" /\ work[t].phase = "none" /\ timers = {} /\ closing = {}
          /\ Slots = {} /\ pending[t] = {} /\ waiter[t] = "none"
      BY DEF Init, Idle, Slots
    <3> QED
      BY <3>1 DEF Alone, Waits, Moving, Told, Live, Queued, Outcome, BodyResult, HasSlot, Resting
  <2> QED
    BY <2>1, <2>2 DEF ThreadInv
<1>2. TypeOK /\ AttemptInv /\ ThreadInv /\ [Next]_vars => ThreadInv'
  <2> SUFFICES ASSUME TypeOK, AttemptInv, ThreadInv, UNCHANGED vars PROVE ThreadInv'
    BY ThreadSteps
  <2>1. UNCHANGED <<entryVars, timers, ready, deferred, pc, closing, work, waiter>>
    BY DEF vars, queueVars, workVars
  <2>2. QueueInv'
    BY <2>1 DEF ThreadInv, QueueInv, Slots, entryVars
  <2>3. \A d \in Task : /\ Moving(d)' /\ Told(d)'
                        /\ Resting(d)' <=> Resting(d)
    BY <2>1 DEF ThreadInv, Moving, Told, HasSlot, Backing, Slots, Resting, entryVars
  <2>4. Slots' = Slots /\ closing' = closing
    BY <2>1 DEF Slots
  <2> QED
    BY <2>1, <2>2, <2>3, <2>4, QueueThreads
<1> QED
  BY <1>1, <1>2, AttemptsInvariant, PTL DEF Spec

-----------------------------------------------------------------------------
(* What follows for one task, at every step.                               *)

Ended(t, out) ==
  /\ out \in Outcome \ {"Completed"} /\ FinishUnsuccessful(t, out)
  /\ state[t] \in Live \/ (Withdrawn(t) /\ out = "Cancelled")

Advances ==
  { <<"Pending", "Running">>, <<"Running", "Waiting">>, <<"Waiting", "Running">>,
    <<"Running", "Completed">>, <<"Pending", "Paused">>, <<"Paused", "Pending">> }

Moved(t) ==
  \/ state'[t] = state[t] /\ outcome'[t] = outcome[t]
  \/ state[t] = "Absent" /\ state'[t] \in {"Pending", "Failed"}
  \/ state[t] \in Live /\ state'[t] \in {"Failed", "Cancelled"}
  \/ <<state[t], state'[t]>> \in Advances

LEMMA EndedMoves ==
  ASSUME PlainPauses, TypeOK, AttemptInv, ThreadInv, NEW t \in Task, NEW out, Ended(t, out)
  PROVE  \A d \in Task : Moved(d)
<1>1. /\ state'[t] \in {"Failed", "Cancelled"} /\ outcome'[t] = out
      /\ out = "Cancelled" => Withdrawn(t)'
      /\ \A d \in Doomed(t) \ {t} : state'[d] = "Failed"
      /\ \A d \in Task \ Doomed(t) : state'[d] = state[d] /\ outcome'[d] = outcome[d]
  BY UnsuccessfulEntries DEF Ended
<1>2. \A d \in Doomed(t) \ {t} : state[d] \in Live
  BY DoomedAreIdle
<1>3. Moved(t)
  BY <1>1 DEF Ended, Moved, Withdrawn
<1> QED
  BY <1>1, <1>2, <1>3 DEF Moved

LEMMA StepMoves ==
  ASSUME PlainPauses, TypeOK, AttemptInv, ThreadInv, Next, NEW d \in Task
  PROVE  Moved(d)
<1>0. /\ "Cancelled" \in Outcome \ {"Completed"}
      /\ \A t \in Task : Alone(t)
  BY DEF Outcome, BodyResult, ThreadInv
<1>1. ASSUME UNCHANGED entryVars PROVE Moved(d)
  BY <1>1 DEF entryVars, Moved
<1>2. ASSUME NEW t \in Task, state[t] \in Live \/ Withdrawn(t), FinishUnsuccessful(t, "Cancelled")
      PROVE  Moved(d)
  BY <1>0, <1>2, EndedMoves DEF Ended
<1>3. ASSUME NEW t \in Task, NEW s, state' = [state EXCEPT ![t] = s],
             d = t => <<state[t], s>> \in Advances \/ (state[t] = "Absent" /\ s \in {"Pending", "Failed"}),
             d # t => outcome'[d] = outcome[d]
      PROVE  Moved(d)
  <2>1. d # t => state'[d] = state[d]
    BY <1>3 DEF TypeOK, EntryTypeOK
  <2>2. state'[t] = s
    BY <1>3 DEF TypeOK, EntryTypeOK
  <2> QED
    BY <1>3, <2>1, <2>2 DEF Moved
<1>4. ASSUME NEW t \in Task, Submit(t) PROVE Moved(d)
  <2>1. state[t] = "Absent" /\ (d # t => outcome'[d] = outcome[d])
    BY <1>4 DEF Submit, TypeOK, EntryTypeOK
  <2>2. \E s \in {"Pending", "Failed"} : state' = [state EXCEPT ![t] = s]
    BY <1>4 DEF Submit
  <2> QED
    BY <1>3, <2>1, <2>2
<1>5. ASSUME NEW t \in Task, Watch(t) \/ Work(t) PROVE Moved(d)
  <2>1. UNCHANGED entryVars
    BY <1>5 DEF Watch, Work, BeginBody, BodyReturns, SeeCancelled, MeetDeadline, StopBody, EndGrace,
       BodyPanics, workerFrame
  <2> QED
    BY <1>1, <2>1
<1>6. ASSUME NEW t \in Task, Cancel(t) PROVE Moved(d)
  BY <1>1, <1>2, <1>6 DEF Cancel
<1>7. ASSUME NEW t \in Task, Pause(t) PROVE Moved(d)
  <2>1. state[t] = "Pending" /\ outcome' = outcome /\ state' = [state EXCEPT ![t] = "Paused"]
    BY <1>0, <1>7 DEF Pause, Alone, PlainPauses
  <2> QED
    BY <1>3, <2>1 DEF Advances
<1>8. ASSUME NEW t \in Task, Resume(t) PROVE Moved(d)
  <2>1. state[t] = "Paused" /\ state[t] \in Live
    BY <1>8 DEF Resume, Live
  <2>2. \/ FinishUnsuccessful(t, "Cancelled")
        \/ state' = [state EXCEPT ![t] = "Pending"] /\ outcome' = outcome
    BY <1>8 DEF Resume
  <2> QED
    BY <1>2, <1>3, <2>1, <2>2 DEF Advances
<1>9. ASSUME NEW s \in ready, PumpCancelled(s) PROVE Moved(d)
  <2>1. s.task \in Task /\ HasSlot(s.task)
    BY SlotOwner DEF Slots
  <2>2. state[s.task] \in Live \/ Withdrawn(s.task)
    BY <1>0, <2>1 DEF Alone, Queued, Live
  <2> QED
    BY <1>2, <1>9, <2>1, <2>2 DEF PumpCancelled
<1>10. ASSUME NEW s \in ready, PumpStart(s) PROVE Moved(d)
  <2>1. s.task \in Task /\ HasSlot(s.task) /\ state[s.task] \in Live
    BY <1>10, SlotOwner, StartedWasLive DEF Slots
  <2>2. state[s.task] \in Queued
    BY <1>0, <2>1 DEF Alone, Withdrawn, Live
  <2>3. outcome' = outcome /\ state' = [state EXCEPT ![s.task] = "Running"]
    BY <1>10 DEF PumpStart
  <2> QED
    BY <1>3, <2>1, <2>2, <2>3 DEF Advances, Queued
<1>11. ASSUME NEW s \in ready, PumpDefer(s) \/ PumpDrop(s) PROVE Moved(d)
  BY <1>1, <1>11 DEF PumpDefer, PumpDrop
<1>12. ASSUME PumpEnd \/ Shutdown \/ CollectPaused \/ Stop PROVE Moved(d)
  BY <1>1, <1>12 DEF PumpEnd, Shutdown, CollectPaused, Stop
<1>13. ASSUME NEW t \in Task, Settle(t) PROVE Moved(d)
  <2> DEFINE n == work[t].attempt
             out == work[t].outcome
  <2>1. work[t].phase = "reported" /\ out \in Outcome
    BY <1>13 DEF Settle, TypeOK, WorkTypeOK, WorkOK
  <2>2. state[t] = "Running" /\ n = attempt[t]
    BY <1>0, <2>1 DEF Alone, Resting, AttemptInv, EntryInv
  <2>3. ~IsStale(t, n)
    BY <2>2 DEF IsStale, Terminal
  <2>4. CASE out # "Completed" /\ FinishUnsuccessful(t, out)
    <3>1. Ended(t, out)
      BY <2>1, <2>2, <2>4 DEF Ended, Live
    <3> HIDE DEF out
    <3> QED
      BY <3>1, EndedMoves
  <2>5. CASE FinishCompleted(t)
    <3>1. state' = [state EXCEPT ![t] = "Completed"] /\ (d # t => outcome'[d] = outcome[d])
      BY <2>5 DEF FinishCompleted, TypeOK, EntryTypeOK
    <3> QED
      BY <1>3, <2>2, <3>1 DEF Advances
  <2>6. CASE state' = [state EXCEPT ![t] = "Waiting"] /\ outcome' = outcome
    BY <1>3, <2>2, <2>6 DEF Advances
  <2> QED
    BY <1>13, <2>3, <2>4, <2>5, <2>6 DEF Settle
<1>14. ASSUME NEW k \in timers, Backoff(k[1], k[2]) PROVE Moved(d)
  <2>1. k[1] \in Task /\ k = <<k[1], k[2]>>
    BY DEF TypeOK, WorkTypeOK
  <2>2. state[k[1]] \in Live
    BY <2>1, TimerOwner DEF Live
  <2>3. UNCHANGED entryVars \/ FinishUnsuccessful(k[1], "Cancelled")
    BY <1>14 DEF Backoff, Requeue, BackoffCancelled
  <2> QED
    BY <1>1, <1>2, <2>1, <2>2, <2>3
<1>15. ASSUME NEW t \in Task, Drain(t) PROVE Moved(d)
  <2>1. state[t] \in Live \/ Withdrawn(t)
    BY <1>0, <1>15 DEF Drain, Alone, Queued, Live
  <2> QED
    BY <1>2, <1>15, <2>1 DEF Drain
<1> QED
  BY <1>4, <1>5, <1>6, <1>7, <1>8, <1>9, <1>10, <1>11, <1>12, <1>13, <1>14, <1>15
  DEF Next, Client, Pump, Reports, Closing

\* Nobody is told of an end while the attempt still unwinds: a task is settled
\* by its worker's report, or while no worker has it (driver.rs, on_cancel).
THEOREM SettledIsOver ==
  ASSUME PlainPauses
  PROVE  Spec => []SettledMeansOver
<1>1. ThreadInv => SettledMeansOver
  BY DEF ThreadInv, Alone, Resting, SettledMeansOver, Holds, Terminal
<1> QED
  BY <1>1, ThreadInvariant, PTL

\* What a caller of run_to_completion heard is what the entry records, then
\* and ever after (driver.rs, Entry.outcome and finish).
THEOREM AnswersAreTrue ==
  ASSUME PlainPauses
  PROVE  Spec => []AnswerIsOutcome
<1>1. ThreadInv => AnswerIsOutcome
  BY DEF ThreadInv, Told, AnswerIsOutcome
<1> QED
  BY <1>1, ThreadInvariant, PTL

\* While the driver serves, every unsettled task has a slot, a timer, a worker
\* or unsettled dependencies that know of it (driver.rs, submit and finish).
THEOREM NothingStranded ==
  ASSUME PlainPauses
  PROVE  Spec => []NoStrandedTask
<1>1. TypeOK /\ ThreadInv => NoStrandedTask
  <2> SUFFICES ASSUME TypeOK, ThreadInv, pc \notin {"draining", "holding", "stopped"}, NEW t \in Task
               PROVE  CASE state[t] = "Pending" -> \/ HasSlot(t)
                                                   \/ pending[t] # {} /\ \A d \in pending[t] : BlockedOn(t, d)
                        [] state[t] = "Waiting" -> HasSlot(t) \/ Backing(t)
                        [] state[t] = "Running" -> work[t].phase # "none"
                        [] OTHER -> TRUE
    BY DEF NoStrandedTask
  <2>1. pc \in {"idle", "pump"} /\ Alone(t) /\ Waits(t) /\ Moving(t)
    BY DEF TypeOK, QueueTypeOK, ThreadInv
  <2>2. CASE state[t] = "Pending"
    BY <2>1, <2>2 DEF Waits, Moving, Live
  <2>3. CASE state[t] = "Waiting"
    BY <2>1, <2>3 DEF Moving
  <2>4. CASE state[t] = "Running"
    BY <2>1, <2>4 DEF Alone, Resting
  <2> QED
    BY <2>2, <2>3, <2>4
<1> QED
  BY <1>1, ThreadInvariant, AttemptsInvariant, PTL

\* An attempt only ever runs on completed dependencies (driver.rs, submit's
\* open dependencies and finish's release).
THEOREM DependenciesComeFirst ==
  ASSUME PlainPauses
  PROVE  Spec => []DependenciesFirst
<1>1. TypeOK /\ AttemptInv /\ ThreadInv => DependenciesFirst
  <2> SUFFICES ASSUME TypeOK, AttemptInv, ThreadInv, NEW t \in Task, Holds(t), NEW d \in DependsOn[t]
               PROVE  state[d] = "Completed"
    BY DEF DependenciesFirst
  <2>1. ~Resting(t)
    BY DEF Holds, Resting
  <2>2. state[t] = "Running" /\ Waits(t)
    BY <2>1 DEF ThreadInv, Alone
  <2>3. EntryInv(t) /\ attempt[t] \in Nat
    BY DEF AttemptInv, TypeOK, EntryTypeOK
  <2>4. pending[t] = {}
    BY <2>1, <2>2, <2>3 DEF EntryInv, Resting, Live
  <2> QED
    BY <2>2, <2>4 DEF Waits, Live
<1> QED
  BY <1>1, ThreadInvariant, AttemptsInvariant, PTL

\* The driver implements the table of agent-core (state.rs, can_transition),
\* although nothing in it consults the table but pause.
THEOREM LifecycleFollowed ==
  ASSUME PlainPauses
  PROVE  Spec => FollowsLifecycle
<1>1. Init => Lifecycle!Init
  BY DEF Init, Lifecycle!Init
<1>2. TypeOK /\ AttemptInv /\ ThreadInv /\ Next => Lifecycle!Next
  <2> SUFFICES ASSUME TypeOK, AttemptInv, ThreadInv, Next PROVE Lifecycle!Next
    OBVIOUS
  <2>1. state' \in [Task -> Lifecycle!TaskState \cup {"Absent"}]
    <3>1. TypeOK'
      BY TypeInductive
    <3> QED
      BY <3>1 DEF TypeOK, EntryTypeOK, Live, Terminal, Lifecycle!TaskState, Lifecycle!Terminal
  <2>2. ASSUME NEW t \in Task PROVE Lifecycle!Move(t)
    <3>1. Moved(t)
      BY StepMoves
    <3>2. CASE state[t] = "Absent" /\ state'[t] \in {"Pending", "Failed"}
      BY <3>2 DEF Lifecycle!Move, Lifecycle!CanEnter
    <3>3. CASE state[t] \in Live /\ state'[t] \in {"Failed", "Cancelled"}
      BY <3>3 DEF Live, Lifecycle!Move, Lifecycle!CanTransition, Lifecycle!Terminal
    <3>4. CASE <<state[t], state'[t]>> \in Advances
      <4>1. <<state[t], state'[t]>> \in Lifecycle!Progress
        BY <3>4 DEF Advances, Lifecycle!Progress
      <4>2. state[t] \in {"Pending", "Running", "Waiting", "Paused"}
        BY <3>4 DEF Advances
      <4> QED
        BY <4>1, <4>2 DEF Lifecycle!Move, Lifecycle!CanTransition, Lifecycle!Terminal
    <3> QED
      BY <3>1, <3>2, <3>3, <3>4 DEF Moved, Lifecycle!Move
  <2> QED
    BY <2>1, <2>2 DEF Lifecycle!Next
<1>3. UNCHANGED vars => UNCHANGED state
  BY DEF vars, entryVars
<1>4. TypeOK /\ AttemptInv /\ ThreadInv /\ [Next]_vars => [Lifecycle!Next]_state
  BY <1>2, <1>3
<1> QED
  BY <1>1, <1>4, ThreadInvariant, AttemptsInvariant, PTL DEF Spec, FollowsLifecycle, Lifecycle!Spec

\* A settled outcome is kept verbatim (driver.rs, Entry.outcome): what settles
\* a task again settles it the same way.
THEOREM OutcomesAreFinal ==
  ASSUME PlainPauses
  PROVE  Spec => OutcomeIsFinal
<1> DEFINE Kept == \A t \in Task : state[t] \in Terminal => outcome'[t] = outcome[t]
<1>1. TypeOK /\ AttemptInv /\ ThreadInv /\ Next => Kept
  <2> SUFFICES ASSUME TypeOK, AttemptInv, ThreadInv, Next, NEW t \in Task, state[t] \in Terminal
               PROVE  outcome'[t] = outcome[t]
    OBVIOUS
  <2>1. Moved(t)
    BY StepMoves
  <2> QED
    BY <2>1 DEF Moved, Advances, Live, Terminal
<1>2. UNCHANGED vars => Kept
  BY DEF vars, entryVars
<1>3. TypeOK /\ AttemptInv /\ ThreadInv /\ [Next]_vars => [Kept]_vars
  BY <1>1, <1>2
<1> QED
  BY <1>3, ThreadInvariant, AttemptsInvariant, PTL DEF Spec, OutcomeIsFinal
=============================================================================
