-------------------------- MODULE SchedulerProofs --------------------------
(***************************************************************************)
(* Theorems about the scheduler, for every set of tasks, every dependency  *)
(* graph and family tree, every quota and every retry policy: its types,   *)
(* the attempts, and the permits.                                          *)
(***************************************************************************)
EXTENDS SchedulerProperties, FiniteSetTheorems, TLAPS

USE DEF Slot

-----------------------------------------------------------------------------
(* Type correctness.                                                       *)

LEMMA SlotTask ==
  ASSUME TypeOK, NEW s \in ready
  PROVE  s.task \in Task /\ s.seq \in Nat
BY DEF TypeOK, QueueTypeOK

\* An outcome that is not a completion leaves every field of the entries typed.
LEMMA FinishUnsuccessfulType ==
  ASSUME TypeOK, NEW t \in Task, NEW out \in Outcome, FinishUnsuccessful(t, out)
  PROVE  /\ EntryTypeOK'
         /\ waiter' \in [Task -> Outcome \cup {"none", "waiting", "stopped"}]
<1> DEFINE end == [d \in Task |-> IF d = t THEN out ELSE "DependencyFailed"]
<1>1. \A d \in Task : end[d] \in Outcome
  BY DEF Outcome
<1>2. \A o \in Outcome : StateOf(o) \in Terminal
  BY DEF StateOf, Terminal
<1>3. state' \in [Task -> Live \cup Terminal \cup {"Absent"}]
  BY <1>1, <1>2 DEF FinishUnsuccessful, TypeOK, EntryTypeOK
<1>4. outcome' \in [Task -> Outcome \cup {"none"}]
  BY <1>1 DEF FinishUnsuccessful, TypeOK, EntryTypeOK
<1>5. body' \in [Task -> BOOLEAN]
  BY DEF FinishUnsuccessful, DropBodies, TypeOK, EntryTypeOK
<1>6. dependents' \in [Task -> Seq(Task)]
  BY DEF FinishUnsuccessful, TypeOK, EntryTypeOK
<1>7. waiter' \in [Task -> Outcome \cup {"none", "waiting", "stopped"}]
  BY <1>1 DEF FinishUnsuccessful, Answered, TypeOK, WorkTypeOK, WorkOK
<1> QED
  BY <1>3, <1>4, <1>5, <1>6, <1>7 DEF FinishUnsuccessful, TypeOK, EntryTypeOK

LEMMA FinishCompletedType ==
  ASSUME TypeOK, NEW t \in Task, FinishCompleted(t)
  PROVE  /\ EntryTypeOK'
         /\ ready' \subseteq [task : Task, seq : Nat]
         /\ nextSeq' \in Nat
         /\ waiter' \in [Task -> Outcome \cup {"none", "waiting", "stopped"}]
<1>1. dependents[t] \in Seq(Task) /\ Len(dependents[t]) \in Nat
  BY DEF TypeOK, EntryTypeOK
<1>2. \A i \in DOMAIN dependents[t] : dependents[t][i] \in Task /\ nextSeq + i - 1 \in Nat
  BY <1>1 DEF TypeOK, QueueTypeOK
<1>3. ready' \subseteq [task : Task, seq : Nat]
  BY <1>2 DEF FinishCompleted, TypeOK, QueueTypeOK
<1>4. nextSeq' \in Nat
  BY <1>1 DEF FinishCompleted, TypeOK, QueueTypeOK
<1>5. EntryTypeOK'
  BY DEF FinishCompleted, DropBodies, TypeOK, EntryTypeOK, Terminal, Outcome, BodyResult
<1>6. waiter' \in [Task -> Outcome \cup {"none", "waiting", "stopped"}]
  BY DEF FinishCompleted, Answered, TypeOK, WorkTypeOK, WorkOK, Outcome, BodyResult
<1> QED
  BY <1>3, <1>4, <1>5, <1>6

LEMMA PushType ==
  ASSUME TypeOK, NEW t \in Task, Push(t)
  PROVE  ready' \subseteq [task : Task, seq : Nat] /\ nextSeq' \in Nat
BY DEF Push, TypeOK, QueueTypeOK

\* A worker's step touches its own record, a permit and its token.
LEMMA WorkStepType ==
  ASSUME TypeOK, NEW t \in Task, Work(t)
  PROVE  TypeOK'
<1> USE DEF TypeOK
<1>0. ClassOf[t] \in Class /\ free[ClassOf[t]] + 1 \in Nat
  BY SpecAssumption DEF WorkTypeOK, WorkOK
<1>1. ASSUME WorkOK', fired' \subseteq Task, free' \in [Class -> Nat], UNCHANGED workerFrame
      PROVE  TypeOK'
  BY <1>1 DEF workerFrame, EntryTypeOK, QueueTypeOK, WorkTypeOK, WorkOK, entryVars, queueVars
<1>2. ASSUME NEW out \in Outcome, Report(t, out)
      PROVE  WorkOK' /\ free' \in [Class -> Nat]
  <2>1. WorkOK'
    <3>1. work' \in [Task -> [phase : Phase, attempt : Nat, outcome : Outcome \cup {"none"}]]
      <4>1. [work[t] EXCEPT !.phase = "reported", !.outcome = out]
              \in [phase : Phase, attempt : Nat, outcome : Outcome \cup {"none"}]
        BY DEF WorkTypeOK, WorkOK, Phase
      <4> QED
        BY <1>2, <4>1 DEF Report, WorkTypeOK, WorkOK
    <3>2. work'[t].outcome = out /\ \A d \in Task \ {t} : work'[d] = work[d]
      BY <1>2 DEF Report, WorkTypeOK, WorkOK
    <3> QED
      BY <3>1, <3>2 DEF WorkTypeOK, WorkOK
  <2>2. free' \in [Class -> Nat]
    BY <1>0, <1>2 DEF Report, WorkTypeOK, WorkOK
  <2> QED
    BY <2>1, <2>2
<1>3. CASE BeginBody(t)
  <2>1. WorkOK'
    BY <1>3 DEF BeginBody, WorkTypeOK, WorkOK, Phase
  <2> QED
    BY <1>1, <1>3, <2>1 DEF BeginBody, WorkTypeOK, WorkOK
<1>4. ASSUME NEW out \in BodyResult, BodyReturns(t, out) PROVE TypeOK'
  BY <1>1, <1>2, <1>4 DEF BodyReturns, WorkTypeOK, WorkOK, Outcome
<1>5. ASSUME NEW out \in {"Cancelled", "TimedOut"}, StopBody(t, out) PROVE TypeOK'
  <2>1. WorkOK'
    BY <1>5, ZenonT(30) DEF StopBody, WorkTypeOK, WorkOK, Phase, Outcome, BodyResult
  <2> QED
    BY <1>1, <1>5, <2>1 DEF StopBody, WorkTypeOK, WorkOK
<1>6. CASE EndGrace(t)
  <2>1. work[t].outcome \in Outcome
    BY <1>6 DEF EndGrace, WorkTypeOK, WorkOK
  <2> QED
    BY <1>1, <1>2, <1>6, <2>1 DEF EndGrace, WorkTypeOK, WorkOK
<1>7. CASE BodyPanics(t)
  <2>1. WorkOK'
    BY <1>7 DEF BodyPanics, WorkTypeOK, WorkOK, Phase
  <2>2. free' \in [Class -> Nat]
    BY <1>0, <1>7 DEF BodyPanics, WorkTypeOK, WorkOK
  <2> QED
    BY <1>1, <1>7, <2>1, <2>2 DEF BodyPanics, WorkTypeOK, WorkOK
<1> QED
  BY <1>3, <1>4, <1>5, <1>6, <1>7 DEF Work, SeeCancelled, MeetDeadline

\* Commands, reports and shutdown steps, and what they leave alone.
LEMMA TypeInductive ==
  ASSUME TypeOK, Next
  PROVE  TypeOK'
<1> USE DEF TypeOK
<1>1. ASSUME NEW t \in Task, Submit(t) PROVE TypeOK'
  <2>0. NewLineage(t) \subseteq Task /\ OpenDeps(t) \subseteq Task
    <3>1. ParentOf[t] # NoTask => lineage[ParentOf[t]] \subseteq Task
      BY SpecAssumption DEF EntryTypeOK
    <3>2. DependsOn[t] \subseteq Task
      BY SpecAssumption
    <3> QED
      BY <3>1, <3>2 DEF NewLineage, OpenDeps
  <2>1. lineage' \in [Task -> SUBSET Task]
    BY <1>1, <2>0 DEF Submit, EntryTypeOK
  <2>2. CASE Unsatisfiable(t)
    BY <1>1, <2>1, <2>2 DEF Submit, EntryTypeOK, QueueTypeOK, WorkTypeOK, WorkOK, Terminal, Outcome,
       tokenVars, workVars
  <2>3. CASE ~Unsatisfiable(t)
    <3>1. dependents' \in [Task -> Seq(Task)]
      <4>1. \A d \in Task : dependents[d] \in Seq(Task) /\ Append(dependents[d], t) \in Seq(Task)
        BY DEF EntryTypeOK
      <4> QED
        BY <1>1, <2>3, <4>1 DEF Submit
    <3>2. pending' \in [Task -> SUBSET Task]
      <4>1. pending' = [pending EXCEPT ![t] = OpenDeps(t)]
        BY <1>1, <2>3 DEF Submit
      <4> QED
        BY <2>0, <4>1 DEF EntryTypeOK
    <3>3. EntryTypeOK'
      BY <1>1, <2>1, <2>3, <3>1, <3>2 DEF Submit, EntryTypeOK, Live
    <3>4. ready' \subseteq [task : Task, seq : Nat] /\ nextSeq' \in Nat
      BY <1>1, <2>3, PushType DEF Submit, QueueTypeOK
    <3> QED
      BY <1>1, <3>3, <3>4 DEF Submit, QueueTypeOK, WorkTypeOK, WorkOK, tokenVars, workVars
  <2> QED
    BY <2>2, <2>3
<1>2. ASSUME NEW t \in Task, Watch(t) PROVE TypeOK'
  <2>1. waiter' \in [Task -> Outcome \cup {"none", "waiting", "stopped"}]
    BY <1>2 DEF Watch, WorkTypeOK, WorkOK, EntryTypeOK
  <2> QED
    BY <1>2, <2>1 DEF Watch, EntryTypeOK, QueueTypeOK, WorkTypeOK, WorkOK, entryVars, queueVars,
       tokenVars, workVars
<1>3. ASSUME NEW t \in Task, Cancel(t) PROVE TypeOK'
  <2>1. "Cancelled" \in Outcome
    BY DEF Outcome, BodyResult
  <2>2. EntryTypeOK' /\ waiter' \in [Task -> Outcome \cup {"none", "waiting", "stopped"}]
    <3>1. CASE FinishUnsuccessful(t, "Cancelled")
      BY <2>1, <3>1, FinishUnsuccessfulType
    <3>2. CASE UNCHANGED <<entryVars, waiter>>
      BY <3>2 DEF EntryTypeOK, WorkTypeOK, WorkOK, entryVars
    <3> QED
      BY <1>3, <3>1, <3>2 DEF Cancel
  <2> QED
    BY <1>3, <2>2 DEF Cancel, QueueTypeOK, WorkTypeOK, WorkOK, queueVars, workVars
<1>4. ASSUME NEW t \in Task, Pause(t) PROVE TypeOK'
  BY <1>4 DEF Pause, EntryTypeOK, QueueTypeOK, WorkTypeOK, WorkOK, Live, tokenVars, workVars
<1>5. ASSUME NEW t \in Task, Resume(t) PROVE TypeOK'
  <2>1. "Cancelled" \in Outcome
    BY DEF Outcome, BodyResult
  <2>2. CASE IsCancelled(t)
    BY <1>5, <2>1, <2>2, FinishUnsuccessfulType
    DEF Resume, QueueTypeOK, WorkTypeOK, WorkOK, tokenVars, workVars
  <2>3. CASE ~IsCancelled(t)
    <3>1. ready' \subseteq [task : Task, seq : Nat] /\ nextSeq' \in Nat
      BY <1>5, <2>3, PushType DEF Resume, QueueTypeOK
    <3>2. EntryTypeOK'
      BY <1>5, <2>3 DEF Resume, EntryTypeOK, Live
    <3> QED
      BY <1>5, <2>3, <3>1, <3>2 DEF Resume, QueueTypeOK, WorkTypeOK, WorkOK, tokenVars, workVars
  <2> QED
    BY <2>2, <2>3
<1>6. ASSUME Shutdown PROVE TypeOK'
  <2>1. closing' \subseteq Task
    BY <1>6 DEF Shutdown, QueueTypeOK
  <2> QED
    BY <1>6, <2>1 DEF Shutdown, EntryTypeOK, QueueTypeOK, WorkTypeOK, WorkOK, entryVars, workVars
<1>7. ASSUME NEW s \in ready, PumpCancelled(s) PROVE TypeOK'
  <2>1. "Cancelled" \in Outcome
    BY DEF Outcome, BodyResult
  <2> QED
    BY <1>7, <2>1, SlotTask, FinishUnsuccessfulType
    DEF PumpCancelled, QueueTypeOK, WorkTypeOK, WorkOK, tokenVars, workVars
<1>8. ASSUME NEW s \in ready, PumpDefer(s) PROVE TypeOK'
  BY <1>8 DEF PumpDefer, EntryTypeOK, QueueTypeOK, WorkTypeOK, WorkOK, entryVars, tokenVars, workVars
<1>9. ASSUME NEW s \in ready, PumpStart(s) PROVE TypeOK'
  <2>1. s.task \in Task
    BY SlotTask
  <2>2. EntryTypeOK'
    BY <1>9, <2>1 DEF PumpStart, TakeBody, EntryTypeOK, Live
  <2>3. free' \in [Class -> Nat]
    <3>1. ClassOf[s.task] \in Class
      BY <2>1, SpecAssumption
    <3>2. free[ClassOf[s.task]] - 1 \in Nat
      BY <1>9, <3>1 DEF PumpStart, WorkTypeOK, WorkOK
    <3> QED
      BY <1>9, <3>2 DEF PumpStart, WorkTypeOK, WorkOK
  <2>4. WorkOK'
    BY <1>9, <2>1 DEF PumpStart, EntryTypeOK, WorkTypeOK, WorkOK, Phase
  <2> QED
    BY <1>9, <2>2, <2>3, <2>4 DEF PumpStart, QueueTypeOK, WorkTypeOK, WorkOK, tokenVars
<1>10. ASSUME NEW s \in ready, PumpDrop(s) PROVE TypeOK'
  BY <1>10 DEF PumpDrop, EntryTypeOK, QueueTypeOK, WorkTypeOK, WorkOK, entryVars, tokenVars, workVars
<1>11. ASSUME PumpEnd PROVE TypeOK'
  BY <1>11 DEF PumpEnd, EntryTypeOK, QueueTypeOK, WorkTypeOK, WorkOK, entryVars, tokenVars, workVars
<1>12. ASSUME NEW t \in Task, Settle(t) PROVE TypeOK'
  <2>1. work[t].attempt \in Nat /\ work[t].outcome \in Outcome
    BY <1>12 DEF Settle, WorkTypeOK, WorkOK
  <2>2. WorkOK'
    BY <1>12 DEF Settle, WorkTypeOK, WorkOK, Idle, Phase
  <2> DEFINE n == work[t].attempt
             out == work[t].outcome
  <2>3. CASE IsStale(t, n)
    BY <1>12, <2>2, <2>3 DEF Settle, EntryTypeOK, QueueTypeOK, WorkTypeOK, WorkOK, tokenVars
  <2>4. CASE ~IsStale(t, n) /\ MayRetry(t, n, out)
    <3>1. timers' \subseteq Task \X Nat
      BY <1>12, <2>1, <2>4 DEF Settle, WorkTypeOK, WorkOK
    <3>2. EntryTypeOK'
      BY <1>12, <2>4, ZenonT(30) DEF Settle, EntryTypeOK, Live
    <3> QED
      BY <1>12, <2>2, <2>4, <3>1, <3>2 DEF Settle, QueueTypeOK, WorkTypeOK, WorkOK, tokenVars
  <2>5. CASE ~IsStale(t, n) /\ ~MayRetry(t, n, out) /\ out = "Completed"
    BY <1>12, <2>2, <2>5, FinishCompletedType DEF Settle, QueueTypeOK, WorkTypeOK, WorkOK, tokenVars
  <2>6. CASE ~IsStale(t, n) /\ ~MayRetry(t, n, out) /\ out # "Completed"
    BY <1>12, <2>1, <2>2, <2>6, FinishUnsuccessfulType
    DEF Settle, QueueTypeOK, WorkTypeOK, WorkOK, tokenVars
  <2> QED
    BY <2>3, <2>4, <2>5, <2>6
<1>13. ASSUME NEW t \in Task, NEW n \in Nat, Requeue(t, n) PROVE TypeOK'
  <2>1. "Cancelled" \in Outcome
    BY DEF Outcome, BodyResult
  <2>2. timers' \subseteq Task \X Nat
    BY <1>13 DEF Requeue, WorkTypeOK, WorkOK
  <2>3. CASE state[t] \in Terminal
    BY <1>13, <2>2, <2>3 DEF Requeue, EntryTypeOK, QueueTypeOK, WorkTypeOK, WorkOK, entryVars, tokenVars
  <2>4. CASE state[t] \notin Terminal /\ IsCancelled(t)
    BY <1>13, <2>1, <2>2, <2>4, FinishUnsuccessfulType
    DEF Requeue, QueueTypeOK, WorkTypeOK, WorkOK, tokenVars
  <2>5. CASE state[t] \notin Terminal /\ ~IsCancelled(t)
    <3>1. ready' \subseteq [task : Task, seq : Nat] /\ nextSeq' \in Nat
      BY <1>13, <2>5, PushType DEF Requeue
    <3> QED
      BY <1>13, <2>2, <2>5, <3>1
      DEF Requeue, EntryTypeOK, QueueTypeOK, WorkTypeOK, WorkOK, entryVars, tokenVars
  <2> QED
    BY <2>3, <2>4, <2>5
<1>14. ASSUME NEW t \in Task, NEW n \in Nat, BackoffCancelled(t, n) PROVE TypeOK'
  <2>1. "Cancelled" \in Outcome
    BY DEF Outcome, BodyResult
  <2>2. timers' \subseteq Task \X Nat
    BY <1>14 DEF BackoffCancelled, WorkTypeOK, WorkOK
  <2>3. CASE IsStale(t, n)
    BY <1>14, <2>2, <2>3
    DEF BackoffCancelled, EntryTypeOK, QueueTypeOK, WorkTypeOK, WorkOK, entryVars, queueVars, tokenVars
  <2>4. CASE ~IsStale(t, n)
    BY <1>14, <2>1, <2>2, <2>4, FinishUnsuccessfulType
    DEF BackoffCancelled, QueueTypeOK, WorkTypeOK, WorkOK, queueVars, tokenVars
  <2> QED
    BY <2>3, <2>4
<1>15. ASSUME CollectPaused PROVE TypeOK'
  BY <1>15 DEF CollectPaused, EntryTypeOK, QueueTypeOK, WorkTypeOK, WorkOK, entryVars, queueVars,
     tokenVars, workVars
<1>16. ASSUME Stop PROVE TypeOK'
  <2>1. waiter' \in [Task -> Outcome \cup {"none", "waiting", "stopped"}]
    BY <1>16 DEF Stop, Answered, WorkTypeOK, WorkOK
  <2> QED
    BY <1>16, <2>1 DEF Stop, EntryTypeOK, QueueTypeOK, WorkTypeOK, WorkOK, entryVars, queueVars,
       tokenVars, workVars
<1>17. ASSUME NEW t \in Task, Drain(t) PROVE TypeOK'
  <2>1. "Cancelled" \in Outcome
    BY DEF Outcome, BodyResult
  <2> QED
    BY <1>17, <2>1, FinishUnsuccessfulType
    DEF Drain, QueueTypeOK, WorkTypeOK, WorkOK, queueVars, tokenVars, workVars
<1>18. ASSUME NEW t \in Task, Work(t) PROVE TypeOK'
  BY <1>18, WorkStepType
<1>19. CASE \E k \in timers : Backoff(k[1], k[2])
  <2>1. PICK k \in timers : Backoff(k[1], k[2])
    BY <1>19
  <2>2. k[1] \in Task /\ k[2] \in Nat
    BY DEF WorkTypeOK, WorkOK
  <2> QED
    BY <1>13, <1>14, <2>1, <2>2 DEF Backoff
<1> QED
  BY <1>1, <1>2, <1>3, <1>4, <1>5, <1>6, <1>7, <1>8, <1>9, <1>10, <1>11, <1>12, <1>15, <1>16,
     <1>17, <1>18, <1>19
  DEF Next, Client, Pump, Reports, Closing

\* Every field is typed in every reachable state.
THEOREM TypeCorrect == Spec => []TypeOK
<1>1. Init => TypeOK
  <2> SUFFICES ASSUME Init PROVE TypeOK
    OBVIOUS
  <2>1. EntryTypeOK
    BY DEF Init, EntryTypeOK
  <2>2. QueueTypeOK
    BY DEF Init, QueueTypeOK
  <2>3. WorkOK
    BY DEF Init, WorkOK, Idle, Phase
  <2>4. WorkTypeOK
    BY <2>3, SpecAssumption DEF Init, WorkTypeOK
  <2> QED
    BY <2>1, <2>2, <2>4 DEF TypeOK
<1>2. TypeOK /\ [Next]_vars => TypeOK'
  <2>1. CASE Next
    BY <2>1, TypeInductive
  <2>2. CASE UNCHANGED vars
    BY <2>2 DEF vars, entryVars, queueVars, tokenVars, workVars, TypeOK, EntryTypeOK,
       QueueTypeOK, WorkTypeOK, WorkOK
  <2> QED
    BY <2>1, <2>2
<1> QED
  BY <1>1, <1>2, PTL DEF Spec

-----------------------------------------------------------------------------
(***************************************************************************)
(* Attempts: where a body can be, when a task may still be started, and    *)
(* why a slot or a timer that outlives its task does no harm.              *)
(***************************************************************************)
\* A body is in the entry or with the one attempt there is; a task that still
\* has a body and is not settled has an attempt left; a task that waits on a
\* dependency was never started; a settled task whose body is still around
\* was settled because its token is cancelled.
EntryInv(t) ==
  /\ state[t] = "Absent" => ~body[t] /\ attempt[t] = 0 /\ work[t].phase = "none"
  /\ state[t] # "Absent" => t \in lineage[t]
  /\ body[t] => work[t].phase = "none"
  /\ work[t].phase # "none" => work[t].attempt = attempt[t] /\ attempt[t] > 0
  /\ attempt[t] <= MaxAttempts[t]
  /\ state[t] \in Live /\ body[t] => attempt[t] < MaxAttempts[t]
  /\ state[t] \in Live /\ pending[t] # {} => attempt[t] = 0
  /\ state[t] \in Terminal /\ (body[t] \/ work[t].phase # "none") => IsCancelled(t)

\* Who is listed as blocked on x and is not settled does wait for x.
BlockedInv ==
  \A x \in Task : \A i \in DOMAIN dependents[x] :
    LET d == dependents[x][i] IN
    state[d] # "Absent" /\ (state[d] \in Live => x \in pending[d])

\* Only what waits for nothing is queued, or backing off, or being drained.
SlotInv ==
  \A s \in Slots : state[s.task] # "Absent" /\ (state[s.task] \in Live => pending[s.task] = {})

TimerInv == \A k \in timers : attempt[k[1]] > 0

ClosingInv ==
  /\ \A t \in closing : state[t] # "Absent"
  /\ pc \in {"draining", "holding"} => rootFired

AttemptInv ==
  (\A t \in Task : EntryInv(t)) /\ BlockedInv /\ SlotInv /\ TimerInv /\ ClosingInv

-----------------------------------------------------------------------------
(* What finish does, in the terms of the invariant.                        *)

\* t is settled, and whoever is settled with it was never started.
EndStep(t) ==
  /\ attempt' = attempt /\ lineage' = lineage
  /\ state'[t] \in Terminal /\ ~body'[t]
  /\ \A d \in Task \ {t} :
       \/ state'[d] = state[d] /\ body'[d] = body[d]
       \/ state[d] \in Live /\ pending[d] # {} /\ state'[d] \in Terminal /\ ~body'[d]
  /\ \A d \in Task : pending'[d] \subseteq pending[d]

LEMMA StateKinds ==
  ASSUME TypeOK, NEW t \in Task
  PROVE  state[t] \in Live \/ state[t] \in Terminal \/ state[t] = "Absent"
BY DEF TypeOK, EntryTypeOK

LEMMA DoomedAreBlocked ==
  ASSUME TypeOK, BlockedInv, NEW t \in Task
  PROVE  /\ t \in Doomed(t)
         /\ \A d \in Doomed(t) \ {t} : state[d] \in Live /\ pending[d] # {}
<1> DEFINE Blocked == {d \in Task : state[d] \in Live /\ pending[d] # {}}
<1>1. t \in Doomed(t)
  BY DEF Doomed, IsCascade
<1>2. ASSUME NEW x \in Task, NEW i \in DOMAIN dependents[x], state[dependents[x][i]] \notin Terminal
      PROVE  dependents[x][i] \in Blocked
  <2>1. dependents[x][i] \in Task
    BY DEF TypeOK, EntryTypeOK
  <2>2. state[dependents[x][i]] # "Absent"
    BY DEF BlockedInv
  <2>3. state[dependents[x][i]] \in Live
    BY <1>2, <2>1, <2>2, StateKinds
  <2> QED
    BY <2>1, <2>3 DEF BlockedInv
<1>3. IsCascade(t, {t} \cup Blocked)
  BY <1>2 DEF IsCascade
<1>4. {t} \cup Blocked \in SUBSET Task
  OBVIOUS
<1>5. Doomed(t) \subseteq {t} \cup Blocked
  BY <1>3, <1>4 DEF Doomed
<1> QED
  BY <1>1, <1>5

LEMMA UnsuccessfulEnds ==
  ASSUME TypeOK, BlockedInv, NEW t \in Task, state[t] # "Absent", NEW out \in Outcome,
         FinishUnsuccessful(t, out)
  PROVE  EndStep(t) /\ pending' = pending /\ BlockedInv'
<1>1. t \in Doomed(t) /\ \A d \in Doomed(t) \ {t} : state[d] \in Live /\ pending[d] # {}
  BY DoomedAreBlocked
<1>2. \A d \in Task : IF d \in Doomed(t) THEN state'[d] \in Terminal /\ ~body'[d]
                                         ELSE state'[d] = state[d] /\ body'[d] = body[d]
  <2> DEFINE end == [d \in Task |-> IF d = t THEN out ELSE "DependencyFailed"]
  <2>1. \A o \in Outcome : StateOf(o) \in Terminal
    BY DEF StateOf, Terminal
  <2>2. \A d \in Task : end[d] \in Outcome
    BY DEF Outcome
  <2>3. \A d \in Task : state'[d] = IF d \in Doomed(t) THEN StateOf(end[d]) ELSE state[d]
    BY DEF FinishUnsuccessful
  <2>4. \A d \in Task : body'[d] = (body[d] /\ d \notin Doomed(t))
    BY DEF FinishUnsuccessful, DropBodies
  <2>5. \A d \in Task : body[d] \in BOOLEAN
    BY DEF TypeOK, EntryTypeOK
  <2> QED
    BY <2>1, <2>2, <2>3, <2>4, <2>5
<1>3. EndStep(t) /\ pending' = pending
  BY <1>1, <1>2 DEF EndStep, FinishUnsuccessful
<1>4. BlockedInv'
  <2> SUFFICES ASSUME NEW x \in Task, NEW i \in DOMAIN dependents'[x]
               PROVE  LET d == dependents'[x][i] IN
                      state'[d] # "Absent" /\ (state'[d] \in Live => x \in pending'[d])
    BY DEF BlockedInv
  <2>1. x \notin Doomed(t) /\ dependents'[x] = dependents[x]
    BY DEF FinishUnsuccessful
  <2>2. dependents[x][i] \in Task
    BY <2>1 DEF TypeOK, EntryTypeOK
  <2>3. state[dependents[x][i]] # "Absent" /\ (state[dependents[x][i]] \in Live => x \in pending[dependents[x][i]])
    BY <2>1 DEF BlockedInv
  <2> QED
    BY <1>2, <1>3, <2>1, <2>2, <2>3 DEF Terminal, Live
<1> QED
  BY <1>3, <1>4

LEMMA CompletedEnds ==
  ASSUME TypeOK, BlockedInv, NEW t \in Task, FinishCompleted(t)
  PROVE  EndStep(t) /\ BlockedInv'
<1>1. state'[t] = "Completed" /\ \A d \in Task \ {t} : state'[d] = state[d]
  BY DEF FinishCompleted, TypeOK, EntryTypeOK
<1>2. ~body'[t] /\ \A d \in Task \ {t} : body'[d] = body[d]
  BY DEF FinishCompleted, DropBodies, TypeOK, EntryTypeOK
<1>3. \A d \in Task : pending'[d] = pending[d] \ {t}
  BY DEF FinishCompleted
<1>4. EndStep(t)
  BY <1>1, <1>2, <1>3 DEF EndStep, FinishCompleted, Terminal
<1>5. BlockedInv'
  <2> SUFFICES ASSUME NEW x \in Task, NEW i \in DOMAIN dependents'[x]
               PROVE  LET d == dependents'[x][i] IN
                      state'[d] # "Absent" /\ (state'[d] \in Live => x \in pending'[d])
    BY DEF BlockedInv
  <2>1. x # t /\ dependents'[x] = dependents[x]
    BY DEF FinishCompleted, TypeOK, EntryTypeOK
  <2>2. dependents[x][i] \in Task
    BY <2>1 DEF TypeOK, EntryTypeOK
  <2>3. state[dependents[x][i]] # "Absent" /\ (state[dependents[x][i]] \in Live => x \in pending[dependents[x][i]])
    BY <2>1 DEF BlockedInv
  <2> QED
    BY <1>1, <1>3, <2>1, <2>2, <2>3 DEF Terminal, Live
<1> QED
  BY <1>4, <1>5

\* Tokens are never uncancelled.
TokensGrow == fired \subseteq fired' /\ (rootFired => rootFired')

LEMMA CancelledStays ==
  ASSUME TokensGrow, NEW t, lineage'[t] = lineage[t], IsCancelled(t)
  PROVE  IsCancelled(t)'
BY DEF TokensGrow, IsCancelled

\* An end that leaves no attempt behind, or a cancelled one, keeps the entries.
LEMMA EndKeepsEntries ==
  ASSUME TypeOK, \A d \in Task : EntryInv(d),
         NEW t \in Task, state[t] # "Absent", EndStep(t), TokensGrow,
         \A d \in Task \ {t} : work'[d] = work[d],
         work'[t] = work[t] \/ work'[t].phase = "none",
         work'[t].phase = "none" \/ IsCancelled(t)'
  PROVE  \A d \in Task : EntryInv(d)'
<1> SUFFICES ASSUME NEW d \in Task PROVE EntryInv(d)'
  OBVIOUS
<1>1. lineage'[d] = lineage[d] /\ attempt'[d] = attempt[d]
  BY DEF EndStep
<1>2. EntryInv(d) /\ EntryInv(t)
  OBVIOUS
<1>3. CASE d = t
  BY <1>1, <1>2, <1>3 DEF EndStep, EntryInv, Terminal, Live
<1>4. CASE d # t /\ state'[d] = state[d] /\ body'[d] = body[d]
  <2>1. IsCancelled(d) => IsCancelled(d)'
    BY <1>1, CancelledStays
  <2>2. pending'[d] \subseteq pending[d] /\ work'[d] = work[d]
    BY <1>4 DEF EndStep
  <2> QED
    BY <1>1, <1>2, <1>4, <2>1, <2>2 DEF EntryInv
<1>5. CASE d # t /\ state[d] \in Live /\ pending[d] # {} /\ state'[d] \in Terminal /\ ~body'[d]
  <2>1. attempt[d] = 0 /\ work'[d].phase = "none"
    BY <1>2, <1>5 DEF EntryInv, TypeOK, EntryTypeOK
  <2> QED
    BY <1>1, <1>2, <1>5, <2>1 DEF EntryInv, Terminal, Live
<1> QED
  BY <1>3, <1>4, <1>5 DEF EndStep

\* Slots that were there before stay harmless.
LEMMA EndKeepsSlots ==
  ASSUME TypeOK, SlotInv, NEW t \in Task, EndStep(t), NEW s \in Slots
  PROVE  state'[s.task] # "Absent" /\ (state'[s.task] \in Live => pending'[s.task] = {})
<1>1. s.task \in Task
  BY DEF TypeOK, QueueTypeOK, Slots
<1>2. state[s.task] # "Absent" /\ (state[s.task] \in Live => pending[s.task] = {})
  BY DEF SlotInv
<1> QED
  BY <1>1, <1>2 DEF EndStep, Terminal, Live

-----------------------------------------------------------------------------
(* Every step keeps the invariant.                                         *)

\* A step that settles t, and touches the queue only by removing slots.
LEMMA EndingStep ==
  ASSUME TypeOK, AttemptInv, NEW t \in Task, state[t] # "Absent",
         EndStep(t), BlockedInv', TokensGrow,
         \A d \in Task \ {t} : work'[d] = work[d],
         work'[t] = work[t] \/ work'[t].phase = "none",
         work'[t].phase = "none" \/ IsCancelled(t)',
         Slots' \subseteq Slots, timers' \subseteq timers, ClosingInv'
  PROVE  AttemptInv'
<1>1. \A d \in Task : EntryInv(d)'
  BY EndKeepsEntries DEF AttemptInv
<1>2. SlotInv'
  BY EndKeepsSlots DEF AttemptInv, SlotInv
<1>3. TimerInv'
  BY DEF AttemptInv, TimerInv, EndStep
<1> QED
  BY <1>1, <1>2, <1>3 DEF AttemptInv

\* What is being drained stays known, whoever is settled meanwhile.
LEMMA EndKeepsClosing ==
  ASSUME TypeOK, NEW t \in Task, EndStep(t), closing' \subseteq closing,
         \A d \in closing : state[d] # "Absent"
  PROVE  \A d \in closing' : state'[d] # "Absent"
<1> SUFFICES ASSUME NEW d \in closing' PROVE state'[d] # "Absent"
  OBVIOUS
<1>1. d \in closing /\ d \in Task
  BY DEF TypeOK, QueueTypeOK
<1> QED
  BY <1>1 DEF EndStep, Terminal

LEMMA SubmitKeeps ==
  ASSUME TypeOK, AttemptInv, NEW t \in Task, Submit(t)
  PROVE  AttemptInv'
<1>1. /\ state[t] = "Absent" /\ ~body[t] /\ attempt[t] = 0 /\ work[t].phase = "none"
      /\ attempt' = attempt /\ work' = work /\ fired' = fired /\ rootFired' = rootFired
      /\ t \in lineage'[t] /\ \A d \in Task \ {t} : lineage'[d] = lineage[d]
  BY DEF Submit, NewLineage, AttemptInv, EntryInv, TypeOK, EntryTypeOK, tokenVars, workVars
<1>2. \A d \in Task \ {t} : state'[d] = state[d] /\ body'[d] = body[d] /\ pending'[d] = pending[d]
  BY DEF Submit, TypeOK, EntryTypeOK
<1>3. \/ state'[t] = "Failed" /\ ~body'[t] /\ dependents' = dependents /\ ready' = ready
      \/ /\ state'[t] = "Pending" /\ pending'[t] = OpenDeps(t)
         /\ dependents' = [d \in Task |->
              IF d \in OpenDeps(t) THEN Append(dependents[d], t) ELSE dependents[d]]
         /\ \/ ready' = ready
            \/ OpenDeps(t) = {} /\ ready' = ready \cup {Slot(t, nextSeq)}
  BY <1>1 DEF Submit, Push, TypeOK, EntryTypeOK
<1>4. \A d \in Task : EntryInv(d)'
  <2> SUFFICES ASSUME NEW d \in Task PROVE EntryInv(d)'
    OBVIOUS
  <2>1. CASE d = t
    <3>1. MaxAttempts[t] \in Nat \ {0}
      BY SpecAssumption
    <3> QED
      BY <1>1, <1>3, <2>1, <3>1 DEF EntryInv, Terminal, Live
  <2>2. CASE d # t
    <3>1. EntryInv(d) /\ (IsCancelled(d) => IsCancelled(d)')
      BY <1>1, <2>2 DEF AttemptInv, IsCancelled
    <3> QED
      BY <1>1, <1>2, <2>2, <3>1 DEF EntryInv
  <2> QED
    BY <2>1, <2>2
<1>5. BlockedInv'
  <2> SUFFICES ASSUME NEW x \in Task, NEW i \in DOMAIN dependents'[x]
               PROVE  LET d == dependents'[x][i] IN
                      state'[d] # "Absent" /\ (state'[d] \in Live => x \in pending'[d])
    BY DEF BlockedInv
  <2>1. dependents[x] \in Seq(Task)
    BY DEF TypeOK, EntryTypeOK
  <2>2. CASE i \in DOMAIN dependents[x] /\ dependents'[x][i] = dependents[x][i]
    <3>1. dependents[x][i] \in Task \ {t}
      BY <1>1, <2>1, <2>2 DEF AttemptInv, BlockedInv
    <3> QED
      BY <1>2, <2>2, <3>1 DEF AttemptInv, BlockedInv
  <2>3. CASE dependents'[x][i] = t /\ x \in OpenDeps(t) /\ state'[t] = "Pending"
             /\ pending'[t] = OpenDeps(t)
    BY <2>3
  <2> QED
    BY <1>3, <2>1, <2>2, <2>3, SMTT(30)
<1>6. SlotInv'
  <2> SUFFICES ASSUME NEW s \in Slots'
               PROVE  state'[s.task] # "Absent" /\ (state'[s.task] \in Live => pending'[s.task] = {})
    BY DEF SlotInv
  <2>1. CASE s \in Slots
    <3>1. s.task \in Task /\ s.task # t
      BY <1>1, <2>1 DEF AttemptInv, SlotInv, TypeOK, QueueTypeOK, Slots
    <3> QED
      BY <1>2, <2>1, <3>1 DEF AttemptInv, SlotInv
  <2>2. CASE s \notin Slots
    <3>1. deferred' = deferred
      BY DEF Submit
    <3>2. s = Slot(t, nextSeq) /\ state'[t] = "Pending" /\ pending'[t] = {}
      BY <1>3, <2>2, <3>1 DEF Slots
    <3> QED
      BY <3>2 DEF Slot
  <2> QED
    BY <2>1, <2>2
<1>7. TimerInv' /\ ClosingInv'
  <2>1. \A d \in closing : d \in Task /\ d # t
    BY <1>1 DEF AttemptInv, ClosingInv, TypeOK, QueueTypeOK
  <2> QED
    BY <1>1, <1>2, <2>1 DEF Submit, AttemptInv, TimerInv, ClosingInv, workVars
<1> QED
  BY <1>4, <1>5, <1>6, <1>7 DEF AttemptInv

LEMMA CancelKeeps ==
  ASSUME TypeOK, AttemptInv, NEW t \in Task, Cancel(t)
  PROVE  AttemptInv'
<1>1. TokensGrow /\ work' = work /\ timers' = timers /\ Slots' = Slots /\ closing' = closing
      /\ pc' = "pump" /\ rootFired' = rootFired
  BY DEF Cancel, TokensGrow, Slots, queueVars, workVars
<1>2. CASE UNCHANGED entryVars
  <2>1. \A d \in Task : EntryInv(d)'
    BY <1>1, <1>2, CancelledStays DEF AttemptInv, EntryInv, entryVars
  <2> QED
    BY <1>1, <1>2, <2>1 DEF AttemptInv, BlockedInv, SlotInv, TimerInv, ClosingInv, entryVars
<1>3. CASE FinishUnsuccessful(t, "Cancelled") /\ state[t] = "Pending" /\ t \in fired'
  <2>1. EndStep(t) /\ pending' = pending /\ BlockedInv'
    BY <1>3, UnsuccessfulEnds DEF AttemptInv, Outcome, BodyResult
  <2>2. IsCancelled(t)'
    BY <1>3, <2>1 DEF IsCancelled, AttemptInv, EntryInv, EndStep
  <2>3. ClosingInv'
    BY <1>1, <2>1, EndKeepsClosing DEF AttemptInv, ClosingInv
  <2> QED
    BY <1>1, <1>3, <2>1, <2>2, <2>3, EndingStep
<1> QED
  BY <1>2, <1>3 DEF Cancel

LEMMA PauseKeeps ==
  ASSUME TypeOK, AttemptInv, NEW t \in Task, Pause(t)
  PROVE  AttemptInv'
<1>1. /\ state[t] \in Live /\ state'[t] \in Live /\ \A d \in Task \ {t} : state'[d] = state[d]
      /\ Slots' \subseteq Slots
  BY DEF Pause, Live, TypeOK, EntryTypeOK, Slots
<1>2. UNCHANGED <<body, attempt, pending, lineage, dependents, fired, rootFired, work, timers,
                  closing, pc>>
  BY DEF Pause, tokenVars, workVars
<1>3. \A d \in Task : (state[d] \in Live <=> state'[d] \in Live)
                      /\ (state[d] = "Absent" <=> state'[d] = "Absent")
                      /\ (state[d] \in Terminal <=> state'[d] \in Terminal)
  BY <1>1 DEF Live, Terminal
<1>4. \A d \in Task : EntryInv(d)'
  BY <1>2, <1>3 DEF AttemptInv, EntryInv, IsCancelled
<1>5. BlockedInv'
  BY <1>2, <1>3 DEF AttemptInv, BlockedInv, TypeOK, EntryTypeOK
<1>6. SlotInv'
  BY <1>1, <1>2, <1>3 DEF AttemptInv, SlotInv, TypeOK, QueueTypeOK, Slots
<1> QED
  BY <1>2, <1>3, <1>4, <1>5, <1>6 DEF AttemptInv, TimerInv, ClosingInv, TypeOK, QueueTypeOK

\* Steps that leave the entries and the workers alone.
LEMMA QueueStep ==
  ASSUME TypeOK, AttemptInv, UNCHANGED <<entryVars, work, fired>>, rootFired => rootFired',
         timers' \subseteq timers, ClosingInv',
         \A s \in Slots' \ Slots : s.task \in Task /\ attempt[s.task] > 0
  PROVE  AttemptInv'
<1>1. \A d \in Task : EntryInv(d)'
  BY CancelledStays DEF TokensGrow, AttemptInv, EntryInv, entryVars
<1>2. SlotInv'
  <2> SUFFICES ASSUME NEW s \in Slots'
               PROVE  state'[s.task] # "Absent" /\ (state'[s.task] \in Live => pending'[s.task] = {})
    BY DEF SlotInv
  <2>1. CASE s \in Slots
    BY <2>1 DEF AttemptInv, SlotInv, entryVars
  <2>2. CASE s \notin Slots
    BY <2>2 DEF AttemptInv, EntryInv, entryVars, TypeOK, EntryTypeOK
  <2> QED
    BY <2>1, <2>2
<1> QED
  BY <1>1, <1>2 DEF AttemptInv, BlockedInv, TimerInv, entryVars

LEMMA ResumeKeeps ==
  ASSUME TypeOK, AttemptInv, NEW t \in Task, Resume(t)
  PROVE  AttemptInv'
<1>1. /\ state[t] = "Paused" /\ work' = work /\ timers' = timers /\ closing' = closing
      /\ pc' = "pump" /\ fired' = fired /\ rootFired' = rootFired /\ deferred' = deferred
      /\ TokensGrow
  BY DEF Resume, TokensGrow, tokenVars, workVars
<1>2. CASE IsCancelled(t) /\ FinishUnsuccessful(t, "Cancelled") /\ ready' = ready
  <2>1. EndStep(t) /\ pending' = pending /\ BlockedInv'
    BY <1>1, <1>2, UnsuccessfulEnds DEF AttemptInv, Outcome, BodyResult
  <2>2. IsCancelled(t)'
    BY <1>1, <1>2, <2>1, CancelledStays DEF EndStep
  <2>3. ClosingInv'
    BY <1>1, <2>1, EndKeepsClosing DEF AttemptInv, ClosingInv
  <2> QED
    BY <1>1, <1>2, <2>1, <2>2, <2>3, EndingStep DEF Slots
<1>3. CASE /\ state' = [state EXCEPT ![t] = "Pending"]
           /\ UNCHANGED <<body, attempt, pending, lineage, dependents>>
           /\ \/ ready' = ready
              \/ pending[t] = {} /\ ready' = ready \cup {Slot(t, nextSeq)}
  <2>1. \A d \in Task : (state[d] \in Live <=> state'[d] \in Live)
                        /\ (state[d] = "Absent" <=> state'[d] = "Absent")
                        /\ (state[d] \in Terminal <=> state'[d] \in Terminal)
    BY <1>1, <1>3 DEF Live, Terminal, TypeOK, EntryTypeOK
  <2>2. \A d \in Task : EntryInv(d)'
    BY <1>1, <1>3, <2>1 DEF AttemptInv, EntryInv, IsCancelled
  <2>3. BlockedInv'
    BY <1>3, <2>1 DEF AttemptInv, BlockedInv, TypeOK, EntryTypeOK
  <2>4. SlotInv'
    <3> SUFFICES ASSUME NEW s \in Slots'
                 PROVE  state'[s.task] # "Absent" /\ (state'[s.task] \in Live => pending'[s.task] = {})
      BY DEF SlotInv
    <3>1. s \in Slots \/ (s = Slot(t, nextSeq) /\ pending[t] = {})
      BY <1>1, <1>3 DEF Slots
    <3> QED
      BY <1>1, <1>3, <2>1, <3>1 DEF AttemptInv, SlotInv, Slot, TypeOK, QueueTypeOK, Slots
  <2> QED
    BY <1>1, <1>3, <2>1, <2>2, <2>3, <2>4
    DEF AttemptInv, TimerInv, ClosingInv, TypeOK, QueueTypeOK
<1> QED
  BY <1>2, <1>3 DEF Resume, Push

LEMMA PumpCancelledKeeps ==
  ASSUME TypeOK, AttemptInv, NEW s \in ready, PumpCancelled(s)
  PROVE  AttemptInv'
<1> DEFINE t == s.task
<1>1. t \in Task /\ state[t] # "Absent"
  BY SlotTask DEF AttemptInv, SlotInv, Slots
<1>2. /\ IsCancelled(t) /\ FinishUnsuccessful(t, "Cancelled") /\ TokensGrow /\ Slots' \subseteq Slots
      /\ work' = work /\ timers' = timers /\ closing' = closing /\ pc' = pc /\ rootFired' = rootFired
  BY DEF PumpCancelled, TokensGrow, Slots, tokenVars, workVars
<1>3. EndStep(t) /\ pending' = pending /\ BlockedInv'
  BY <1>1, <1>2, UnsuccessfulEnds DEF AttemptInv, Outcome, BodyResult
<1>4. IsCancelled(t)'
  BY <1>1, <1>2, <1>3, CancelledStays DEF EndStep
<1>5. ClosingInv'
  BY <1>1, <1>2, <1>3, EndKeepsClosing DEF AttemptInv, ClosingInv
<1> QED
  BY <1>1, <1>2, <1>3, <1>4, <1>5, EndingStep

\* A started task was not settled: a settled one with a body is cancelled.
LEMMA StartedWasLive ==
  ASSUME TypeOK, AttemptInv, NEW s \in ready, PumpStart(s)
  PROVE  s.task \in Task /\ state[s.task] \in Live
<1>1. s.task \in Task /\ state[s.task] # "Absent"
  BY SlotTask DEF AttemptInv, SlotInv, Slots
<1>2. body[s.task] /\ ~IsCancelled(s.task) /\ EntryInv(s.task)
  BY <1>1 DEF PumpStart, AttemptInv
<1> QED
  BY <1>1, <1>2, StateKinds DEF EntryInv

LEMMA PumpStartKeeps ==
  ASSUME TypeOK, AttemptInv, NEW s \in ready, PumpStart(s)
  PROVE  AttemptInv'
<1> DEFINE t == s.task
<1>1. t \in Task /\ state[t] \in Live /\ pending[t] = {}
  BY StartedWasLive DEF AttemptInv, SlotInv, Slots
<1>2. /\ body[t] /\ ~body'[t] /\ state'[t] = "Running"
      /\ attempt'[t] = attempt[t] + 1 /\ attempt[t] \in Nat
      /\ work'[t].phase = "starting" /\ work'[t].attempt = attempt[t] + 1
      /\ \A d \in Task \ {t} : /\ body'[d] = body[d] /\ state'[d] = state[d]
                               /\ attempt'[d] = attempt[d] /\ work'[d] = work[d]
  BY <1>1 DEF PumpStart, TakeBody, TypeOK, EntryTypeOK, WorkTypeOK, WorkOK
<1>3. UNCHANGED <<pending, lineage, dependents, fired, rootFired, timers, closing, pc>>
      /\ Slots' \subseteq Slots
  BY DEF PumpStart, tokenVars, Slots
<1>4. \A d \in Task : EntryInv(d)'
  <2> SUFFICES ASSUME NEW d \in Task PROVE EntryInv(d)'
    OBVIOUS
  <2>1. CASE d = t
    <3>1. MaxAttempts[t] \in Nat
      BY <1>1, SpecAssumption
    <3>2. EntryInv(t)
      BY <1>1 DEF AttemptInv
    <3> QED
      BY <1>1, <1>2, <1>3, <2>1, <3>1, <3>2 DEF EntryInv, Live, Terminal
  <2>2. CASE d # t
    BY <1>2, <1>3, <2>2 DEF AttemptInv, EntryInv, IsCancelled
  <2> QED
    BY <2>1, <2>2
<1>5. \A d \in Task : (state[d] \in Live <=> state'[d] \in Live)
                      /\ (state[d] = "Absent" <=> state'[d] = "Absent")
  BY <1>1, <1>2 DEF Live
<1>6. BlockedInv'
  BY <1>3, <1>5 DEF AttemptInv, BlockedInv, TypeOK, EntryTypeOK
<1>7. SlotInv'
  BY <1>3, <1>5 DEF AttemptInv, SlotInv, TypeOK, QueueTypeOK, Slots
<1>8. TimerInv' /\ ClosingInv'
  <2>1. \A k \in timers : k[1] \in Task
    BY DEF TypeOK, WorkTypeOK
  <2>2. TimerInv'
    BY <1>2, <1>3, <2>1 DEF AttemptInv, TimerInv
  <2>3. ClosingInv'
    BY <1>3, <1>5 DEF AttemptInv, ClosingInv, TypeOK, QueueTypeOK
  <2> QED
    BY <2>2, <2>3
<1> QED
  BY <1>4, <1>6, <1>7, <1>8 DEF AttemptInv

\* A completion releases only tasks that wait for nothing else.
LEMMA CompletionKeeps ==
  ASSUME TypeOK, AttemptInv, NEW t \in Task, state[t] # "Absent", FinishCompleted(t),
         work'[t].phase = "none", \A d \in Task \ {t} : work'[d] = work[d],
         TokensGrow, rootFired' = rootFired, closing' = closing, pc' = "pump",
         deferred' = deferred, timers' = timers
  PROVE  AttemptInv'
<1>1. EndStep(t) /\ BlockedInv'
  BY CompletedEnds DEF AttemptInv
<1>2. \A d \in Task : EntryInv(d)'
  BY <1>1, EndKeepsEntries DEF AttemptInv
<1>3. SlotInv'
  <2> SUFFICES ASSUME NEW s \in Slots'
               PROVE  state'[s.task] # "Absent" /\ (state'[s.task] \in Live => pending'[s.task] = {})
    BY DEF SlotInv
  <2>1. CASE s \in Slots
    BY <1>1, <2>1, EndKeepsSlots DEF AttemptInv
  <2>2. CASE s \notin Slots
    <3>1. PICK i \in DOMAIN dependents[t] :
             /\ s = Slot(dependents[t][i], nextSeq + i - 1)
             /\ pending[dependents[t][i]] \subseteq {t}
      BY <2>2 DEF FinishCompleted, Slots
    <3>2. dependents[t][i] \in Task /\ state[dependents[t][i]] # "Absent"
      BY DEF AttemptInv, BlockedInv, TypeOK, EntryTypeOK
    <3>3. pending'[s.task] = {}
      BY <3>1, <3>2 DEF FinishCompleted, Slot
    <3>4. state'[s.task] # "Absent"
      BY <3>1, <3>2 DEF FinishCompleted, Slot, TypeOK, EntryTypeOK
    <3> QED
      BY <3>3, <3>4
  <2> QED
    BY <2>1, <2>2
<1>4. TimerInv'
  BY <1>1 DEF AttemptInv, TimerInv, EndStep
<1>5. ClosingInv'
  BY <1>1, EndKeepsClosing DEF AttemptInv, ClosingInv
<1> QED
  BY <1>1, <1>2, <1>3, <1>4, <1>5 DEF AttemptInv

LEMMA SettleKeeps ==
  ASSUME TypeOK, AttemptInv, NEW t \in Task, Settle(t)
  PROVE  AttemptInv'
<1> DEFINE n == work[t].attempt
           out == work[t].outcome
<1>1. /\ work'[t].phase = "none" /\ \A d \in Task \ {t} : work'[d] = work[d]
      /\ fired' = fired /\ rootFired' = rootFired /\ closing' = closing /\ pc' = "pump"
      /\ deferred' = deferred /\ TokensGrow
  BY DEF Settle, Idle, TokensGrow, tokenVars, TypeOK, WorkTypeOK, WorkOK
<1>2. n = attempt[t] /\ attempt[t] > 0 /\ attempt[t] \in Nat /\ out \in Outcome
  BY DEF Settle, AttemptInv, EntryInv, TypeOK, EntryTypeOK, WorkTypeOK, WorkOK
<1>3. state[t] # "Absent"
  BY <1>2 DEF AttemptInv, EntryInv
<1>4. ASSUME body' = [body EXCEPT ![t] = TRUE],
             UNCHANGED <<attempt, pending, lineage, dependents, ready>>,
             \A d \in Task \ {t} : state'[d] = state[d],
             timers' = timers \/ timers' = timers \cup {<<t, n>>},
             \/ state'[t] = state[t] /\ state[t] \in Terminal
             \/ state[t] \in Live /\ state'[t] = "Waiting" /\ n < MaxAttempts[t]
      PROVE  AttemptInv'
  <2>1. \A d \in Task : EntryInv(d)'
    <3> SUFFICES ASSUME NEW d \in Task PROVE EntryInv(d)'
      OBVIOUS
    <3>1. EntryInv(d)
      BY DEF AttemptInv
    <3>2. CASE d # t
      BY <1>1, <1>4, <3>1, <3>2 DEF EntryInv, IsCancelled, TypeOK, EntryTypeOK
    <3>3. CASE d = t
      <4>1. EntryInv(t) /\ work[t].phase = "reported" /\ body'[t]
        BY <1>4, <3>1, <3>3 DEF Settle, TypeOK, EntryTypeOK
      <4>2. IsCancelled(t) => IsCancelled(t)'
        BY <1>1, <1>4 DEF IsCancelled
      <4> QED
        BY <1>1, <1>2, <1>3, <1>4, <3>3, <4>1, <4>2 DEF EntryInv, Live, Terminal
    <3> QED
      BY <3>2, <3>3
  <2>2. \A d \in Task : (state[d] \in Live <=> state'[d] \in Live)
                        /\ (state[d] = "Absent" <=> state'[d] = "Absent")
    BY <1>3, <1>4 DEF Live, Terminal
  <2>3. BlockedInv'
    BY <1>4, <2>2 DEF AttemptInv, BlockedInv, TypeOK, EntryTypeOK
  <2>4. SlotInv'
    BY <1>1, <1>4, <2>2 DEF AttemptInv, SlotInv, TypeOK, QueueTypeOK, Slots
  <2>5. TimerInv' /\ ClosingInv'
    BY <1>1, <1>2, <1>4, <2>2 DEF AttemptInv, TimerInv, ClosingInv, TypeOK, QueueTypeOK
  <2> QED
    BY <2>1, <2>3, <2>4, <2>5 DEF AttemptInv
<1>5. CASE IsStale(t, n)
  <2>1. state[t] \in Terminal
    BY <1>2, <1>5 DEF IsStale
  <2> QED
    BY <1>4, <1>5, <2>1 DEF Settle
<1>6. CASE ~IsStale(t, n) /\ MayRetry(t, n, out)
  <2>1. state[t] \in Live
    BY <1>3, <1>6, StateKinds DEF IsStale
  <2>2. state'[t] = "Waiting" /\ \A d \in Task \ {t} : state'[d] = state[d]
    BY <1>6 DEF Settle, TypeOK, EntryTypeOK
  <2> QED
    BY <1>4, <1>6, <2>1, <2>2 DEF Settle, MayRetry
<1>7. CASE ~IsStale(t, n) /\ ~MayRetry(t, n, out) /\ out # "Completed"
  <2>1. EndStep(t) /\ pending' = pending /\ BlockedInv'
    BY <1>2, <1>3, <1>7, UnsuccessfulEnds DEF Settle, AttemptInv
  <2>2. ClosingInv'
    BY <1>1, <2>1, EndKeepsClosing DEF AttemptInv, ClosingInv
  <2> QED
    BY <1>1, <1>3, <1>7, <2>1, <2>2, EndingStep DEF Settle, Slots
<1>8. CASE ~IsStale(t, n) /\ ~MayRetry(t, n, out) /\ out = "Completed"
  BY <1>1, <1>2, <1>3, <1>8, CompletionKeeps DEF Settle
<1> QED
  BY <1>5, <1>6, <1>7, <1>8

LEMMA RequeueKeeps ==
  ASSUME TypeOK, AttemptInv, NEW t \in Task, NEW n, Requeue(t, n)
  PROVE  AttemptInv'
<1>1. /\ work' = work /\ fired' = fired /\ rootFired' = rootFired /\ closing' = closing
      /\ pc' = "pump" /\ deferred' = deferred /\ timers' \subseteq timers /\ TokensGrow
  BY DEF Requeue, TokensGrow, tokenVars
<1>2. attempt[t] > 0 /\ attempt[t] \in Nat
  <2>1. <<t, n>> \in timers
    BY DEF Requeue
  <2> QED
    BY <2>1 DEF AttemptInv, TimerInv, TypeOK, EntryTypeOK
<1>3. state[t] # "Absent"
  BY <1>2 DEF AttemptInv, EntryInv
<1>4. CASE FinishUnsuccessful(t, "Cancelled") /\ IsCancelled(t) /\ ready' = ready
  <2>1. EndStep(t) /\ pending' = pending /\ BlockedInv'
    BY <1>3, <1>4, UnsuccessfulEnds DEF AttemptInv, Outcome, BodyResult
  <2>2. IsCancelled(t)'
    BY <1>1, <1>4, <2>1, CancelledStays DEF EndStep
  <2>3. ClosingInv'
    BY <1>1, <2>1, EndKeepsClosing DEF AttemptInv, ClosingInv
  <2> QED
    BY <1>1, <1>3, <1>4, <2>1, <2>2, <2>3, EndingStep DEF Slots
<1>5. CASE UNCHANGED entryVars /\ (ready' = ready \/ ready' = ready \cup {Slot(t, nextSeq)})
  <2>1. ClosingInv'
    BY <1>1, <1>5 DEF AttemptInv, ClosingInv, entryVars
  <2>2. \A s \in Slots' \ Slots : s.task \in Task /\ attempt[s.task] > 0
    BY <1>1, <1>2, <1>5 DEF Slots, Slot
  <2> QED
    BY <1>1, <1>5, <2>1, <2>2, QueueStep
<1> QED
  BY <1>4, <1>5 DEF Requeue, Push

LEMMA BackoffCancelledKeeps ==
  ASSUME TypeOK, AttemptInv, NEW t \in Task, NEW n, BackoffCancelled(t, n)
  PROVE  AttemptInv'
<1>1. /\ work' = work /\ fired' = fired /\ rootFired' = rootFired /\ closing' = closing
      /\ pc' = "pump" /\ Slots' = Slots /\ timers' \subseteq timers /\ TokensGrow /\ IsCancelled(t)
  BY DEF BackoffCancelled, TokensGrow, tokenVars, queueVars, Slots
<1>2. attempt[t] > 0 /\ attempt[t] \in Nat
  <2>1. <<t, n>> \in timers
    BY DEF BackoffCancelled
  <2> QED
    BY <2>1 DEF AttemptInv, TimerInv, TypeOK, EntryTypeOK
<1>3. state[t] # "Absent"
  BY <1>2 DEF AttemptInv, EntryInv
<1>4. CASE FinishUnsuccessful(t, "Cancelled")
  <2>1. EndStep(t) /\ pending' = pending /\ BlockedInv'
    BY <1>3, <1>4, UnsuccessfulEnds DEF AttemptInv, Outcome, BodyResult
  <2>2. IsCancelled(t)'
    BY <1>1, <1>4, <2>1, CancelledStays DEF EndStep
  <2>3. ClosingInv'
    BY <1>1, <2>1, EndKeepsClosing DEF AttemptInv, ClosingInv
  <2> QED
    BY <1>1, <1>3, <1>4, <2>1, <2>2, <2>3, EndingStep
<1>5. CASE UNCHANGED entryVars
  <2>1. ClosingInv'
    BY <1>1, <1>5 DEF AttemptInv, ClosingInv, entryVars
  <2> QED
    BY <1>1, <1>5, <2>1, QueueStep
<1> QED
  BY <1>4, <1>5 DEF BackoffCancelled

LEMMA DrainKeeps ==
  ASSUME TypeOK, AttemptInv, NEW t \in Task, Drain(t)
  PROVE  AttemptInv'
<1>1. /\ work' = work /\ fired' = fired /\ rootFired' = rootFired /\ closing' \subseteq closing
      /\ pc' = pc /\ Slots' = Slots /\ timers' = timers /\ TokensGrow /\ rootFired
      /\ state[t] # "Absent"
  BY DEF Drain, TokensGrow, tokenVars, queueVars, workVars, Slots, AttemptInv, ClosingInv
<1>2. EndStep(t) /\ pending' = pending /\ BlockedInv'
  BY <1>1, UnsuccessfulEnds DEF Drain, AttemptInv, Outcome, BodyResult
<1>3. IsCancelled(t)'
  BY <1>1 DEF IsCancelled
<1>4. ClosingInv'
  BY <1>1, <1>2, EndKeepsClosing DEF AttemptInv, ClosingInv
<1> QED
  BY <1>1, <1>2, <1>3, <1>4, EndingStep

LEMMA WorkKeeps ==
  ASSUME TypeOK, AttemptInv, NEW t \in Task, Work(t)
  PROVE  AttemptInv'
<1>1. UNCHANGED <<entryVars, queueVars, pc, closing, rootFired, timers>> /\ fired \subseteq fired'
  BY DEF Work, BeginBody, BodyReturns, SeeCancelled, MeetDeadline, StopBody, EndGrace, BodyPanics,
     workerFrame
<1>2. /\ work[t].phase # "none" /\ work'[t].phase # "none" /\ work'[t].attempt = work[t].attempt
      /\ \A d \in Task \ {t} : work'[d] = work[d]
  BY DEF Work, BeginBody, BodyReturns, SeeCancelled, MeetDeadline, StopBody, EndGrace, BodyPanics,
     Report, TypeOK, WorkTypeOK, WorkOK
<1>3. \A d \in Task : EntryInv(d)'
  <2> SUFFICES ASSUME NEW d \in Task PROVE EntryInv(d)'
    OBVIOUS
  <2>1. EntryInv(d) /\ (IsCancelled(d) => IsCancelled(d)')
    BY <1>1 DEF AttemptInv, IsCancelled, entryVars
  <2> QED
    BY <1>1, <1>2, <2>1 DEF EntryInv, entryVars
<1> QED
  BY <1>1, <1>3 DEF AttemptInv, BlockedInv, SlotInv, Slots, TimerInv, ClosingInv, entryVars,
     queueVars

LEMMA AttemptInductive ==
  ASSUME TypeOK, AttemptInv, Next
  PROVE  AttemptInv'
<1>1. ASSUME NEW t \in Task, Watch(t) PROVE AttemptInv'
  BY <1>1, QueueStep DEF Watch, queueVars, tokenVars, workVars, Slots, AttemptInv, ClosingInv,
     entryVars
<1>2. ASSUME Shutdown PROVE AttemptInv'
  <2>1. ClosingInv'
    BY <1>2 DEF Shutdown, ClosingInv, AttemptInv, SlotInv, Slots, entryVars
  <2> QED
    BY <1>2, <2>1, QueueStep DEF Shutdown, workVars, Slots
<1>3. ASSUME NEW s \in ready, PumpDefer(s) \/ PumpDrop(s) PROVE AttemptInv'
  BY <1>3, QueueStep DEF PumpDefer, PumpDrop, tokenVars, workVars, Slots, AttemptInv, ClosingInv,
     entryVars
<1>4. ASSUME PumpEnd PROVE AttemptInv'
  BY <1>4, QueueStep DEF PumpEnd, tokenVars, workVars, Slots, AttemptInv, ClosingInv, entryVars
<1>5. ASSUME CollectPaused PROVE AttemptInv'
  BY <1>5, QueueStep DEF CollectPaused, queueVars, tokenVars, workVars, Slots, AttemptInv,
     ClosingInv, entryVars
<1>6. ASSUME Stop PROVE AttemptInv'
  BY <1>6, QueueStep DEF Stop, queueVars, tokenVars, workVars, Slots, AttemptInv, ClosingInv,
     entryVars
<1>7. ASSUME NEW k \in timers, Backoff(k[1], k[2]) PROVE AttemptInv'
  <2>1. k[1] \in Task
    BY DEF TypeOK, WorkTypeOK
  <2> QED
    BY <1>7, <2>1, RequeueKeeps, BackoffCancelledKeeps DEF Backoff
<1> QED
  BY <1>1, <1>2, <1>3, <1>4, <1>5, <1>6, <1>7, SubmitKeeps, CancelKeeps, PauseKeeps, ResumeKeeps,
     PumpCancelledKeeps, PumpStartKeeps, SettleKeeps, DrainKeeps, WorkKeeps
  DEF Next, Client, Pump, Reports, Closing

LEMMA AttemptStutter ==
  ASSUME AttemptInv, UNCHANGED vars
  PROVE  AttemptInv'
BY DEF vars, entryVars, queueVars, tokenVars, workVars, AttemptInv, EntryInv, BlockedInv, SlotInv,
   Slots, TimerInv, ClosingInv, IsCancelled

-----------------------------------------------------------------------------
(* The theorems.                                                           *)

\* The invariant holds in every reachable state.
THEOREM AttemptsInvariant == Spec => [](TypeOK /\ AttemptInv)
<1>1. Init => AttemptInv
  <2> SUFFICES ASSUME Init PROVE AttemptInv
    OBVIOUS
  <2>1. \A t \in Task : EntryInv(t)
    BY SpecAssumption DEF Init, EntryInv, Idle, Live, Terminal
  <2> QED
    BY <2>1 DEF Init, AttemptInv, BlockedInv, SlotInv, Slots, TimerInv, ClosingInv
<1>2. TypeOK /\ AttemptInv /\ [Next]_vars => AttemptInv'
  BY AttemptInductive, AttemptStutter
<1> QED
  BY <1>1, <1>2, TypeCorrect, PTL DEF Spec

\* An attempt and the entry never both have the body, so no task is ever run
\* twice at the same time.
THEOREM OneAttemptAlways == Spec => []OneAttempt
<1>1. AttemptInv => OneAttempt
  BY DEF AttemptInv, EntryInv, OneAttempt
<1> QED
  BY <1>1, AttemptsInvariant, PTL

\* No retry policy is exceeded, whatever pauses and stale timers queue twice.
THEOREM AttemptsAlwaysBounded == Spec => []AttemptsBounded
<1>1. AttemptInv => AttemptsBounded
  BY DEF AttemptInv, EntryInv, AttemptsBounded
<1> QED
  BY <1>1, AttemptsInvariant, PTL

LEMMA TerminalStays ==
  ASSUME TypeOK, AttemptInv, Next, NEW t \in Task, state[t] \in Terminal
  PROVE  state'[t] \in Terminal /\ attempt'[t] = attempt[t]
<1>1. ASSUME NEW x \in Task, EndStep(x) PROVE state'[t] \in Terminal /\ attempt'[t] = attempt[t]
  BY <1>1 DEF EndStep, Live, Terminal
<1>2. ASSUME UNCHANGED entryVars PROVE state'[t] \in Terminal /\ attempt'[t] = attempt[t]
  BY <1>2 DEF entryVars
<1>3. ASSUME NEW x \in Task, state[x] # "Absent", FinishUnsuccessful(x, "Cancelled")
      PROVE  state'[t] \in Terminal /\ attempt'[t] = attempt[t]
  BY <1>1, <1>3, UnsuccessfulEnds DEF AttemptInv, Outcome, BodyResult
<1>4. ASSUME NEW x \in Task, state[x] \notin Terminal, attempt' = attempt,
             \A d \in Task \ {x} : state'[d] = state[d]
      PROVE  state'[t] \in Terminal /\ attempt'[t] = attempt[t]
  BY <1>4
<1>5. ASSUME NEW x \in Task, Submit(x) PROVE state'[t] \in Terminal /\ attempt'[t] = attempt[t]
  BY <1>4, <1>5 DEF Submit, Terminal, TypeOK, EntryTypeOK
<1>6. ASSUME NEW x \in Task, Cancel(x) PROVE state'[t] \in Terminal /\ attempt'[t] = attempt[t]
  BY <1>2, <1>3, <1>6 DEF Cancel, Live
<1>7. ASSUME NEW x \in Task, Pause(x) PROVE state'[t] \in Terminal /\ attempt'[t] = attempt[t]
  BY <1>4, <1>7 DEF Pause, Terminal, TypeOK, EntryTypeOK
<1>8. ASSUME NEW x \in Task, Resume(x) PROVE state'[t] \in Terminal /\ attempt'[t] = attempt[t]
  BY <1>3, <1>4, <1>8 DEF Resume, Terminal, TypeOK, EntryTypeOK
<1>9. ASSUME NEW s \in ready, PumpCancelled(s)
      PROVE  state'[t] \in Terminal /\ attempt'[t] = attempt[t]
  BY <1>3, <1>9, SlotTask DEF PumpCancelled, AttemptInv, SlotInv, Slots
<1>10. ASSUME NEW s \in ready, PumpStart(s)
       PROVE  state'[t] \in Terminal /\ attempt'[t] = attempt[t]
  <2>1. s.task \in Task /\ s.task # t
    BY <1>10, StartedWasLive DEF Live, Terminal
  <2> QED
    BY <1>10, <2>1 DEF PumpStart, TypeOK, EntryTypeOK
<1>11. ASSUME NEW x \in Task, Settle(x) PROVE state'[t] \in Terminal /\ attempt'[t] = attempt[t]
  <2> DEFINE n == work[x].attempt
             out == work[x].outcome
  <2>1. attempt[x] > 0 /\ attempt[x] \in Nat /\ out \in Outcome
    BY <1>11 DEF Settle, AttemptInv, EntryInv, TypeOK, EntryTypeOK, WorkTypeOK, WorkOK
  <2>2. state[x] # "Absent"
    BY <2>1 DEF AttemptInv, EntryInv
  <2>3. CASE IsStale(x, n)
    BY <1>11, <2>3 DEF Settle
  <2>4. CASE ~IsStale(x, n) /\ MayRetry(x, n, out)
    BY <1>4, <1>11, <2>4 DEF Settle, IsStale, TypeOK, EntryTypeOK
  <2>5. CASE ~IsStale(x, n) /\ ~MayRetry(x, n, out) /\ out # "Completed"
    BY <1>1, <1>11, <2>1, <2>2, <2>5, UnsuccessfulEnds DEF Settle, AttemptInv
  <2>6. CASE ~IsStale(x, n) /\ ~MayRetry(x, n, out) /\ out = "Completed"
    BY <1>1, <1>11, <2>6, CompletedEnds DEF Settle, AttemptInv
  <2> QED
    BY <2>3, <2>4, <2>5, <2>6
<1>12. ASSUME NEW k \in timers, Backoff(k[1], k[2])
       PROVE  state'[t] \in Terminal /\ attempt'[t] = attempt[t]
  <2>1. k[1] \in Task /\ state[k[1]] # "Absent"
    BY DEF TypeOK, WorkTypeOK, AttemptInv, TimerInv, EntryInv
  <2> QED
    BY <1>2, <1>3, <1>12, <2>1 DEF Backoff, Requeue, BackoffCancelled
<1>13. ASSUME NEW x \in Task, Drain(x) PROVE state'[t] \in Terminal /\ attempt'[t] = attempt[t]
  BY <1>3, <1>13 DEF Drain, AttemptInv, ClosingInv
<1>14. ASSUME NEW x \in Task, Work(x) PROVE UNCHANGED entryVars
  BY <1>14 DEF Work, BeginBody, BodyReturns, SeeCancelled, MeetDeadline, StopBody, EndGrace,
     BodyPanics, workerFrame
<1>15. ASSUME NEW x \in Task, Watch(x) PROVE UNCHANGED entryVars
  BY <1>15 DEF Watch
<1>16. ASSUME NEW s \in ready, PumpDefer(s) \/ PumpDrop(s) PROVE UNCHANGED entryVars
  BY <1>16 DEF PumpDefer, PumpDrop
<1>17. ASSUME Shutdown \/ PumpEnd \/ CollectPaused \/ Stop PROVE UNCHANGED entryVars
  BY <1>17 DEF Shutdown, PumpEnd, CollectPaused, Stop
<1> QED
  BY <1>2, <1>5, <1>6, <1>7, <1>8, <1>9, <1>10, <1>11, <1>12, <1>13, <1>14, <1>15, <1>16, <1>17
  DEF Next, Client, Pump, Reports, Closing

\* A settled task is never started again, and stays settled.
THEOREM SettledNeverRestarts == Spec => NoResurrection
<1> DEFINE Kept == \A t \in Task :
             state[t] \in Terminal => state'[t] \in Terminal /\ attempt'[t] = attempt[t]
<1>1. TypeOK /\ AttemptInv /\ [Next]_vars => [Kept]_vars
  BY TerminalStays
<1> QED
  BY <1>1, AttemptsInvariant, PTL DEF Spec, NoResurrection

-----------------------------------------------------------------------------
(***************************************************************************)
(* Permits: none is lost or minted.  For every class the attempts that     *)
(* hold one and the free ones add up to the limit.                         *)
(***************************************************************************)
Holders(c) == {t \in Task : ClassOf[t] = c /\ Holds(t)}

LEMMA HoldersFinite ==
  ASSUME NEW c \in Class
  PROVE  IsFiniteSet(Holders(c)) /\ Cardinality(Holders(c)) \in Nat
<1>1. IsFiniteSet(Holders(c))
  BY TaskAssumption, FS_Subset DEF Holders
<1> QED
  BY <1>1, FS_CardinalityType

\* Taking a permit: one holder more, one free permit less.
LEMMA TakePermit ==
  ASSUME TypeOK, PermitConservation, NEW t \in Task, ~Holds(t), Holds(t)',
         \A d \in Task \ {t} : Holds(d)' <=> Holds(d),
         free' = [free EXCEPT ![ClassOf[t]] = @ - 1]
  PROVE  PermitConservation'
<1> SUFFICES ASSUME NEW c \in Class PROVE Cardinality(Holders(c)') + free'[c] = Limit[c]
  BY DEF PermitConservation, Holders
<1>1. Cardinality(Holders(c)) + free[c] = Limit[c] /\ free[c] \in Int
  BY DEF PermitConservation, Holders, TypeOK, WorkTypeOK
<1>2. CASE ClassOf[t] = c
  <2>1. Holders(c)' = Holders(c) \cup {t} /\ t \notin Holders(c)
    BY <1>2 DEF Holders
  <2>2. Cardinality(Holders(c)') = Cardinality(Holders(c)) + 1
    BY <2>1, HoldersFinite, FS_AddElement
  <2>3. free'[c] = free[c] - 1
    BY <1>2 DEF TypeOK, WorkTypeOK
  <2> QED
    BY <1>1, <2>2, <2>3, HoldersFinite
<1>3. CASE ClassOf[t] # c
  <2>1. Holders(c)' = Holders(c)
    BY <1>3 DEF Holders
  <2>2. free'[c] = free[c]
    BY <1>3 DEF TypeOK, WorkTypeOK
  <2> QED
    BY <1>1, <2>1, <2>2
<1> QED
  BY <1>2, <1>3

\* Giving one back, by a report or a panic.
LEMMA ReturnPermit ==
  ASSUME TypeOK, PermitConservation, NEW t \in Task, Holds(t), ~Holds(t)',
         \A d \in Task \ {t} : Holds(d)' <=> Holds(d),
         free' = [free EXCEPT ![ClassOf[t]] = @ + 1]
  PROVE  PermitConservation'
<1> SUFFICES ASSUME NEW c \in Class PROVE Cardinality(Holders(c)') + free'[c] = Limit[c]
  BY DEF PermitConservation, Holders
<1>1. Cardinality(Holders(c)) + free[c] = Limit[c] /\ free[c] \in Int
  BY DEF PermitConservation, Holders, TypeOK, WorkTypeOK
<1>2. CASE ClassOf[t] = c
  <2>1. Holders(c)' = Holders(c) \ {t} /\ t \in Holders(c)
    BY <1>2 DEF Holders
  <2>2. Cardinality(Holders(c)') = Cardinality(Holders(c)) - 1
    BY <2>1, HoldersFinite, FS_RemoveElement
  <2>3. free'[c] = free[c] + 1
    BY <1>2 DEF TypeOK, WorkTypeOK
  <2> QED
    BY <1>1, <2>2, <2>3, HoldersFinite
<1>3. CASE ClassOf[t] # c
  <2>1. Holders(c)' = Holders(c)
    BY <1>3 DEF Holders
  <2>2. free'[c] = free[c]
    BY <1>3 DEF TypeOK, WorkTypeOK
  <2> QED
    BY <1>1, <2>1, <2>2
<1> QED
  BY <1>2, <1>3

LEMMA SameHolders ==
  ASSUME PermitConservation, \A d \in Task : Holds(d)' <=> Holds(d), free' = free
  PROVE  PermitConservation'
<1>1. \A c \in Class : Holders(c)' = Holders(c)
  BY DEF Holders
<1> QED
  BY <1>1 DEF PermitConservation, Holders

LEMMA QuotaInductive ==
  ASSUME TypeOK, AttemptInv, PermitConservation, Next
  PROVE  PermitConservation'
<1>1. ASSUME UNCHANGED <<work, free>> PROVE PermitConservation'
  BY <1>1, SameHolders DEF Holds
<1>2. ASSUME NEW t \in Task, Submit(t) \/ Watch(t) \/ Cancel(t) \/ Pause(t) \/ Resume(t) \/ Drain(t)
      PROVE  UNCHANGED <<work, free>>
  BY <1>2 DEF Submit, Watch, Cancel, Pause, Resume, Drain, workVars
<1>3. ASSUME NEW s \in ready, PumpCancelled(s) \/ PumpDefer(s) \/ PumpDrop(s)
      PROVE  UNCHANGED <<work, free>>
  BY <1>3 DEF PumpCancelled, PumpDefer, PumpDrop, workVars
<1>4. ASSUME PumpEnd \/ Shutdown \/ CollectPaused \/ Stop PROVE UNCHANGED <<work, free>>
  BY <1>4 DEF PumpEnd, Shutdown, CollectPaused, Stop, workVars
<1>5. ASSUME NEW t \in Task, NEW n, Backoff(t, n) PROVE UNCHANGED <<work, free>>
  BY <1>5 DEF Backoff, Requeue, BackoffCancelled
<1>6. ASSUME NEW s \in ready, PumpStart(s) PROVE PermitConservation'
  <2>1. s.task \in Task /\ body[s.task] /\ work[s.task].phase = "none"
    BY <1>6, SlotTask DEF PumpStart, AttemptInv, EntryInv
  <2>2. ~Holds(s.task) /\ Holds(s.task)' /\ \A d \in Task \ {s.task} : Holds(d)' <=> Holds(d)
    BY <1>6, <2>1 DEF PumpStart, Holds, TypeOK, WorkTypeOK, WorkOK
  <2> QED
    BY <1>6, <2>1, <2>2, TakePermit DEF PumpStart
<1>7. ASSUME NEW t \in Task, Settle(t) PROVE PermitConservation'
  <2>1. \A d \in Task : Holds(d)' <=> Holds(d)
    BY <1>7 DEF Settle, Holds, Idle, TypeOK, WorkTypeOK, WorkOK
  <2> QED
    BY <1>7, <2>1, SameHolders DEF Settle
<1>8. ASSUME NEW t \in Task, Work(t) PROVE PermitConservation'
  <2>1. ASSUME BeginBody(t) \/ \E out \in Outcome : StopBody(t, out) PROVE PermitConservation'
    <3>1. (\A d \in Task : Holds(d)' <=> Holds(d)) /\ free' = free
      BY <2>1 DEF BeginBody, StopBody, Holds, TypeOK, WorkTypeOK, WorkOK
    <3> QED
      BY <3>1, SameHolders
  <2>2. ASSUME NEW out \in Outcome, Report(t, out), Holds(t) PROVE PermitConservation'
    <3>1. ~Holds(t)' /\ \A d \in Task \ {t} : Holds(d)' <=> Holds(d)
      BY <2>2 DEF Report, Holds, TypeOK, WorkTypeOK, WorkOK
    <3> QED
      BY <2>2, <3>1, ReturnPermit DEF Report
  <2>3. ASSUME BodyPanics(t) PROVE PermitConservation'
    <3>1. Holds(t) /\ ~Holds(t)' /\ \A d \in Task \ {t} : Holds(d)' <=> Holds(d)
      BY <2>3 DEF BodyPanics, Holds, TypeOK, WorkTypeOK, WorkOK
    <3> QED
      BY <2>3, <3>1, ReturnPermit DEF BodyPanics
  <2>4. ASSUME EndGrace(t) PROVE PermitConservation'
    <3>1. work[t].outcome \in Outcome /\ Holds(t) /\ Report(t, work[t].outcome)
      BY <2>4 DEF EndGrace, Holds, TypeOK, WorkTypeOK, WorkOK
    <3> QED
      BY <3>1, <2>2
  <2>5. ASSUME NEW out \in BodyResult, BodyReturns(t, out) PROVE PermitConservation'
    BY <2>2, <2>5 DEF BodyReturns, Holds, Outcome
  <2> QED
    BY <1>8, <2>1, <2>3, <2>4, <2>5
    DEF Work, SeeCancelled, MeetDeadline, Outcome, BodyResult
<1>9. CASE Client
  <2>1. UNCHANGED <<work, free>>
    BY <1>9, <1>2, <1>4 DEF Client
  <2> QED
    BY <2>1, <1>1
<1>10. CASE Pump
  BY <1>10, <1>1, <1>3, <1>4, <1>6 DEF Pump
<1>11. CASE Reports
  <2>1. CASE \E t \in Task : Settle(t)
    BY <2>1, <1>7
  <2>2. ASSUME NEW k \in timers, Backoff(k[1], k[2]) PROVE PermitConservation'
    <3>1. k[1] \in Task
      BY DEF TypeOK, WorkTypeOK
    <3> QED
      BY <2>2, <3>1, <1>5, <1>1
  <2> QED
    BY <1>11, <2>1, <2>2 DEF Reports
<1>12. CASE Closing
  <2>1. UNCHANGED <<work, free>>
    BY <1>12, <1>2, <1>4 DEF Closing
  <2> QED
    BY <2>1, <1>1
<1> QED
  BY <1>8, <1>9, <1>10, <1>11, <1>12 DEF Next

\* Quotas are exact, also across cancellation, timeouts, panics and shutdown.
THEOREM PermitsConserved == Spec => []PermitConservation
<1>1. Init => PermitConservation
  <2> SUFFICES ASSUME Init, NEW c \in Class PROVE Cardinality(Holders(c)) + free[c] = Limit[c]
    BY DEF PermitConservation, Holders
  <2>1. Holders(c) = {}
    BY DEF Init, Holders, Holds, Idle
  <2>2. free[c] = Limit[c] /\ Limit[c] \in Nat
    BY SpecAssumption DEF Init
  <2> QED
    BY <2>1, <2>2, FS_EmptySet
<1>2. TypeOK /\ AttemptInv /\ PermitConservation /\ [Next]_vars => PermitConservation'
  <2>1. CASE Next
    BY <2>1, QuotaInductive
  <2>2. CASE UNCHANGED vars
    BY <2>2, SameHolders DEF vars, workVars, Holds
  <2> QED
    BY <2>1, <2>2
<1> QED
  BY <1>1, <1>2, AttemptsInvariant, PTL DEF Spec
=============================================================================
