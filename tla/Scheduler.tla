----------------------------- MODULE Scheduler -----------------------------
(***************************************************************************)
(* The task scheduler of the agent runtime (agent-scheduler): one driver   *)
(* task owns every entry, the ready queue and the permits, and handles one *)
(* command at a time; workers, backoff timers and cancellation tokens run  *)
(* on other threads beside it.                                             *)
(*                                                                         *)
(* A command handler is one step.  The pump that follows most of them is   *)
(* one step per queue slot, because permits are released and tokens fired  *)
(* by workers while the pump walks the queue.  A message on the command    *)
(* channel is represented by the sender's own state: a worker that is      *)
(* "reported" has its Settled message in flight, an armed timer its        *)
(* Requeue.  Senders are independent, so the driver may meet their         *)
(* messages in any order.                                                  *)
(***************************************************************************)
EXTENDS Integers, Sequences, FiniteSets

CONSTANTS
  Task,          \* every task a client may submit, each at most once
  Class,         \* resource classes
  Limit,         \* permits of each class
  ClassOf,       \* spec.resource
  PriorityOf,    \* spec.priority, as its rank
  ParentOf,      \* spec.parent, or NoTask
  DependsOn,     \* spec.depends_on
  MaxAttempts,   \* spec.retry.max_attempts
  Timed,         \* the tasks with a spec.timeout
  Pausable,      \* the tasks clients ever ask to pause
  MayPanic,      \* the tasks whose body may panic
  Awaited,       \* the tasks submitted through run_to_completion
  ResumeBound,   \* bound: no resume once this many slots were ever pushed
  NoTask         \* the parent of a task without one

ASSUME TaskAssumption ==
  /\ IsFiniteSet(Task)
  /\ NoTask \notin Task
  /\ Timed \subseteq Task /\ Pausable \subseteq Task /\ MayPanic \subseteq Task
  /\ Awaited \subseteq Task

ASSUME SpecAssumption ==
  /\ Limit \in [Class -> Nat]
  /\ ClassOf \in [Task -> Class]
  /\ PriorityOf \in [Task -> Nat]
  /\ ParentOf \in [Task -> Task \cup {NoTask}]
  /\ DependsOn \in [Task -> SUBSET Task]
  /\ MaxAttempts \in [Task -> Nat \ {0}]
  /\ ResumeBound \in Nat

VARIABLES
  \* The driver's entries, one field each.
  state, outcome, body, attempt, pending, lineage,
  \* dependency -> tasks blocked on it, in the order they were submitted.
  dependents,
  \* The ready queue, the slots this pump set aside, and the next sequence number.
  ready, deferred, nextSeq,
  \* Where the driver is, and what a shutdown has left to settle.
  pc, closing,
  \* Cancellation tokens that were fired directly; the scheduler's root token.
  fired, rootFired,
  \* The spawned attempt of each task; free permits; armed backoff timers.
  work, free, timers,
  \* What each caller of run_to_completion was told.
  waiter

entryVars == <<state, outcome, body, attempt, pending, lineage, dependents>>
queueVars == <<ready, deferred, nextSeq>>
tokenVars == <<fired, rootFired>>
workVars == <<work, free, timers>>
vars == <<entryVars, queueVars, pc, closing, tokenVars, workVars, waiter>>

Terminal == {"Completed", "Failed", "Cancelled"}
Live == {"Pending", "Running", "Waiting", "Paused"}

\* "Retryable" is a Failed whose error class is retryable, "TimedOut" the
\* Failed of an attempt that met its deadline.
BodyResult == {"Completed", "Failed", "Retryable", "Cancelled"}
Outcome == BodyResult \cup {"TimedOut", "DependencyFailed"}

\* Mutant: the outcome itself is taken for a state.
StateOf_verbatim(out) == out

StateOf(out) == IF out \in {"Completed", "Cancelled"} THEN out ELSE "Failed"

Phase == {"none", "starting", "running", "stopping", "reported", "lost"}
Idle == [phase |-> "none", attempt |-> 0, outcome |-> "none"]

\* A token is cancelled when it, or any token it derives from, was fired.
IsCancelled(t) == rootFired \/ lineage[t] \cap fired # {}

Slot(t, n) == [task |-> t, seq |-> n]

\* Mutant: without Reverse, the later of two equals comes first.
Precedes_lifo(r, s) ==
  \/ PriorityOf[r.task] > PriorityOf[s.task]
  \/ PriorityOf[r.task] = PriorityOf[s.task] /\ r.seq >= s.seq

\* Higher priority first, then the lower sequence number.
Precedes(r, s) ==
  \/ PriorityOf[r.task] > PriorityOf[s.task]
  \/ PriorityOf[r.task] = PriorityOf[s.task] /\ r.seq <= s.seq

IsFirst(s) == s \in ready /\ \A r \in ready : Precedes(s, r)

Init ==
  /\ state = [t \in Task |-> "Absent"]
  /\ outcome = [t \in Task |-> "none"]
  /\ body = [t \in Task |-> FALSE]
  /\ attempt = [t \in Task |-> 0]
  /\ pending = [t \in Task |-> {}]
  /\ lineage = [t \in Task |-> {}]
  /\ dependents = [t \in Task |-> <<>>]
  /\ ready = {} /\ deferred = {} /\ nextSeq = 0
  /\ pc = "idle" /\ closing = {}
  /\ fired = {} /\ rootFired = FALSE
  /\ work = [t \in Task |-> Idle]
  /\ free = Limit
  /\ timers = {}
  /\ waiter = [t \in Task |-> "none"]

-----------------------------------------------------------------------------
(***************************************************************************)
(* finish: record a terminal outcome, answer the waiter, release or fail   *)
(* the dependents.  It does not look at the state it overwrites.  A        *)
(* settled task's `pending` is never read again.                           *)
(***************************************************************************)
\* Mutant: the answer is rebuilt from the state, as driver.rs:33 warns against.
Answered_fromState(w, out) == IF w = "waiting" THEN StateOf(out) ELSE w

Answered(w, out) == IF w = "waiting" THEN out ELSE w

\* Mutant: a finished task keeps the body it was given back.
DropBodies_kept(hit) == body' = [d \in Task |-> body[d] \/ d \in hit]

DropBodies(hit) == body' = [d \in Task |-> body[d] /\ d \notin hit]

\* The tasks an unsuccessful end of t fails along with it: the least set
\* that holds t and every unsettled task blocked on one of its members.
\* Mutant: the cascade does not skip dependents that are already settled.
IsCascade_settledToo(t, S) ==
  t \in S /\ \A d \in S : \A i \in DOMAIN dependents[d] : dependents[d][i] \in S

IsCascade(t, S) ==
  /\ t \in S
  /\ \A d \in S : \A i \in DOMAIN dependents[d] :
       state[dependents[d][i]] \in Terminal \/ dependents[d][i] \in S

Doomed(t) == {d \in Task : \A S \in SUBSET Task : IsCascade(t, S) => d \in S}

FinishUnsuccessful(t, out) ==
  LET hit == Doomed(t)
      end == [d \in Task |-> IF d = t THEN out ELSE "DependencyFailed"]
  IN  /\ state' = [d \in Task |-> IF d \in hit THEN StateOf(end[d]) ELSE state[d]]
      /\ outcome' = [d \in Task |-> IF d \in hit THEN end[d] ELSE outcome[d]]
      /\ DropBodies(hit)
      /\ waiter' = [d \in Task |-> IF d \in hit THEN Answered(waiter[d], end[d]) ELSE waiter[d]]
      /\ dependents' = [d \in Task |-> IF d \in hit THEN <<>> ELSE dependents[d]]
      /\ UNCHANGED <<attempt, pending, lineage>>

\* Released dependents are pushed in the order they were submitted; a gap in
\* the sequence numbers, left by one that is not released, changes no order.
FinishCompleted(t) ==
  LET blocked == dependents[t]
      released == {i \in DOMAIN blocked :
                     state[blocked[i]] \notin Terminal /\ pending[blocked[i]] \subseteq {t}}
  IN  /\ state' = [state EXCEPT ![t] = "Completed"]
      /\ outcome' = [outcome EXCEPT ![t] = "Completed"]
      /\ DropBodies({t})
      /\ waiter' = [waiter EXCEPT ![t] = Answered(@, "Completed")]
      /\ dependents' = [dependents EXCEPT ![t] = <<>>]
      /\ pending' = [d \in Task |-> pending[d] \ {t}]
      /\ ready' = ready \cup {Slot(blocked[i], nextSeq + i - 1) : i \in released}
      /\ nextSeq' = nextSeq + Len(blocked)
      /\ UNCHANGED <<attempt, lineage>>

Push(t) ==
  /\ ready' = ready \cup {Slot(t, nextSeq)}
  /\ nextSeq' = nextSeq + 1

-----------------------------------------------------------------------------
(***************************************************************************)
(* Commands from clients.                                                  *)
(***************************************************************************)
\* Mutant: a running dependency counts as satisfied.
OpenDeps_running(t) == {d \in DependsOn[t] : state[d] \in Live \ {"Running"}}

OpenDeps(t) == {d \in DependsOn[t] : state[d] \in Live}
Unsatisfiable(t) == \E d \in DependsOn[t] : state[d] \in {"Absent", "Failed", "Cancelled"}

\* Derived from the parent's token when the scheduler knows the parent.
NewLineage(t) ==
  {t} \cup IF ParentOf[t] # NoTask /\ state[ParentOf[t]] # "Absent"
           THEN lineage[ParentOf[t]] ELSE {}

Submit(t) ==
  /\ pc = "idle" /\ pc' = "pump"
  /\ state[t] = "Absent"
  /\ lineage' = [lineage EXCEPT ![t] = NewLineage(t)]
  /\ \/ /\ Unsatisfiable(t)
        /\ state' = [state EXCEPT ![t] = "Failed"]
        /\ outcome' = [outcome EXCEPT ![t] = "DependencyFailed"]
        /\ UNCHANGED <<body, pending, dependents, ready, nextSeq>>
     \/ /\ ~Unsatisfiable(t)
        /\ state' = [state EXCEPT ![t] = "Pending"]
        /\ body' = [body EXCEPT ![t] = TRUE]
        /\ pending' = [pending EXCEPT ![t] = OpenDeps(t)]
        /\ dependents' = [d \in Task |->
             IF d \in OpenDeps(t) THEN Append(dependents[d], t) ELSE dependents[d]]
        /\ IF OpenDeps(t) = {} THEN Push(t) ELSE UNCHANGED <<ready, nextSeq>>
        /\ UNCHANGED outcome
  /\ UNCHANGED <<attempt, deferred, closing, tokenVars, workVars, waiter>>

\* Mutant: a watch that arrives after the task settled is queued as well.
Watch_late(t) ==
  /\ t \in Awaited /\ pc \in {"idle", "stopped"}
  /\ state[t] # "Absent" /\ waiter[t] = "none"
  /\ waiter' = [waiter EXCEPT ![t] = IF pc = "stopped" THEN "stopped" ELSE "waiting"]
  /\ UNCHANGED <<entryVars, queueVars, pc, closing, tokenVars, workVars>>

\* run_to_completion asks once, after its submission was accepted.
Watch(t) ==
  /\ t \in Awaited /\ pc \in {"idle", "stopped"}
  /\ state[t] # "Absent" /\ waiter[t] = "none"
  /\ waiter' = [waiter EXCEPT ![t] =
       IF pc = "stopped" THEN "stopped"
       ELSE IF state[t] \in Terminal THEN outcome[t] ELSE "waiting"]
  /\ UNCHANGED <<entryVars, queueVars, pc, closing, tokenVars, workVars>>

\* Mutant: a running task is settled at once, not by its worker's report.
Cancel_running(t) ==
  /\ pc = "idle" /\ pc' = "pump"
  /\ state[t] \in Live
  /\ fired' = fired \cup {t}
  /\ FinishUnsuccessful(t, "Cancelled")
  /\ UNCHANGED <<queueVars, closing, rootFired, workVars>>

\* Cancelling what is settled or unknown changes nothing, and still pumps.
Cancel(t) ==
  /\ pc = "idle" /\ pc' = "pump"
  /\ IF state[t] \in Live
     THEN /\ fired' = fired \cup {t}
          /\ IF state[t] = "Pending"
             THEN FinishUnsuccessful(t, "Cancelled")
             ELSE UNCHANGED <<entryVars, waiter>>
     ELSE UNCHANGED <<fired, entryVars, waiter>>
  /\ UNCHANGED <<queueVars, closing, rootFired, workVars>>

\* Mutant: the slot stays in the queue.
Pause_keepsSlot(t) ==
  /\ pc = "idle" /\ t \in Pausable
  /\ state[t] \in {"Pending", "Waiting"}
  /\ state' = [state EXCEPT ![t] = "Paused"]
  /\ UNCHANGED <<outcome, body, attempt, pending, lineage, dependents, queueVars,
                 pc, closing, tokenVars, workVars, waiter>>

\* Mutant: whatever is not settled can be paused.
Pause_running(t) ==
  /\ pc = "idle" /\ t \in Pausable
  /\ state[t] \in {"Pending", "Waiting", "Running"}
  /\ state' = [state EXCEPT ![t] = "Paused"]
  /\ ready' = {s \in ready : s.task # t}
  /\ UNCHANGED <<outcome, body, attempt, pending, lineage, dependents, deferred, nextSeq,
                 pc, closing, tokenVars, workVars, waiter>>

Pause(t) ==
  /\ pc = "idle" /\ t \in Pausable
  /\ state[t] \in {"Pending", "Waiting"}
  /\ state' = [state EXCEPT ![t] = "Paused"]
  /\ ready' = {s \in ready : s.task # t}
  /\ UNCHANGED <<outcome, body, attempt, pending, lineage, dependents, deferred, nextSeq,
                 pc, closing, tokenVars, workVars, waiter>>

Resume(t) ==
  /\ pc = "idle" /\ pc' = "pump"
  /\ state[t] = "Paused" /\ nextSeq < ResumeBound
  /\ \/ /\ IsCancelled(t)
        /\ FinishUnsuccessful(t, "Cancelled")
        /\ UNCHANGED <<ready, nextSeq>>
     \/ /\ ~IsCancelled(t)
        /\ state' = [state EXCEPT ![t] = "Pending"]
        /\ IF pending[t] = {} THEN Push(t) ELSE UNCHANGED <<ready, nextSeq>>
        /\ UNCHANGED <<outcome, body, attempt, pending, lineage, dependents, waiter>>
  /\ UNCHANGED <<deferred, closing, tokenVars, workVars>>

-----------------------------------------------------------------------------
(***************************************************************************)
(* The pump: start as many ready tasks as the quotas allow.                *)
(***************************************************************************)
PumpCancelled(s) ==
  /\ pc = "pump" /\ IsFirst(s)
  /\ IsCancelled(s.task)
  /\ FinishUnsuccessful(s.task, "Cancelled")
  /\ ready' = ready \ {s}
  /\ UNCHANGED <<deferred, nextSeq, pc, closing, tokenVars, workVars>>

PumpDefer(s) ==
  /\ pc = "pump" /\ IsFirst(s)
  /\ ~IsCancelled(s.task) /\ free[ClassOf[s.task]] = 0
  /\ ready' = ready \ {s}
  /\ deferred' = deferred \cup {s}
  /\ UNCHANGED <<entryVars, nextSeq, pc, closing, tokenVars, workVars, waiter>>

\* Mutant: the attempt runs on a copy of the body.
TakeBody_copy(t) == UNCHANGED body

TakeBody(t) == body' = [body EXCEPT ![t] = FALSE]

\* spawn: the attempt takes the body and the permit with it.
PumpStart(s) ==
  LET t == s.task IN
  /\ pc = "pump" /\ IsFirst(s)
  /\ ~IsCancelled(t) /\ free[ClassOf[t]] > 0
  /\ body[t]
  /\ ready' = ready \ {s}
  /\ TakeBody(t)
  /\ attempt' = [attempt EXCEPT ![t] = @ + 1]
  /\ state' = [state EXCEPT ![t] = "Running"]
  /\ free' = [free EXCEPT ![ClassOf[t]] = @ - 1]
  /\ work' = [work EXCEPT ![t] =
       [phase |-> "starting", attempt |-> attempt[t] + 1, outcome |-> "none"]]
  /\ UNCHANGED <<outcome, pending, lineage, dependents, deferred, nextSeq, pc, closing,
                 tokenVars, timers, waiter>>

\* spawn on an entry whose body is out, or gone: the permit is dropped again.
PumpDrop(s) ==
  /\ pc = "pump" /\ IsFirst(s)
  /\ ~IsCancelled(s.task) /\ free[ClassOf[s.task]] > 0
  /\ ~body[s.task]
  /\ ready' = ready \ {s}
  /\ UNCHANGED <<entryVars, deferred, nextSeq, pc, closing, tokenVars, workVars, waiter>>

\* Mutant: the pump gives up at the first task that gets no permit.
PumpEnd_early ==
  /\ pc = "pump" /\ (ready = {} \/ deferred # {})
  /\ ready' = ready \cup deferred /\ deferred' = {}
  /\ pc' = "idle"
  /\ UNCHANGED <<entryVars, nextSeq, closing, tokenVars, workVars, waiter>>

\* The deferred slots go back in the order they were popped.  The code gives
\* them new sequence numbers in that order; keeping the old ones is the same
\* order, because they are then the only slots in the queue.
PumpEnd ==
  /\ pc = "pump" /\ ready = {}
  /\ ready' = deferred /\ deferred' = {}
  /\ pc' = "idle"
  /\ UNCHANGED <<entryVars, nextSeq, closing, tokenVars, workVars, waiter>>

-----------------------------------------------------------------------------
(***************************************************************************)
(* Reports that reach the driver.                                          *)
(***************************************************************************)
\* Mutant: the report is compared with the number of the next attempt.
IsStale_next(t, n) == attempt[t] # n + 1 \/ state[t] \in Terminal

IsStale(t, n) == attempt[t] # n \/ state[t] \in Terminal

\* Mutant: one attempt too many.
MayRetry_more(t, n, out) == out = "Retryable" /\ n <= MaxAttempts[t] /\ ~IsCancelled(t)

MayRetry(t, n, out) == out = "Retryable" /\ n < MaxAttempts[t] /\ ~IsCancelled(t)

\* Settled, from a worker: the body rides back before anything is decided.
Settle(t) ==
  LET n == work[t].attempt
      out == work[t].outcome
  IN
  /\ pc = "idle" /\ pc' = "pump"
  /\ work[t].phase = "reported"
  /\ work' = [work EXCEPT ![t] = Idle]
  /\ \/ /\ IsStale(t, n)
        /\ body' = [body EXCEPT ![t] = TRUE]
        /\ UNCHANGED <<state, outcome, attempt, pending, lineage, dependents, ready, nextSeq,
                       timers, waiter>>
     \/ /\ ~IsStale(t, n) /\ MayRetry(t, n, out)
        /\ body' = [body EXCEPT ![t] = TRUE]
        /\ state' = [state EXCEPT ![t] = "Waiting"]
        /\ timers' = timers \cup {<<t, n>>}
        /\ UNCHANGED <<outcome, attempt, pending, lineage, dependents, ready, nextSeq, waiter>>
     \/ /\ ~IsStale(t, n) /\ ~MayRetry(t, n, out)
        /\ IF out = "Completed"
           THEN FinishCompleted(t)
           ELSE FinishUnsuccessful(t, out) /\ UNCHANGED <<ready, nextSeq>>
        /\ UNCHANGED timers
  /\ UNCHANGED <<deferred, closing, tokenVars, free>>

\* The backoff elapsed.  Only a settled or a cancelled task is not requeued.
Requeue(t, n) ==
  /\ pc = "idle" /\ pc' = "pump"
  /\ <<t, n>> \in timers /\ timers' = timers \ {<<t, n>>}
  /\ \/ state[t] \in Terminal /\ UNCHANGED <<entryVars, ready, nextSeq, waiter>>
     \/ /\ state[t] \notin Terminal /\ IsCancelled(t)
        /\ FinishUnsuccessful(t, "Cancelled")
        /\ UNCHANGED <<ready, nextSeq>>
     \/ /\ state[t] \notin Terminal /\ ~IsCancelled(t)
        /\ Push(t)
        /\ UNCHANGED <<entryVars, waiter>>
  /\ UNCHANGED <<deferred, closing, tokenVars, work, free>>

\* The backoff was interrupted by the token: Settled, with no body.
BackoffCancelled(t, n) ==
  /\ pc = "idle" /\ pc' = "pump"
  /\ <<t, n>> \in timers /\ timers' = timers \ {<<t, n>>}
  /\ IsCancelled(t)
  /\ IF IsStale(t, n)
     THEN UNCHANGED <<entryVars, waiter>>
     ELSE FinishUnsuccessful(t, "Cancelled")
  /\ UNCHANGED <<queueVars, closing, tokenVars, work, free>>

-----------------------------------------------------------------------------
(***************************************************************************)
(* Workers, on their own threads.                                          *)
(***************************************************************************)
\* Mutant: the permit is not given back.
Report_keepsPermit(t, out) ==
  /\ work' = [work EXCEPT ![t].phase = "reported", ![t].outcome = out]
  /\ UNCHANGED free

\* The attempt ends: the permit is dropped, then Settled is sent.
Report(t, out) ==
  /\ work' = [work EXCEPT ![t].phase = "reported", ![t].outcome = out]
  /\ free' = [free EXCEPT ![ClassOf[t]] = @ + 1]

workerFrame == <<entryVars, queueVars, pc, closing, rootFired, timers, waiter>>

\* The durable Started record came back; the body is called.
BeginBody(t) ==
  /\ work[t].phase = "starting"
  /\ work' = [work EXCEPT ![t].phase = "running"]
  /\ UNCHANGED <<workerFrame, fired, free>>

BodyReturns(t, out) ==
  /\ work[t].phase = "running"
  /\ Report(t, out)
  /\ UNCHANGED <<workerFrame, fired>>

\* Cancellation and deadline share one path: the token fires either way.
StopBody(t, out) ==
  /\ work[t].phase = "running"
  /\ work' = [work EXCEPT ![t].phase = "stopping", ![t].outcome = out]
  /\ fired' = fired \cup {t}
  /\ UNCHANGED <<workerFrame, free>>

\* Mutant: a worker looks at its own token only.
SeeCancelled_own(t) == t \in fired /\ StopBody(t, "Cancelled")

SeeCancelled(t) == IsCancelled(t) /\ StopBody(t, "Cancelled")

MeetDeadline(t) == t \in Timed /\ ~IsCancelled(t) /\ StopBody(t, "TimedOut")

\* The body unwound, or CANCEL_GRACE ran out and its future was dropped.
EndGrace(t) ==
  /\ work[t].phase = "stopping"
  /\ Report(t, work[t].outcome)
  /\ UNCHANGED <<workerFrame, fired>>

\* Mutant: only a report gives the permit back.
BodyPanics_leaks(t) ==
  /\ t \in MayPanic /\ work[t].phase \in {"running", "stopping"}
  /\ work' = [work EXCEPT ![t].phase = "lost"]
  /\ UNCHANGED <<workerFrame, fired, free>>

\* A panic unwinds the worker: the permit is dropped, nothing is sent.
BodyPanics(t) ==
  /\ t \in MayPanic /\ work[t].phase \in {"running", "stopping"}
  /\ work' = [work EXCEPT ![t].phase = "lost"]
  /\ free' = [free EXCEPT ![ClassOf[t]] = @ + 1]
  /\ UNCHANGED <<workerFrame, fired>>

-----------------------------------------------------------------------------
(***************************************************************************)
(* Shutdown.  Which queued or paused task is settled first is up to the    *)
(* order of a heap's storage and of a hash map.                            *)
(***************************************************************************)
Shutdown ==
  /\ pc = "idle" /\ pc' = "draining"
  /\ rootFired' = TRUE
  /\ closing' = {s.task : s \in ready}
  /\ ready' = {}
  /\ UNCHANGED <<entryVars, deferred, nextSeq, fired, workVars, waiter>>

Drain(t) ==
  /\ pc \in {"draining", "holding"} /\ t \in closing
  /\ closing' = closing \ {t}
  /\ FinishUnsuccessful(t, "Cancelled")
  /\ UNCHANGED <<queueVars, pc, tokenVars, workVars>>

CollectPaused ==
  /\ pc = "draining" /\ closing = {}
  /\ pc' = "holding"
  /\ closing' = {t \in Task : state[t] = "Paused"}
  /\ UNCHANGED <<entryVars, queueVars, tokenVars, workVars, waiter>>

\* The driver returns; every sender it still holds is dropped with it.
Stop ==
  /\ pc = "holding" /\ closing = {}
  /\ pc' = "stopped"
  /\ waiter' = [t \in Task |-> Answered(waiter[t], "stopped")]
  /\ UNCHANGED <<entryVars, queueVars, closing, tokenVars, workVars>>

-----------------------------------------------------------------------------
Client == \/ \E t \in Task : Submit(t) \/ Watch(t) \/ Cancel(t) \/ Pause(t) \/ Resume(t)
          \/ Shutdown

Pump == \/ \E s \in ready : PumpCancelled(s) \/ PumpDefer(s) \/ PumpStart(s) \/ PumpDrop(s)
        \/ PumpEnd

Backoff(t, n) == Requeue(t, n) \/ BackoffCancelled(t, n)

Reports == \/ \E t \in Task : Settle(t)
           \/ \E k \in timers : Backoff(k[1], k[2])

Work(t) == \/ BeginBody(t) \/ SeeCancelled(t) \/ MeetDeadline(t) \/ EndGrace(t)
           \/ BodyPanics(t) \/ \E out \in BodyResult : BodyReturns(t, out)

Closing == CollectPaused \/ Stop \/ \E t \in Task : Drain(t)

Next == Client \/ Pump \/ Reports \/ Closing \/ \E t \in Task : Work(t)

Spec == Init /\ [][Next]_vars

(***************************************************************************)
(* What the code's own machinery guarantees: the driver's loop runs, a     *)
(* message sent on the channel is reached after finitely many others (so   *)
(* strong fairness: the driver is not idle all the time), a sleep elapses, *)
(* and a worker notices its token and is cut off when CANCEL_GRACE ends.   *)
(* A body that is not stopped owes nobody anything.                        *)
(***************************************************************************)
Fairness ==
  /\ WF_vars(Pump) /\ WF_vars(Closing)
  /\ \A t \in Task :
       /\ SF_vars(Settle(t))
       /\ \A n \in 1 .. MaxAttempts[t] : SF_vars(Backoff(t, n))
       /\ WF_vars(BeginBody(t)) /\ WF_vars(SeeCancelled(t)) /\ WF_vars(EndGrace(t))

FairSpec == Spec /\ Fairness

\* With bodies that all come to an end by themselves.
BodiesEnd == \A t \in Task : WF_vars(\E out \in BodyResult : BodyReturns(t, out))

EndingSpec == FairSpec /\ BodiesEnd
============================================================================
