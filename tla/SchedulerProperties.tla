------------------------ MODULE SchedulerProperties ------------------------
(***************************************************************************)
(* What must hold of the scheduler.                                        *)
(***************************************************************************)
EXTENDS Scheduler

\* The attempt holds a permit from spawn until it is over.
Holds(t) == work[t].phase \in {"starting", "running", "stopping"}
Slots == ready \cup deferred
HasSlot(t) == \E s \in Slots : s.task = t
Backing(t) == \E k \in timers : k[1] = t

-----------------------------------------------------------------------------
(* Type invariant: every field holds what its Rust type and its writers allow. *)
EntryTypeOK ==
  /\ state \in [Task -> Live \cup Terminal \cup {"Absent"}]
  /\ outcome \in [Task -> Outcome \cup {"none"}]
  /\ body \in [Task -> BOOLEAN]
  /\ attempt \in [Task -> Nat]
  /\ pending \in [Task -> SUBSET Task]
  /\ lineage \in [Task -> SUBSET Task]
  /\ dependents \in [Task -> Seq(Task)]

QueueTypeOK ==
  /\ ready \subseteq [task : Task, seq : Nat]
  /\ deferred \subseteq [task : Task, seq : Nat]
  /\ nextSeq \in Nat
  /\ pc \in {"idle", "pump", "draining", "holding", "stopped"}
  /\ closing \subseteq Task

\* A worker that is about to report, or has, knows with what.
WorkOK ==
  /\ work \in [Task -> [phase : Phase, attempt : Nat, outcome : Outcome \cup {"none"}]]
  /\ \A t \in Task : work[t].phase \in {"stopping", "reported"} => work[t].outcome \in Outcome

WorkTypeOK ==
  /\ fired \subseteq Task /\ rootFired \in BOOLEAN
  /\ WorkOK
  /\ free \in [Class -> Nat]
  /\ timers \subseteq Task \X Nat
  /\ waiter \in [Task -> Outcome \cup {"none", "waiting", "stopped"}]

TypeOK == EntryTypeOK /\ QueueTypeOK /\ WorkTypeOK

-----------------------------------------------------------------------------
(* Quotas are exact: the permits held by attempts and the free ones always *)
(* add up to the class's limit, so no cancellation, timeout, panic or      *)
(* dropped duplicate leaks a permit or mints one (agent-resource, Permit). *)
PermitConservation ==
  \A c \in Class :
    Cardinality({t \in Task : ClassOf[t] = c /\ Holds(t)}) + free[c] = Limit[c]

(* A body is in one place.  While an attempt has it the entry has none, so *)
(* a second attempt cannot be spawned beside the first, however many slots *)
(* the queue holds for the task (spawn's body.take()).                     *)
OneAttempt == \A t \in Task : body[t] => work[t].phase = "none"

(* Retries stop: no task is attempted more often than its policy allows,   *)
(* also when pauses and stale timers queue it more than once.              *)
AttemptsBounded == \A t \in Task : attempt[t] <= MaxAttempts[t]

(* Nothing is forgotten: every unsettled task has something that will move *)
(* it.  A pending one waits on unsettled tasks that know of it or has a    *)
(* queue slot, a waiting one has a timer or a slot, a running one a worker *)
(* that will report (a panic excepted).  A stopped driver moves nothing.   *)
BlockedOn(t, d) ==
  state[d] \in Live /\ \E i \in DOMAIN dependents[d] : dependents[d][i] = t

NoStrandedTask ==
  pc \notin {"draining", "holding", "stopped"} => \A t \in Task :
    CASE state[t] = "Pending" -> \/ HasSlot(t)
                                 \/ pending[t] # {} /\ \A d \in pending[t] : BlockedOn(t, d)
      [] state[t] = "Waiting" -> HasSlot(t) \/ Backing(t)
      [] state[t] = "Running" -> work[t].phase # "none"
      [] OTHER -> TRUE

(* A freed slot is always picked up: when the driver rests with a task     *)
(* still queued, its class is exhausted or a report that will pump again   *)
(* is on its way (driver.rs, pump's comment).                              *)
NoLostWakeup ==
  pc = "idle" => \A s \in ready :
    \/ free[ClassOf[s.task]] = 0
    \/ \E u \in Task : ClassOf[u] = ClassOf[s.task] /\ work[u].phase = "reported"

(* A task's attempt only ever runs on completed dependencies.              *)
DependenciesFirst ==
  \A t \in Task : Holds(t) => \A d \in DependsOn[t] : state[d] = "Completed"

(* The caller of run_to_completion hears the outcome the entry records.    *)
AnswerIsOutcome == \A t \in Task : waiter[t] \in Outcome => waiter[t] = outcome[t]

(* A task is reported settled only once its attempt is over: nobody is     *)
(* told "cancelled" while the body still unwinds.                          *)
SettledMeansOver == \A t \in Task : state[t] \in Terminal => ~Holds(t)

-----------------------------------------------------------------------------
(* A settled task never runs again and stays settled: no stale slot, timer *)
(* or returned body starts another attempt of it (spawn looks at the body, *)
(* not at the state).                                                      *)
NoResurrection ==
  [][\A t \in Task :
       state[t] \in Terminal => state'[t] \in Terminal /\ attempt'[t] = attempt[t]]_vars

(* The scheduler implements the state machine of agent-core.               *)
Lifecycle == INSTANCE TaskLifecycle

FollowsLifecycle == Lifecycle!Spec

(* A settled outcome is kept verbatim (driver.rs, Entry.outcome).          *)
OutcomeIsFinal ==
  [][\A t \in Task : state[t] \in Terminal => outcome'[t] = outcome[t]]_vars

(* Only a resume takes a task out of its pause, unless it is settled.      *)
PauseHolds ==
  [][\A t \in Task : state[t] = "Paused" => state'[t] \in {"Paused", "Pending"} \cup Terminal]_vars

Outranks(r, s) ==
  /\ ClassOf[r.task] = ClassOf[s.task]
  /\ \/ PriorityOf[r.task] > PriorityOf[s.task]
     \/ PriorityOf[r.task] = PriorityOf[s.task] /\ r.seq < s.seq

Starts(s) == attempt'[s.task] # attempt[s.task] /\ s \notin ready'

(* A task with more priority, or as much and queued earlier, is not passed *)
(* over by one of its class, but for one case: a permit that comes back    *)
(* while the pump runs, after it has set the better task aside.            *)
OvertakenOnlyByRelease ==
  [][\A s \in ready : Starts(s) => \A r \in Slots : Outranks(r, s) =>
       \E u \in Task : /\ ClassOf[u] = ClassOf[s.task]
                       /\ work[u].phase \in {"reported", "lost"}]_vars

-----------------------------------------------------------------------------
(* Stop reaches every task: once its token or an ancestor's is cancelled,  *)
(* a task is settled, although its body may never end by itself and may    *)
(* ignore the token (CANCEL_GRACE).                                        *)
EveryCancelSettles ==
  \A t \in Task :
    (state[t] \in Live /\ IsCancelled(t)) ~> (state[t] \in Terminal \/ pc = "stopped")

(* A task that has not started is settled when it is cancelled, since      *)
(* nothing will report it (driver.rs, on_cancel).                          *)
UnstartedCancelSettles ==
  \A t \in Task : (t \in fired /\ state[t] \in Live /\ attempt[t] = 0) ~>
      (state[t] \in Terminal \/ pc = "stopped")

(* Every caller is answered, if every body comes to an end and the task is *)
(* not left paused: through retries, failed dependencies, cancellations    *)
(* and a shutdown.                                                         *)
CallersAnswered ==
  \A t \in Task : (waiter[t] = "waiting") ~> (waiter[t] # "waiting" \/ state[t] = "Paused")
============================================================================
