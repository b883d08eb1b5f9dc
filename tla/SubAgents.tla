----------------------------- MODULE SubAgents -----------------------------
(***************************************************************************)
(* The delegations of one turn (agent-subagents, SubAgentSupervisor).      *)
(*                                                                         *)
(* Jobs share a few slots.  A job has a task of its own that waits for a   *)
(* slot, runs the body as yet another task, and records how it ended.      *)
(* Joins suspend on a watch channel that every settlement signals; an      *)
(* outcome is handed out once, to whichever join or drain comes first.     *)
(* The turn ends with cancel_all, or its parent's token fires.             *)
(*                                                                         *)
(* One mutex guards the table of jobs: an action is a critical section, or *)
(* a step between two of them.  Ids are numbers in spawn order.  Results,  *)
(* metadata, grants, events and clocks are left out.                       *)
(***************************************************************************)
EXTENDS Integers, Sequences, FiniteSets

CONSTANTS
  MaxJobs,   \* the cap on jobs of a turn
  Slots,     \* jobs that may run at once
  Key, NoKey, \* coalescing keys, and the request that has none
  Caller,    \* those who join, one join at a time
  Wanted     \* the sets of ids a join may ask for, {} for a bare join

ASSUME SubAgentsAssumption ==
  /\ MaxJobs \in Nat /\ Slots \in Nat \ {0} /\ NoKey \notin Key
  /\ \A ids \in Wanted : ids \subseteq Nat

Job == 1 .. MaxJobs

VARIABLES
  issued,            \* how many ids have been given out
  key, state,        \* of each job; JobState, or "Absent"
  delivered,         \* its outcome has been handed out
  closed, cancelled, \* cancel_all has begun; the root token has fired
  launch,            \* where the job's own task is
  free, waiters,     \* the semaphore
  body,              \* the body's task
  call,              \* where each caller is
  ending,            \* where cancel_all is
  repeated           \* history: the outcomes handed out more than once

jobVars == <<issued, key, state, closed>>
slotVars == <<free, waiters>>
vars == <<jobVars, delivered, cancelled, launch, slotVars, body, call, ending, repeated>>

IsSettled(s) == s \in {"Done", "Failed", "Cancelled"}
Issued == 1 .. issued
Unsettled == {j \in Issued : ~IsSettled(state[j])}

NoCall == [pc |-> "idle", targets |-> {}, mode |-> "all", block |-> TRUE, signalled |-> FALSE,
           timedOut |-> FALSE]

Init ==
  /\ issued = 0 /\ key = [j \in Job |-> NoKey] /\ state = [j \in Job |-> "Absent"]
  /\ delivered = [j \in Job |-> FALSE]
  /\ closed = FALSE /\ cancelled = FALSE
  /\ launch = [j \in Job |-> "none"]
  /\ free = Slots /\ waiters = <<>>
  /\ body = [j \in Job |-> "none"]
  /\ call = [c \in Caller |-> NoCall]
  /\ ending = "no"
  /\ repeated = {}

-----------------------------------------------------------------------------
(***************************************************************************)
(* spawn.  Only the spawns that create a job change anything here: a       *)
(* refused one and one that folds into an unsettled twin do not.           *)
(***************************************************************************)
\* Mutant: only the token is asked.
Refusing_token == cancelled

Refusing == closed \/ cancelled

\* Mutant: a job that has left the queue is no twin any more.
Twins_queued(k) == {j \in Issued : state[j] = "Queued" /\ key[j] = k}

Twins(k) == {j \in Unsettled : key[j] = k}

Spawn(k) ==
  /\ ~Refusing
  /\ k = NoKey \/ Twins(k) = {}
  /\ issued < MaxJobs
  /\ LET j == issued + 1 IN
       /\ issued' = j
       /\ key' = [key EXCEPT ![j] = k]
       /\ state' = [state EXCEPT ![j] = "Queued"]
       /\ launch' = [launch EXCEPT ![j] = "new"]
  /\ UNCHANGED <<closed, delivered, cancelled, slotVars, body, call, ending, repeated>>

-----------------------------------------------------------------------------
(***************************************************************************)
(* launch: the job's own task.  The semaphore is fair among those that     *)
(* have asked; the tasks come to it in any order.                          *)
(***************************************************************************)
Goes(j, from, to) == launch[j] = from /\ launch' = [launch EXCEPT ![j] = to]

Acquire(j) ==
  /\ \/ free > 0 /\ free' = free - 1 /\ Goes(j, "new", "holding") /\ UNCHANGED waiters
     \/ free = 0 /\ waiters' = Append(waiters, j) /\ Goes(j, "new", "waiting") /\ UNCHANGED free
  /\ UNCHANGED <<jobVars, delivered, cancelled, body, call, ending, repeated>>

Record(j, s) == state' = [state EXCEPT ![j] = s]

\* Mutant: what cancel_all settled is started.
Admit_settled(j) ==
  /\ \/ cancelled /\ Goes(j, "holding", "settled") /\ Record(j, "Cancelled")
     \/ ~cancelled /\ Goes(j, "holding", "admitted") /\ Record(j, "Running")
  /\ UNCHANGED <<issued, key, closed, delivered, cancelled, slotVars, body, call, ending, repeated>>

\* Mutant: the token is not looked at.
Admit_blind(j) ==
  /\ \/ IsSettled(state[j]) /\ Goes(j, "holding", "leaving") /\ UNCHANGED state
     \/ ~IsSettled(state[j]) /\ Goes(j, "holding", "admitted") /\ Record(j, "Running")
  /\ UNCHANGED <<issued, key, closed, delivered, cancelled, slotVars, body, call, ending, repeated>>

Admit(j) ==
  /\ \/ IsSettled(state[j]) /\ Goes(j, "holding", "leaving") /\ UNCHANGED state
     \/ ~IsSettled(state[j]) /\ cancelled /\ Goes(j, "holding", "settled") /\ Record(j, "Cancelled")
     \/ ~IsSettled(state[j]) /\ ~cancelled /\ Goes(j, "holding", "admitted") /\ Record(j, "Running")
  /\ UNCHANGED <<issued, key, closed, delivered, cancelled, slotVars, body, call, ending, repeated>>

StartBody(j) ==
  /\ Goes(j, "admitted", "watching")
  /\ body' = [body EXCEPT ![j] = "live"]
  /\ UNCHANGED <<jobVars, delivered, cancelled, slotVars, call, ending, repeated>>

\* It returns Ok, or it returns Err or panics; or it goes because it was aborted.
BodyEnds(j) ==
  /\ \/ body[j] = "live" /\ \E r \in {"ok", "err"} : body' = [body EXCEPT ![j] = r]
     \/ body[j] = "aborted" /\ body' = [body EXCEPT ![j] = "gone"]
  /\ UNCHANGED <<jobVars, delivered, cancelled, launch, slotVars, call, ending, repeated>>

\* The grace period begins.
SeeCancelled(j) ==
  /\ cancelled /\ body[j] = "live" /\ Goes(j, "watching", "grace")
  /\ UNCHANGED <<jobVars, delivered, cancelled, slotVars, body, call, ending, repeated>>

Verdict(r) == IF r = "ok" THEN "Done" ELSE "Failed"

\* settle_locked with the body's own result.
Conclude(j) ==
  /\ body[j] \in {"ok", "err"}
  /\ Goes(j, "watching", "settled") \/ Goes(j, "grace", "settled")
  /\ Record(j, Verdict(body[j]))
  /\ body' = [body EXCEPT ![j] = "gone"]
  /\ UNCHANGED <<issued, key, closed, delivered, cancelled, slotVars, call, ending, repeated>>

\* The grace period is over: abort asks the body to go and does not wait.
Abandon(j) ==
  /\ body[j] = "live" /\ Goes(j, "grace", "settled")
  /\ body' = [body EXCEPT ![j] = "aborted"]
  /\ Record(j, "Cancelled")
  /\ UNCHANGED <<issued, key, closed, delivered, cancelled, slotVars, call, ending, repeated>>

\* The watch channel: every receiver there is has something new.
Signalled ==
  [c \in Caller |->
     IF call[c].pc \in {"checking", "checked", "waiting"} THEN [call[c] EXCEPT !.signalled = TRUE] ELSE call[c]]

News(j) == call' = IF launch[j] = "settled" THEN Signalled ELSE call

\* Mutant: the slot is handed on and given back as well.
Leave_twice(j) ==
  /\ launch[j] \in {"settled", "leaving"}
  /\ News(j)
  /\ free' = free + 1
  /\ IF waiters = <<>>
     THEN launch' = [launch EXCEPT ![j] = "gone"] /\ UNCHANGED waiters
     ELSE /\ launch' = [launch EXCEPT ![j] = "gone", ![Head(waiters)] = "holding"]
          /\ waiters' = Tail(waiters)
  /\ UNCHANGED <<jobVars, delivered, cancelled, body, ending, repeated>>

\* Joins are told, if something was settled here.  Then the permit is
\* dropped, which hands it to whoever has waited longest.
Leave(j) ==
  /\ launch[j] \in {"settled", "leaving"}
  /\ News(j)
  /\ IF waiters = <<>>
     THEN launch' = [launch EXCEPT ![j] = "gone"] /\ free' = free + 1 /\ UNCHANGED waiters
     ELSE /\ launch' = [launch EXCEPT ![j] = "gone", ![Head(waiters)] = "holding"]
          /\ waiters' = Tail(waiters) /\ UNCHANGED free
  /\ UNCHANGED <<jobVars, delivered, cancelled, body, ending, repeated>>

-----------------------------------------------------------------------------
(***************************************************************************)
(* join and drain.  A join subscribes to the channel before it first looks *)
(* at its jobs; that it does so after choosing them is not told apart.     *)
(***************************************************************************)
callFrame == <<jobVars, cancelled, launch, slotVars, body, ending>>

Targets(ids) ==
  IF ids = {} THEN {j \in Issued : ~IsSettled(state[j]) \/ ~delivered[j]} ELSE ids \cap Issued

Ask(c) ==
  /\ call[c].pc = "idle"
  /\ \E ids \in Wanted, m \in {"all", "any"}, b \in BOOLEAN :
       /\ ~b => m = "all"
       /\ call' = [call EXCEPT ![c] =
            [NoCall EXCEPT !.targets = Targets(ids), !.mode = m, !.block = b,
                           !.pc = IF b /\ Targets(ids) # {} THEN "checking" ELSE "collecting"]]
  /\ UNCHANGED <<callFrame, delivered, repeated>>

Satisfied(c) ==
  LET settled == {j \in call[c].targets : IsSettled(state[j])} IN
    IF call[c].mode = "all" THEN settled = call[c].targets ELSE settled # {}

\* Under the mutex; what happens after it is the receiver's to notice.
Check(c) ==
  /\ call[c].pc = "checking"
  /\ call' = [call EXCEPT ![c].pc = IF Satisfied(c) THEN "collecting" ELSE "checked"]
  /\ UNCHANGED <<callFrame, delivered, repeated>>

\* Mutant: only what is signalled from now on counts.
Listen_late(c) ==
  /\ call[c].pc = "checked"
  /\ call' = [call EXCEPT ![c].pc = "waiting", ![c].signalled = FALSE]
  /\ UNCHANGED <<callFrame, delivered, repeated>>

Listen(c) ==
  /\ call[c].pc = "checked"
  /\ call' = [call EXCEPT ![c].pc = "waiting"]
  /\ UNCHANGED <<callFrame, delivered, repeated>>

\* Mutant: any news ends the wait.
Wake_any(c) ==
  /\ call[c].pc = "waiting" /\ call[c].signalled
  /\ call' = [call EXCEPT ![c].pc = "collecting", ![c].signalled = FALSE]
  /\ UNCHANGED <<callFrame, delivered, repeated>>

Wake(c) ==
  /\ call[c].pc = "waiting" /\ call[c].signalled
  /\ call' = [call EXCEPT ![c].pc = "checking", ![c].signalled = FALSE]
  /\ UNCHANGED <<callFrame, delivered, repeated>>

\* The wait is polled before its timer is.
TimeOut(c) ==
  /\ call[c].pc = "waiting" /\ ~call[c].signalled
  /\ call' = [call EXCEPT ![c].pc = "collecting", ![c].timedOut = TRUE]
  /\ UNCHANGED <<callFrame, delivered, repeated>>

\* Mutant: what was reported is reported again.
Fresh_all(js) == {j \in js : IsSettled(state[j])}

Fresh(js) == {j \in js : IsSettled(state[j]) /\ ~delivered[j]}

HandOut(js) ==
  /\ delivered' = [j \in Job |-> delivered[j] \/ j \in js]
  /\ repeated' = repeated \cup {j \in js : delivered[j]}

Collect(c) ==
  /\ call[c].pc = "collecting"
  /\ HandOut(Fresh(call[c].targets))
  /\ call' = [call EXCEPT ![c] = NoCall]
  /\ UNCHANGED callFrame

Drain ==
  /\ Fresh(Issued) # {}
  /\ HandOut(Fresh(Issued))
  /\ UNCHANGED <<callFrame, call>>

-----------------------------------------------------------------------------
(***************************************************************************)
(* cancel_all: settle what is queued, fire the token, signal.  Or only the *)
(* token, when the runtime shuts down.                                     *)
(***************************************************************************)
CancelAll ==
  /\ ending = "no" /\ ending' = "closed"
  /\ closed' = TRUE
  /\ state' = [j \in Job |-> IF state[j] = "Queued" THEN "Cancelled" ELSE state[j]]
  /\ UNCHANGED <<issued, key, delivered, cancelled, launch, slotVars, body, call, repeated>>

\* Mutant: the running bodies are not told.
CancelRoot_skipped ==
  /\ ending = "closed" /\ ending' = "fired"
  /\ UNCHANGED <<jobVars, delivered, cancelled, launch, slotVars, body, call, repeated>>

CancelRoot ==
  /\ ending = "closed" /\ ending' = "fired"
  /\ cancelled' = TRUE
  /\ UNCHANGED <<jobVars, delivered, launch, slotVars, body, call, repeated>>

CancelBump ==
  /\ ending = "fired" /\ ending' = "done"
  /\ call' = Signalled
  /\ UNCHANGED <<jobVars, delivered, cancelled, launch, slotVars, body, repeated>>

ParentCancels ==
  /\ ~cancelled /\ cancelled' = TRUE
  /\ UNCHANGED <<jobVars, delivered, launch, slotVars, body, call, ending, repeated>>

-----------------------------------------------------------------------------
Launch(j) ==
  \/ Acquire(j) \/ Admit(j) \/ StartBody(j) \/ SeeCancelled(j) \/ Conclude(j) \/ Abandon(j)
  \/ Leave(j)

Joining(c) == Check(c) \/ Listen(c) \/ Wake(c) \/ Collect(c)

Next ==
  \/ \E k \in Key \cup {NoKey} : Spawn(k)
  \/ \E j \in Issued : Launch(j) \/ BodyEnds(j)
  \/ \E c \in Caller : Ask(c) \/ Joining(c) \/ TimeOut(c)
  \/ Drain
  \/ CancelAll \/ CancelRoot \/ CancelBump \/ ParentCancels

\* The runtime polls every task that is ready, and a started cancel_all has
\* nothing to wait for.  No body has to end, and no timer of a join to fire.
Fairness ==
  /\ \A j \in Job : WF_vars(j \in Issued /\ Launch(j))
  /\ \A c \in Caller : WF_vars(Joining(c))
  /\ WF_vars(CancelRoot) /\ WF_vars(CancelBump)

Spec == Init /\ [][Next]_vars /\ Fairness

-----------------------------------------------------------------------------
(* Type invariant. *)
TypeOK ==
  /\ issued \in 0 .. MaxJobs
  /\ key \in [Job -> Key \cup {NoKey}]
  /\ state \in [Job -> {"Absent", "Queued", "Running", "Done", "Failed", "Cancelled"}]
  /\ delivered \in [Job -> BOOLEAN] /\ closed \in BOOLEAN /\ cancelled \in BOOLEAN
  /\ launch \in [Job -> {"none", "new", "waiting", "holding", "admitted", "watching", "grace",
                         "settled", "leaving", "gone"}]
  /\ free \in 0 .. Slots
  /\ waiters \in Seq(Job)
  /\ body \in [Job -> {"none", "live", "ok", "err", "aborted", "gone"}]
  /\ call \in [Caller -> [pc : {"idle", "checking", "checked", "waiting", "collecting"},
                          targets : SUBSET Job, mode : {"all", "any"}, block : BOOLEAN,
                          signalled : BOOLEAN, timedOut : BOOLEAN]]
  /\ ending \in {"no", "closed", "fired", "done"}
  /\ repeated \subseteq Job

(* No more bodies exist at a time than there are slots ("a spend and       *)
(* rate-limit control"), counting those that were aborted and are not gone.*)
BodiesWithinSlots == Cardinality({j \in Job : body[j] \in {"live", "aborted"}}) <= Slots

(* "An outcome is delivered exactly once": never twice, however joins and  *)
(* drains overlap.                                                         *)
DeliveredOnce == repeated = {}

(* No two unsettled delegations of a turn do the same work.                *)
OneJobPerKey == \A i, j \in Unsettled : i # j => key[i] = NoKey \/ key[i] # key[j]

(* What has been settled, by whichever side, stays as it was.              *)
OutcomeIsFinal == [][\A j \in Job : IsSettled(state[j]) => state'[j] = state[j]]_vars

(* Once cancel_all has begun, no delegation gets to run, one that is being *)
(* spawned at that moment included.                                        *)
NoneAdmittedOnceClosed ==
  [][\A j \in Job : closed /\ state[j] # "Running" => state'[j] # "Running"]_vars

Completes(c) == call[c].block /\ call[c].mode = "all" /\ ~call[c].timedOut

(* A blocking join for all of its jobs that did not time out leaves none   *)
(* of them out: each was handed to it or to somebody before it.            *)
JoinIsComplete ==
  [][\A c \in Caller :
       call[c].pc = "collecting" /\ call'[c].pc = "idle" /\ Completes(c) =>
         \A j \in call[c].targets : IsSettled(state[j]) /\ delivered'[j]]_vars

(* "join suspends on real settlement": if every body ends, or is cancelled, *)
(* a waiting join is answered without its timer.                           *)
JoinIsWoken ==
  (\A j \in Job : []<>(body[j] # "live"))
    => \A c \in Caller : call[c].pc = "waiting" ~> call[c].pc = "idle"

(* After a cancellation every delegation is settled, whatever its body     *)
(* does.                                                                   *)
CancelSettlesAll == (closed \/ cancelled) ~> (Unsettled = {})
============================================================================
