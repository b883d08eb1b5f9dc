--------------------------- MODULE AutomationRuns ---------------------------
(***************************************************************************)
(* The execution manager of the automation                                 *)
(* (electron/automation/executionManager.mjs) and its database (repo.mjs). *)
(*                                                                         *)
(* One JavaScript thread runs everything, but the process may die between  *)
(* any two writes.  `turn` says which call holds the thread: while one     *)
(* does, only its next write or a crash can come.  A call gives the thread *)
(* back where the code awaits: inside a step, and in the pause before a    *)
(* retry.  A run that meets a closed gate does not wait: its call ends,    *)
(* and a decision, an event or a deadline calls executeRun anew, which     *)
(* finds its place from the database.                                      *)
(*                                                                         *)
(* A definition is a chain of nodes; a fan-out node stands for one step    *)
(* per item.  Inputs, outputs, previews, wait keys, checkpoints and the    *)
(* event log are data and left out, except that a step has logged its      *)
(* output.  TIMED_OUT is a FAILED with another name.                       *)
(***************************************************************************)
EXTENDS Integers, Sequences, FiniteSets

CONSTANTS
  Run, Call, None,   \* runs; calls of executeRun alive at once
  Length,            \* steps of the definition
  Attempts,          \* retry.attempts of each step
  Waits, Gated,      \* steps with waitFor, with requiresApproval
  Lenient,           \* items whose refusal is skipped (onItemError is not "fail")
  Continuing,        \* items whose failure is skipped too (onItemError "continue")
  Shell, Spending,   \* steps that run a child process; that spend tokens
  AutoApprove,       \* gated steps whose deadline approves
  Single,            \* limits.concurrency is "single"
  MaxTokens,         \* limits.maxTokens, in units of one report
  MaxCrashes         \* bound: deaths of the process

Step == 1 .. Length

ASSUME RunsAssumption ==
  /\ None \notin Call /\ None \notin Run /\ Length \in Nat /\ Single \in BOOLEAN
  /\ MaxTokens \in Nat \ {0}
  /\ Attempts \in [Step -> Nat \ {0}]
  /\ Waits \subseteq Step /\ Gated \subseteq Step /\ AutoApprove \subseteq Gated
  /\ Continuing \subseteq Lenient /\ Lenient \subseteq Step
  /\ Shell \subseteq Step /\ Spending \subseteq Step /\ MaxCrashes \in Nat

VARIABLES
  state, attempts, approval, wait, output, spent, process, \* tables of the database
  defined,                \* the definition's files are there
  up, call, active, turn, \* memory: the process, its calls, the controllers by run, the thread
  child, unrecorded,      \* children alive; those whose record a crash prevented
  crashes                 \* bound

gates == <<approval, wait>>
tables == <<state, attempts, gates, output, spent, process>>
world == <<defined, child, unrecorded, crashes>>

vars == <<tables, up, call, active, turn, world>>

Terminal == {"SUCCEEDED", "FAILED", "CANCELLED"}
Suspended == {"AWAITING_APPROVAL", "AWAITING_EVENT"}
RunState == {"NONE", "QUEUED", "RUNNING", "AWAITING_RETRY", "INTERRUPTED"} \cup Suspended \cup Terminal

\* executeRun and what it calls: where it is, its loop's step and retry, the
\* steps it read as done, its guard's tokens, its controller, its child.
Idle == [run |-> None, pc |-> "idle", step |-> 0, try |-> 0, done |-> {}, tokens |-> 0,
         aborted |-> FALSE, deaf |-> FALSE, logged |-> FALSE]

Busy(c) == call[c].pc # "idle"
Executing(r) == \E c \in Call : call[c].run = r

Init ==
  /\ state = [r \in Run |-> "NONE"]
  /\ attempts = [r \in Run |-> [s \in Step |-> <<>>]]
  /\ approval = [r \in Run |-> [s \in Step |-> "NONE"]]
  /\ wait = [r \in Run |-> [s \in Step |-> "NONE"]]
  /\ output = [r \in Run |-> {}] /\ spent = [r \in Run |-> 0]
  /\ process = {} /\ child = {} /\ unrecorded = {}
  /\ defined = TRUE /\ up = "up" /\ turn = None /\ crashes = 0
  /\ call = [c \in Call |-> Idle] /\ active = [r \in Run |-> None]

-----------------------------------------------------------------------------
(***************************************************************************)
(* Who calls executeRun.  Each makes its own write first; the call begins  *)
(* in the same turn of the event loop, so only a crash can separate them.  *)
(***************************************************************************)
Quiet == turn = None /\ up \in {"starting", "up"}

Calls(r, pc) ==
  \E c \in Call :
    /\ ~Busy(c) /\ c = CHOOSE d \in Call : ~Busy(d)
    /\ call' = [call EXCEPT ![c] = [Idle EXCEPT !.run = r, !.pc = pc]]
    /\ turn' = c

HasActiveRun == \E r \in Run : state[r] \notin Terminal \cup {"NONE"}

CreateRun(r) ==
  /\ turn = None /\ up = "up" /\ defined /\ state[r] = "NONE"
  /\ ~(Single /\ HasActiveRun)
  /\ state' = [state EXCEPT ![r] = "QUEUED"]
  /\ Calls(r, "entry")
  /\ UNCHANGED <<attempts, gates, output, spent, process, up, active, world>>

\* Whoever calls executeRun again: it is "safe to call for a QUEUED run or to
\* resume an INTERRUPTED one".
Resume(r) ==
  /\ turn = None /\ up = "up" /\ state[r] \in {"QUEUED", "INTERRUPTED"} /\ ~Executing(r)
  /\ Calls(r, "entry")
  /\ UNCHANGED <<tables, up, active, world>>

DecideApproval(r, s, verdict) ==
  /\ turn = None /\ up = "up" /\ approval[r][s] = "PENDING"
  /\ approval' = [approval EXCEPT ![r][s] = verdict]
  /\ Calls(r, "entry")
  /\ UNCHANGED <<state, attempts, wait, output, spent, process, up, active, world>>

DeliverEvent(r, s) ==
  /\ turn = None /\ up = "up" /\ wait[r][s] = "PENDING"
  /\ wait' = [wait EXCEPT ![r][s] = "RECEIVED"]
  /\ Calls(r, "entry")
  /\ UNCHANGED <<state, attempts, approval, output, spent, process, up, active, world>>

\* A lapsed approval ends the run in a second write (Lapse), without a call
\* of executeRun, unless its policy is to approve.
ExpireApproval(r, s) ==
  /\ Quiet /\ approval[r][s] = "PENDING"
  /\ IF s \in AutoApprove
       THEN approval' = [approval EXCEPT ![r][s] = "APPROVED"] /\ Calls(r, "entry")
       ELSE approval' = [approval EXCEPT ![r][s] = "EXPIRED"] /\ Calls(r, "lapse")
  /\ UNCHANGED <<state, attempts, wait, output, spent, process, up, active, world>>

\* Only start-up looks for waits that are overdue.
ExpireWait(r, s) ==
  /\ turn = None /\ up = "starting" /\ wait[r][s] = "PENDING"
  /\ wait' = [wait EXCEPT ![r][s] = "EXPIRED"]
  /\ Calls(r, "entry")
  /\ UNCHANGED <<state, attempts, approval, output, spent, process, up, active, world>>

Cancel(r) ==
  /\ turn = None /\ up = "up" /\ active[r] # None
  /\ call' = [call EXCEPT ![active[r]].aborted = TRUE]
  /\ UNCHANGED <<tables, up, active, turn, world>>

DeleteWorkflow ==
  /\ turn = None /\ up = "up" /\ defined
  /\ defined' = FALSE
  /\ UNCHANGED <<tables, up, call, active, turn, child, unrecorded, crashes>>

-----------------------------------------------------------------------------
(***************************************************************************)
(* executeRun.  Holds(c, pc) is its next statement; Returns its end.       *)
(***************************************************************************)
Holds(c, pc) == turn = c /\ call[c].pc = pc

At(c, fields) == call' = [call EXCEPT ![c] = fields]

Returns(c) == At(c, Idle) /\ turn' = None

Ends(c, verdict) ==
  /\ state' = [state EXCEPT ![call[c].run] = verdict]
  /\ active' = [active EXCEPT ![call[c].run] = None]
  /\ Returns(c)
  /\ UNCHANGED <<attempts, gates, output, spent, process, up, world>>

\* Mutant: a resumed run starts with an empty budget.
Seed_zero(r) == 0

Seed(r) == spent[r]

CompletedNodes(r) == {s \in Step : \E i \in DOMAIN attempts[r][s] : attempts[r][s][i] = "SUCCEEDED"}

Refuse(c) ==
  /\ Holds(c, "entry") /\ state[call[c].run] \in Terminal
  /\ Returns(c)
  /\ UNCHANGED <<tables, up, active, world>>

\* The definition is gone: setState FAILED, before any controller exists.
Orphaned(c) ==
  /\ Holds(c, "entry") /\ state[call[c].run] \notin Terminal /\ ~defined
  /\ Ends(c, "FAILED")

Enter(c) ==
  /\ Holds(c, "entry") /\ state[call[c].run] \notin Terminal /\ defined
  /\ state' = [state EXCEPT ![call[c].run] = "RUNNING"]
  /\ active' = [active EXCEPT ![call[c].run] = c]
  /\ At(c, [call[c] EXCEPT !.pc = "loop", !.step = 1,
              !.done = CompletedNodes(call[c].run), !.tokens = Seed(call[c].run)])
  /\ UNCHANGED <<attempts, gates, output, spent, process, up, turn, world>>

\* Mutant: the approval is marked, the run is not.
Lapse_silent(c) ==
  /\ Holds(c, "lapse")
  /\ Returns(c)
  /\ UNCHANGED <<tables, up, active, world>>

Lapse(c) ==
  /\ Holds(c, "lapse")
  /\ state' = [state EXCEPT ![call[c].run] = "CANCELLED"]
  /\ Returns(c)
  /\ UNCHANGED <<attempts, gates, output, spent, process, up, active, world>>

(***************************************************************************)
(* The loop over the steps, at the head of one.                            *)
(***************************************************************************)
\* Mutant: the loop's step is counted twice.
Advance_twice(c) ==
  /\ At(c, [call[c] EXCEPT !.pc = "loop", !.step = @ + 2, !.try = 0])
  /\ UNCHANGED <<tables, up, active, turn, world>>

Advance(c) ==
  /\ At(c, [call[c] EXCEPT !.pc = "loop", !.step = @ + 1, !.try = 0])
  /\ UNCHANGED <<tables, up, active, turn, world>>

AllDone(c) ==
  /\ Holds(c, "loop") /\ call[c].step > Length
  /\ Ends(c, "SUCCEEDED")

SeeAbort(c) ==
  /\ Holds(c, "loop") /\ call[c].step <= Length /\ call[c].aborted
  /\ Ends(c, "CANCELLED")

\* Mutant: a resumed run starts over.
Skips_none(c) == FALSE

Skips(c) == call[c].step \in call[c].done

Skip(c) ==
  /\ Holds(c, "loop") /\ call[c].step <= Length /\ ~call[c].aborted /\ Skips(c)
  /\ Advance(c)

\* What the gates of the step say.  The wait comes first.
WaitOf(c) == IF call[c].step \in Waits THEN wait[call[c].run][call[c].step] ELSE "RECEIVED"
ApprovalOf(c) == IF call[c].step \in Gated THEN approval[call[c].run][call[c].step] ELSE "APPROVED"

AtGate(c) == Holds(c, "loop") /\ call[c].step <= Length /\ ~call[c].aborted /\ ~Skips(c)
PastWait(c) == AtGate(c) /\ WaitOf(c) = "RECEIVED"

RequestWait(c) ==
  /\ AtGate(c) /\ WaitOf(c) = "NONE"
  /\ wait' = [wait EXCEPT ![call[c].run][call[c].step] = "PENDING"]
  /\ UNCHANGED <<state, attempts, approval, output, spent, process, up, call, active, turn, world>>

RequestApproval(c) ==
  /\ PastWait(c) /\ ApprovalOf(c) = "NONE"
  /\ approval' = [approval EXCEPT ![call[c].run][call[c].step] = "PENDING"]
  /\ UNCHANGED <<state, attempts, wait, output, spent, process, up, call, active, turn, world>>

\* Mutant: the call waits at the gate for the answer.
Suspend_waits(c) ==
  /\ AtGate(c) /\ "PENDING" \in {WaitOf(c), ApprovalOf(c)}
  /\ turn' = None
  /\ UNCHANGED <<tables, up, call, active, world>>

Suspend(c) ==
  \/ AtGate(c) /\ WaitOf(c) = "PENDING" /\ Ends(c, "AWAITING_EVENT")
  \/ PastWait(c) /\ ApprovalOf(c) = "PENDING" /\ Ends(c, "AWAITING_APPROVAL")

DropItem(c) ==
  /\ \/ AtGate(c) /\ WaitOf(c) = "EXPIRED" /\ call[c].step \in Continuing
     \/ PastWait(c) /\ ApprovalOf(c) \in {"REJECTED", "EXPIRED"} /\ call[c].step \in Lenient
  /\ Advance(c)

GateFails(c) ==
  \/ AtGate(c) /\ WaitOf(c) = "EXPIRED" /\ call[c].step \notin Continuing /\ Ends(c, "FAILED")
  \/ PastWait(c) /\ ApprovalOf(c) \in {"REJECTED", "EXPIRED"} /\ call[c].step \notin Lenient
       /\ Ends(c, "CANCELLED")

-----------------------------------------------------------------------------
(***************************************************************************)
(* One attempt.  Its row is written, then the body runs outside the turn.  *)
(* After a pause the abort is not looked at again, nor heard: the listener *)
(* is added to a signal that has already fired.                            *)
(***************************************************************************)
Pid(c) == <<call[c].run, call[c].step, Len(attempts[call[c].run][call[c].step])>>

StartAttempt(c) ==
  /\ \/ PastWait(c) /\ ApprovalOf(c) = "APPROVED"
     \/ Holds(c, "again")
  /\ attempts' = [attempts EXCEPT ![call[c].run][call[c].step] = Append(@, "RUNNING")]
  /\ At(c, [call[c] EXCEPT !.pc = "body", !.try = @ + 1, !.logged = FALSE,
              !.deaf = call[c].aborted])
  /\ turn' = None
  /\ UNCHANGED <<state, gates, output, spent, process, up, active, world>>

InBody(c) == turn = None /\ up \in {"up", "closing"} /\ call[c].pc = "body"

\* The guard lets a step begin, and go on, only below the ceiling.
Funded(c) == call[c].tokens < MaxTokens

Spawn(c) ==
  /\ InBody(c) /\ Funded(c) /\ ~call[c].logged /\ call[c].step \in Shell /\ Pid(c) \notin child
  /\ child' = child \cup {Pid(c)}
  /\ UNCHANGED <<tables, up, call, active, turn, defined, unrecorded, crashes>>

RecordProcess(c) ==
  /\ InBody(c) /\ Pid(c) \in child \ process
  /\ process' = process \cup {Pid(c)}
  /\ UNCHANGED <<state, attempts, gates, output, spent, up, call, active, turn, world>>

\* Usage is added to the run in the database first, then to the guard.
AddRunUsage(c) ==
  /\ InBody(c) /\ Funded(c) /\ call[c].step \in Spending
  /\ spent' = [spent EXCEPT ![call[c].run] = @ + 1]
  /\ At(c, [call[c] EXCEPT !.pc = "usage"]) /\ turn' = c
  /\ UNCHANGED <<state, attempts, gates, output, process, up, active, world>>

NoteUsage(c) ==
  /\ Holds(c, "usage")
  /\ At(c, [call[c] EXCEPT !.pc = "body", !.tokens = @ + 1]) /\ turn' = None
  /\ UNCHANGED <<tables, up, active, world>>

\* The child has closed when its output is yielded; a body that hears the
\* abort before that throws instead.
EmitOutput(c) ==
  /\ InBody(c) /\ Funded(c) /\ ~call[c].logged
  /\ call[c].step \in Shell => Pid(c) \in process /\ (call[c].aborted => call[c].deaf)
  /\ output' = [output EXCEPT ![call[c].run] = @ \cup {call[c].step}]
  /\ child' = child \ {Pid(c)}
  /\ At(c, [call[c] EXCEPT !.logged = TRUE])
  /\ UNCHANGED <<state, attempts, gates, spent, process, up, active, turn, defined, unrecorded, crashes>>

\* finishAttempt, and the finally that forgets the child.
FinishAttempt(c, verdict) ==
  /\ attempts' = [attempts EXCEPT ![call[c].run][call[c].step] = [@ EXCEPT ![Len(@)] = verdict]]
  /\ child' = child \ {Pid(c)} /\ process' = process \ {Pid(c)}
  /\ turn' = c
  /\ UNCHANGED <<state, gates, output, spent, up, active, defined, unrecorded, crashes>>

BodySucceeds(c) ==
  /\ InBody(c) /\ Funded(c) /\ call[c].logged
  /\ FinishAttempt(c, "SUCCEEDED")
  /\ At(c, [call[c] EXCEPT !.pc = "loop", !.step = @ + 1, !.try = 0])

\* An error, a timeout, the abort, or the guard: its verdict is not retried.
BodyFails(c) ==
  /\ InBody(c)
  /\ Pid(c) \notin child \ process
  /\ FinishAttempt(c, IF call[c].aborted THEN "CANCELLED" ELSE "FAILED")
  /\ At(c, [call[c] EXCEPT !.pc =
       IF call[c].aborted THEN "cancelled"
       ELSE IF Funded(c) /\ call[c].try < Attempts[call[c].step] THEN "retry" ELSE "failed"])

Cancelled(c) == Holds(c, "cancelled") /\ Ends(c, "CANCELLED")

StepFails(c) ==
  /\ Holds(c, "failed")
  /\ IF call[c].step \in Continuing THEN Advance(c) ELSE Ends(c, "FAILED")

AwaitRetry(c) ==
  /\ Holds(c, "retry")
  /\ state' = [state EXCEPT ![call[c].run] = "AWAITING_RETRY"]
  /\ At(c, [call[c] EXCEPT !.pc = "backoff"]) /\ turn' = None
  /\ UNCHANGED <<attempts, gates, output, spent, process, up, active, world>>

\* Mutant: shutting down drops the timer of the pause.
Retry_unlessClosing(c) ==
  /\ turn = None /\ up = "up" /\ call[c].pc = "backoff"
  /\ state' = [state EXCEPT ![call[c].run] = "RUNNING"]
  /\ At(c, [call[c] EXCEPT !.pc = "again"]) /\ turn' = c
  /\ UNCHANGED <<attempts, gates, output, spent, process, up, active, world>>

\* The pause has passed, or the abort has cut it short.
Retry(c) ==
  /\ turn = None /\ up \in {"up", "closing"} /\ call[c].pc = "backoff"
  /\ state' = [state EXCEPT ![call[c].run] = "RUNNING"]
  /\ At(c, [call[c] EXCEPT !.pc = "again"]) /\ turn' = c
  /\ UNCHANGED <<attempts, gates, output, spent, process, up, active, world>>

-----------------------------------------------------------------------------
(***************************************************************************)
(* The process.                                                            *)
(***************************************************************************)
\* Every controller fires and is forgotten; the calls unwind while they can.
Shutdown ==
  /\ turn = None /\ up = "up" /\ crashes < MaxCrashes
  /\ up' = "closing"
  /\ call' = [c \in Call |-> [call[c] EXCEPT !.aborted = @ \/ \E r \in Run : active[r] = c]]
  /\ active' = [r \in Run |-> None]
  /\ UNCHANGED <<tables, turn, world>>

Crash ==
  /\ up # "down" /\ crashes < MaxCrashes
  /\ up' = "down" /\ turn' = None /\ crashes' = crashes + 1
  /\ call' = [c \in Call |-> Idle] /\ active' = [r \in Run |-> None]
  /\ unrecorded' = unrecorded \cup (child \ process)
  /\ UNCHANGED <<tables, defined, child>>

UnfinishedRuns == {r \in Run : state[r] \in {"RUNNING", "QUEUED"}}

\* Mutant: the records of children are dropped, the children live on.
Reaped_forget == {}

Reaped == process

RecoverInterrupted ==
  /\ up = "down"
  /\ up' = "starting"
  /\ child' = child \ Reaped /\ process' = {}
  /\ state' = [r \in Run |-> IF r \in UnfinishedRuns THEN "INTERRUPTED" ELSE state[r]]
  /\ UNCHANGED <<attempts, gates, output, spent, defined, call, active, turn, unrecorded, crashes>>

Started ==
  /\ up = "starting" /\ turn = None
  /\ up' = "up"
  /\ UNCHANGED <<tables, call, active, turn, world>>

-----------------------------------------------------------------------------
Request ==
  \E r \in Run :
    \/ CreateRun(r) \/ Resume(r) \/ Cancel(r)
    \/ \E s \in Step :
         \/ \E verdict \in {"APPROVED", "REJECTED"} : DecideApproval(r, s, verdict)
         \/ DeliverEvent(r, s) \/ ExpireApproval(r, s) \/ ExpireWait(r, s)

Proceed(c) ==
  \/ Refuse(c) \/ Orphaned(c) \/ Enter(c) \/ Lapse(c)
  \/ AllDone(c) \/ SeeAbort(c) \/ Skip(c)
  \/ RequestWait(c) \/ RequestApproval(c) \/ Suspend(c) \/ DropItem(c) \/ GateFails(c)
  \/ StartAttempt(c) \/ NoteUsage(c) \/ Cancelled(c) \/ StepFails(c) \/ AwaitRetry(c)

Body(c) ==
  \/ Spawn(c) \/ RecordProcess(c) \/ AddRunUsage(c) \/ EmitOutput(c)
  \/ BodySucceeds(c) \/ BodyFails(c)

Next ==
  \/ Request \/ DeleteWorkflow
  \/ \E c \in Call : Proceed(c) \/ Body(c) \/ Retry(c)
  \/ Shutdown \/ Crash \/ RecoverInterrupted \/ Started

Spec == Init /\ [][Next]_vars
=============================================================================
