------------------------ MODULE AutomationProperties ------------------------
(***************************************************************************)
(* What must hold of the automation's runs, and under which fairness.      *)
(***************************************************************************)
EXTENDS AutomationRuns

TypeOK ==
  /\ state \in [Run -> RunState]
  /\ attempts \in [Run -> [Step -> Seq({"RUNNING", "SUCCEEDED", "FAILED", "CANCELLED"})]]
  /\ approval \in [Run -> [Step -> {"NONE", "PENDING", "APPROVED", "REJECTED", "EXPIRED"}]]
  /\ wait \in [Run -> [Step -> {"NONE", "PENDING", "RECEIVED", "EXPIRED"}]]
  /\ output \in [Run -> SUBSET Step] /\ spent \in [Run -> Nat]
  /\ process \subseteq Run \X Step \X Nat /\ child \subseteq Run \X Step \X Nat
  /\ unrecorded \subseteq Run \X Step \X Nat
  /\ defined \in BOOLEAN /\ up \in {"up", "closing", "down", "starting"}
  /\ turn \in Call \cup {None} /\ crashes \in Nat
  /\ active \in [Run -> Call \cup {None}]
  /\ call \in [Call -> [run : Run \cup {None}, step : 0 .. Length + 1, try : Nat,
                        pc : {"idle", "entry", "lapse", "loop", "body", "usage", "failed",
                              "cancelled", "retry", "backoff", "again"},
                        done : SUBSET Step, tokens : Nat,
                        aborted : BOOLEAN, deaf : BOOLEAN, logged : BOOLEAN]]

\* One execution of a run at a time, although a decision, an event, a deadline
\* and a resume each start one without asking whether there is one: while a
\* gate is open for an answer, nobody is executing its run.
OneExecution ==
  /\ \A c, d \in Call : Busy(c) /\ call[c].run = call[d].run => c = d
  /\ turn = None => \A r \in Run : Executing(r) =>
       \A s \in Step : approval[r][s] # "PENDING" /\ wait[r][s] # "PENDING"

\* Every child process alive belongs to the attempt that is executing, or its
\* record was prevented by a crash: no step is resumed beside an orphan that
\* could have been reaped, and none outlives its run.
ChildrenAreOwned ==
  up # "down" =>
    \A p \in child \ unrecorded : \E c \in Call : call[c].pc \in {"body", "usage"} /\ Pid(c) = p

\* The token ceiling is passed by no report but the one that meets it,
\* however often the run is resumed.
BudgetHolds == \A r \in Run : spent[r] <= MaxTokens

\* A run that is not over is executing, waits for an answer that can still
\* come, or can be seen to need a resume.
Attended(r) ==
  \/ state[r] \in Terminal \cup {"NONE", "INTERRUPTED"}
  \/ Executing(r)
  \/ state[r] = "AWAITING_APPROVAL" /\ \E s \in Step : approval[r][s] = "PENDING"
  \/ state[r] = "AWAITING_EVENT" /\ \E s \in Step : wait[r][s] = "PENDING"

\* As long as the process lives, no run is forgotten.
NobodyForgotten == crashes = 0 => \A r \in Run : Attended(r)

\* What start-up recovery is documented to establish after a crash (repo.mjs
\* 116, executionManager.mjs 560): runs left mid-flight are marked, so that
\* they can be resumed.
RecoveryFindsAll == up = "up" /\ turn = None => \A r \in Run : Attended(r)

\* A cancelled call starts no attempt any more.
CancelStops ==
  [][\A c \in Call : call[c].aborted => attempts'[call[c].run] = attempts[call[c].run]
       \/ \A s \in Step : Len(attempts'[call[c].run][s]) = Len(attempts[call[c].run][s])]_vars

-----------------------------------------------------------------------------
\* The manager implements DurableSteps: what the tables say is all it needs.
Phase(r) ==
  CASE state[r] = "NONE" -> "absent"
    [] state[r] \in Terminal -> "over"
    [] OTHER -> "live"

Opened(r) ==
  {<<s, "approval">> : s \in {x \in Gated : approval[r][x] = "APPROVED"}} \cup
  {<<s, "event">> : s \in {x \in Waits : wait[r][x] = "RECEIVED"}}

Gates == [s \in Step |-> (IF s \in Gated THEN {"approval"} ELSE {}) \cup
                         (IF s \in Waits THEN {"event"} ELSE {})]

Durable == INSTANCE DurableSteps WITH
  Optional <- Lenient,
  Needs <- Gates,
  phase <- [r \in Run |-> Phase(r)],
  opened <- [r \in Run |-> Opened(r)],
  tries <- [r \in Run |-> [s \in Step |-> Len(attempts[r][s])]],
  done <- [r \in Run |-> CompletedNodes(r)]

ImplementsDurableSteps == Durable!Spec

-----------------------------------------------------------------------------
\* Each call goes on, pauses pass, bodies end.
FairSpec ==
  /\ Spec /\ WF_vars(Started)
  /\ \A c \in Call : WF_vars(Proceed(c)) /\ WF_vars(Retry(c))
                     /\ WF_vars(BodySucceeds(c) \/ BodyFails(c))
                     /\ WF_vars(RecordProcess(c))

\* A run that executes ends or comes to a gate, unless the process dies.
RunsComeToRest ==
  \A r \in Run : Executing(r) ~> ~Executing(r)
=============================================================================
