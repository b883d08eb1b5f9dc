---------------------------- MODULE TaskJournal ----------------------------
(***************************************************************************)
(* What survives a runtime that stopped without being asked to             *)
(* (agent-journal, the scheduler's calls to it, agent-runtime's startup    *)
(* and the handshake that hands the recovered work to the host).           *)
(*                                                                         *)
(* One writer owns the file and serves one channel; the driver records     *)
(* without waiting, a worker waits for its Started to be synced before it  *)
(* calls the body.  The process may die at any step.  What is left of the  *)
(* file is everything that was synced, a prefix of the rest, and perhaps   *)
(* part of the line after it.  The next life replays the file, moves it    *)
(* aside, opens a fresh one and tells the host at the handshake.           *)
(*                                                                         *)
(* The scheduler is here with as much of its state as the journal depends  *)
(* on: Scheduler.tla is the whole of it.                                   *)
(***************************************************************************)
EXTENDS Integers, Sequences

CONSTANTS
  Task,         \* the tasks of all lives; an id is never used twice
  NoTask,       \* the task of a line that is about none
  MaxAttempts,  \* attempts of a task
  MaxMishaps,   \* bound: crashes, failed writes and rotations, together
  Faults,       \* what may fail besides the process: "write", "rotate", "open"
  Tears         \* what a line cut short can leave behind

ASSUME JournalAssumption ==
  /\ NoTask \notin Task
  /\ MaxAttempts \in Nat /\ MaxMishaps \in Nat
  /\ Faults \subseteq {"write", "rotate", "open"}
  /\ Tears \subseteq {"Fragment", "SplitChar"}

VARIABLES
  \* The process: "down", "up", "closing" (the driver settles what is queued)
  \* or "closed" (the driver is gone, its workers are not yet).
  life,
  greeted,      \* the handshake has been answered in this life
  logging,      \* this life's journal is a file, not Journal::disabled
  state,        \* what the scheduler knows of each task
  attempt,      \* attempts spawned of each task
  inbox,        \* the writer's channel
  disk, synced, \* the lines of the journal file, and how many are durable
  plan,         \* what replay found when this life began
  mishaps,      \* counts up to MaxMishaps
  \* History: tasks whose body was ever called; tasks the journal knowingly
  \* or unknowingly has no readable record of; tasks the host was told of;
  \* whether an old journal was left in place.
  begun, unlogged, told, keptOld

fileVars == <<disk, synced>>
history == <<begun, unlogged, told, keptOld>>
vars == <<life, greeted, logging, state, attempt, inbox, fileVars, plan, mishaps, history>>

Event == {"Submitted", "Started", "Settled", "ShutDown"}
Line(e, t) == [event |-> e, task |-> t]
Torn(k) == [event |-> k, task |-> NoTask]

Alive == life # "down"

Mishap == mishaps < MaxMishaps /\ mishaps' = mishaps + 1

NoPlan == [resumable |-> {}, interrupted |-> {}]

-----------------------------------------------------------------------------
(***************************************************************************)
(* Replay.  A line that is cut short has no newline: what is appended      *)
(* after it becomes part of the same unreadable line.                      *)
(***************************************************************************)
Whole(d) == {i \in DOMAIN d : d[i].event \in Event /\ (i = 1 \/ d[i - 1].event \in Event)}

\* read_to_string refuses a file with half a character in it.
Readable(d) == \A i \in DOMAIN d : d[i].event # "SplitChar"

About(d, t, i) == {j \in Whole(d) : j > i /\ d[j].task = t}

\* Submitted, and no word of it since.
Resumable(d) == {t \in Task : \E i \in Whole(d) : d[i] = Line("Submitted", t) /\ About(d, t, i) = {}}

\* Started since it was submitted, and nothing else.
Interrupted(d) ==
  {t \in Task : \E i \in Whole(d) :
     /\ d[i] = Line("Submitted", t) /\ About(d, t, i) # {}
     /\ \A j \in About(d, t, i) : d[j].event = "Started"}

Replay(d) ==
  IF Readable(d) THEN [resumable |-> Resumable(d), interrupted |-> Interrupted(d)] ELSE NoPlan

-----------------------------------------------------------------------------
Init ==
  /\ life = "up" /\ greeted = FALSE /\ logging = TRUE
  /\ state = [t \in Task |-> "Absent"]
  /\ attempt = [t \in Task |-> 0]
  /\ inbox = <<>> /\ disk = <<>> /\ synced = 0
  /\ plan = NoPlan /\ mishaps = 0
  /\ begun = {} /\ unlogged = {} /\ told = {} /\ keptOld = FALSE

Send(e, t) == inbox' = Append(inbox, Line(e, t))

-----------------------------------------------------------------------------
(***************************************************************************)
(* The driver and its workers.                                             *)
(***************************************************************************)
driverFrame == <<life, greeted, logging, fileVars, plan, mishaps, history>>

Serving == life = "up" /\ greeted

Submit(t) ==
  /\ Serving /\ state[t] = "Absent"
  /\ state' = [state EXCEPT ![t] = "Queued"]
  /\ Send("Submitted", t)
  /\ UNCHANGED <<attempt, driverFrame>>

\* spawn: the worker's own thread will send the record.
Spawn(t) ==
  /\ Serving /\ state[t] = "Queued" /\ attempt[t] < MaxAttempts
  /\ state' = [state EXCEPT ![t] = "Spawned"]
  /\ attempt' = [attempt EXCEPT ![t] = @ + 1]
  /\ UNCHANGED <<inbox, driverFrame>>

LogStart(t) ==
  /\ Alive /\ state[t] = "Spawned"
  /\ state' = [state EXCEPT ![t] = "Logging"]
  /\ Send("Started", t)
  /\ UNCHANGED <<attempt, driverFrame>>

\* Mutant: the body does not wait for the record.
Begin_early(t) ==
  /\ Alive /\ state[t] \in {"Logging", "Logged"}
  /\ state' = [state EXCEPT ![t] = "Running"]
  /\ begun' = begun \cup {t}
  /\ UNCHANGED <<life, greeted, logging, attempt, inbox, fileVars, plan, mishaps, unlogged, told,
                 keptOld>>

\* The acknowledgement has come, with whatever result.
Begin(t) ==
  /\ Alive /\ state[t] = "Logged"
  /\ state' = [state EXCEPT ![t] = "Running"]
  /\ begun' = begun \cup {t}
  /\ UNCHANGED <<life, greeted, logging, attempt, inbox, fileVars, plan, mishaps, unlogged, told,
                 keptOld>>

\* The attempt failed and will be retried: no record.  "Queued" is all that is
\* neither running nor settled.
Retry(t) ==
  /\ Serving /\ state[t] = "Running" /\ attempt[t] < MaxAttempts
  /\ state' = [state EXCEPT ![t] = "Queued"]
  /\ UNCHANGED <<attempt, inbox, driverFrame>>

\* finish, from a report or a cancellation of what is not running; also the
\* draining of the queue at shutdown.  (Not here: a second slot of a task that
\* was paused during a backoff, which Scheduler has.)
Settle(t) ==
  /\ \/ Serving /\ state[t] \in {"Running", "Queued"}
     \/ life = "closing" /\ state[t] = "Queued"
  /\ state' = [state EXCEPT ![t] = "Settled"]
  /\ Send("Settled", t)
  /\ UNCHANGED <<attempt, driverFrame>>

Shutdown ==
  /\ life = "up" /\ life' = "closing"
  /\ UNCHANGED <<greeted, logging, state, attempt, inbox, fileVars, plan, mishaps, history>>

\* Durable, and the driver's last.  Workers may still be on their way, and
\* what waits for a dependency or a backoff was not settled.
Close ==
  /\ life = "closing" /\ life' = "closed"
  /\ Send("ShutDown", NoTask)
  /\ UNCHANGED <<greeted, logging, state, attempt, fileVars, plan, mishaps, history>>

-----------------------------------------------------------------------------
(***************************************************************************)
(* The writer.  A Started is acknowledged; so is ShutDown, to the driver,  *)
(* which does nothing after it.                                            *)
(***************************************************************************)
IsDurable(line) == line.event \in {"Started", "ShutDown"}

Acknowledge(line) ==
  state' = IF line.event = "Started" THEN [state EXCEPT ![line.task] = "Logged"] ELSE state

writerFrame == <<life, greeted, logging, attempt, plan, begun, told, keptOld>>

\* Mutant: a Started is acknowledged once it is in the file, synced or not.
Write_unsynced ==
  /\ Alive /\ logging /\ inbox # <<>>
  /\ inbox' = Tail(inbox)
  /\ disk' = Append(disk, Head(inbox))
  /\ Acknowledge(Head(inbox))
  /\ UNCHANGED <<synced, unlogged, mishaps, writerFrame>>

Write ==
  /\ Alive /\ logging /\ inbox # <<>>
  /\ inbox' = Tail(inbox)
  /\ disk' = Append(disk, Head(inbox))
  /\ synced' = IF IsDurable(Head(inbox)) THEN Len(disk') ELSE synced
  /\ unlogged' = IF Len(disk') \in Whole(disk') THEN unlogged
                 ELSE unlogged \cup ({Head(inbox).task} \cap Task)
  /\ Acknowledge(Head(inbox))
  /\ UNCHANGED <<mishaps, writerFrame>>

\* The write fails, with part of the line or none of it in the file; the
\* error is what a waiting worker is told, and ignores.
WriteFails ==
  /\ "write" \in Faults /\ Mishap
  /\ Alive /\ logging /\ inbox # <<>>
  /\ inbox' = Tail(inbox)
  /\ disk' \in {disk} \cup {Append(disk, Torn(k)) : k \in Tears}
  /\ unlogged' = unlogged \cup ({Head(inbox).task} \cap Task)
  /\ Acknowledge(Head(inbox))
  /\ UNCHANGED <<synced, writerFrame>>

\* Journal::disabled acknowledges and keeps nothing.
Discard ==
  /\ Alive /\ ~logging /\ inbox # <<>>
  /\ inbox' = Tail(inbox)
  /\ unlogged' = unlogged \cup ({Head(inbox).task} \cap Task)
  /\ Acknowledge(Head(inbox))
  /\ UNCHANGED <<fileVars, mishaps, writerFrame>>

-----------------------------------------------------------------------------
(***************************************************************************)
(* Death and the next life.                                                *)
(***************************************************************************)
\* What the file may hold if the process, or the machine, stops here.
Kept == {SubSeq(disk, 1, n) : n \in synced .. Len(disk)}
Images ==
  Kept \cup {Append(d, Torn(k)) : d \in (IF inbox = <<>> THEN Kept \ {disk} ELSE Kept), k \in Tears}

Crash ==
  /\ Alive /\ Mishap
  /\ life' = "down"
  /\ \E d \in (IF logging THEN Images ELSE {disk}) : disk' = d /\ synced' = Len(d)
  /\ inbox' = <<>>
  /\ plan' = NoPlan
  /\ state' = [t \in Task |-> IF state[t] \in {"Absent", "Settled"} THEN state[t] ELSE "Gone"]
  /\ UNCHANGED <<greeted, logging, attempt, history>>

\* Mutant: the new journal inherits the length of the old one.
Rotate_keepsLength ==
  \/ disk' = <<>> /\ UNCHANGED <<synced, keptOld, mishaps>>
  \/ "rotate" \in Faults /\ Mishap /\ UNCHANGED fileVars /\ keptOld' = TRUE

\* Mutant: the old journal is never moved aside.
Rotate_never == UNCHANGED <<fileVars, keptOld, mishaps>>

Rotate ==
  \/ disk' = <<>> /\ synced' = 0 /\ UNCHANGED <<keptOld, mishaps>>
  \/ "rotate" \in Faults /\ Mishap /\ UNCHANGED fileVars /\ keptOld' = TRUE

\* with_state_dir: replay, rotate, open.
Restart ==
  /\ life = "down" /\ life' = "up"
  /\ greeted' = FALSE
  /\ plan' = Replay(disk)
  /\ Rotate
  /\ logging' \in (IF "open" \in Faults THEN BOOLEAN ELSE {TRUE})
  /\ UNCHANGED <<state, attempt, inbox, begun, unlogged, told>>

\* runtime.initialize
Handshake ==
  /\ life = "up" /\ ~greeted /\ greeted' = TRUE
  /\ told' = told \cup plan.interrupted
  /\ UNCHANGED <<life, logging, state, attempt, inbox, fileVars, plan, mishaps, begun, unlogged,
                 keptOld>>

-----------------------------------------------------------------------------
Driver == \/ \E t \in Task : Submit(t) \/ Spawn(t) \/ Retry(t) \/ Settle(t)
          \/ Shutdown \/ Close

Worker == \E t \in Task : LogStart(t) \/ Begin(t)

Writer == Write \/ WriteFails \/ Discard

Next == Driver \/ Worker \/ Writer \/ Crash \/ Restart \/ Handshake

Spec == Init /\ [][Next]_vars

-----------------------------------------------------------------------------
(* Type invariant. *)
TypeOK ==
  /\ life \in {"down", "up", "closing", "closed"}
  /\ greeted \in BOOLEAN /\ logging \in BOOLEAN /\ keptOld \in BOOLEAN
  /\ state \in [Task -> {"Absent", "Queued", "Spawned", "Logging", "Logged", "Running", "Settled",
                         "Gone"}]
  /\ attempt \in [Task -> 0 .. MaxAttempts]
  /\ inbox \in Seq([event : Event, task : Task \cup {NoTask}])
  /\ disk \in Seq([event : Event \cup {"Fragment", "SplitChar"}, task : Task \cup {NoTask}])
  /\ synced \in 0 .. Len(disk)
  /\ plan \in [resumable : SUBSET Task, interrupted : SUBSET Task]
  /\ mishaps \in 0 .. MaxMishaps
  /\ begun \subseteq Task /\ unlogged \subseteq Task /\ told \subseteq Task

(* Work that may already have had side effects is never offered for a      *)
(* second run (agent-journal, "the rule that shapes everything here"), at  *)
(* whatever step the runtime stops and however its last lines were cut.    *)
(* The exception is the one the code makes: a start it could not record.   *)
BegunNeverResumable ==
  /\ \A t \in begun \ unlogged : t \notin plan.resumable
  /\ \A d \in Images : \A t \in begun \ unlogged : t \notin Replay(d).resumable

(* Unsettled work that began is found by the next replay, if this life has *)
(* a journal: a body runs only once its record would survive.              *)
BegunIsFound ==
  \A t \in begun \ unlogged :
    state[t] \notin {"Settled", "Gone"} => \A d \in Images : t \in Replay(d).interrupted

(* Without a failed rotation the host hears of interrupted work once.      *)
ToldOnce ==
  [][~greeted /\ greeted' => keptOld \/ told \cap plan.interrupted = {}]_vars

(* Work that began and was cut off stays known: the host was told, or will *)
(* be at the handshake, or the journal still holds it.                     *)
NothingForgotten ==
  \A t \in begun \ unlogged :
    state[t] = "Gone" => t \in told \cup plan.interrupted \cup Replay(disk).interrupted
============================================================================
