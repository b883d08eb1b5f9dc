--------------------------- MODULE RuntimeBridge ---------------------------
(***************************************************************************)
(* The bridge of the desktop app to its Rust sidecar: when a process is    *)
(* started, given up, counted as a failure or stopped (core.mjs), the      *)
(* calls that go to it or fall back to Node (calls.mjs), and the list of   *)
(* background services it owns (native.mjs).                               *)
(*                                                                         *)
(* One JavaScript thread.  An event, a timer or a call from outside is an  *)
(* action that starts only when the loop is Idle.  The lines of one chunk  *)
(* of stdout are handled in a row, and only then do the continuations run  *)
(* that they woke, in order: `chunk` and `woken` are that interval, the    *)
(* one place where two steps of the bridge are not one.  Everything else   *)
(* a rejection sets off happens before the next event.                     *)
(*                                                                         *)
(* The sidecars and their pipes are the environment: they answer late,     *)
(* never, or die.  Left out: the feature flag and the path of the binary,  *)
(* cancellation, requests from the runtime, and the refs of handles.        *)
(***************************************************************************)
EXTENDS Integers, Sequences, FiniteSets, SequencesExt

CONSTANTS
  Sidecar,          \* the processes that may be started, each once
  Command, Service, \* calls of process.run and of process.start_background
  Deadline,         \* calls given a time to answer
  Fault,            \* what may go wrong outside: see Misfortune
  Boot, None,       \* warmUp, the caller that wants no answer; and nobody
  MaxFailures,      \* MAX_SPAWN_FAILURES
  MaxFaults, MaxStops \* bounds: faults of the environment, calls of shutdown

Call == Command \cup Service
Request == Call \cup {"init", "ping", "stop"}

\* A spawn that throws or fails late, a handshake refused, a process that
\* crashes, exits, or stays and does nothing.
Misfortune == {"throws", "absent", "refuses", "bad", "zero", "wedged"}

ASSUME BridgeAssumption ==
  /\ Fault \subseteq Misfortune
  /\ Service \subseteq Deadline /\ Deadline \subseteq Call
  /\ Command \cap Service = {} /\ None \notin Sidecar
  /\ {Boot, None} \cap Call = {} /\ Boot # None
  /\ Call \cap {"init", "ping", "stop"} = {}
  /\ MaxFailures \in Nat \ {0} /\ MaxFaults \in Nat /\ MaxStops \in Nat

VARIABLES
  current,                 \* `state`: the sidecar of the bridge, or None
  phase, closing,          \* of each sidecar: its life in the bridge, and `closing`
  starter,                 \* who waits in ensureStarted for the handshake, or None
  pending,                 \* of each: the requests that wait for an answer
  record,                  \* spawnFailures, nextAttemptAt (as: still in the future), disabled
  call,                    \* where each caller is
  listed, early,           \* bgProcs (the remote ones) and pendingExits
  chunk, woken,            \* the lines being handled, and the continuations due
  process, doomed,         \* each process, and whether it was sent SIGTERM
  unread, output,          \* of each: requests not answered, lines not read
  job, home, service,      \* what the runtime did with each call, which one, the services
  faults, stops,           \* counters of the bounds
  notices, tries           \* history: exits reported, starts since the last success

sidecarVars == <<current, phase, starter, closing, pending, record>>
listVars == <<listed, early, notices>>
loopVars == <<chunk, woken>>
processVars == <<process, doomed, unread, output, service>>
jobVars == <<job, home>>
boundVars == <<faults, stops>>
vars == <<sidecarVars, call, listVars, loopVars, processVars, jobVars, boundVars, tries>>

Clear == [failures |-> 0, resting |-> FALSE, disabled |-> FALSE]

Init ==
  /\ current = None /\ phase = [s \in Sidecar |-> "unborn"]
  /\ starter = None /\ closing = [s \in Sidecar |-> FALSE]
  /\ pending = [s \in Sidecar |-> {}] /\ record = Clear
  /\ call = [c \in Call |-> "new"] /\ listed = {} /\ early = {}
  /\ chunk = <<>> /\ woken = <<>>
  /\ process = [s \in Sidecar |-> "none"] /\ doomed = [s \in Sidecar |-> FALSE]
  /\ unread = [s \in Sidecar |-> {}] /\ output = [s \in Sidecar |-> <<>>]
  /\ job = [c \in Call |-> "none"] /\ home = [c \in Call |-> None]
  /\ service = [v \in Service |-> "none"]
  /\ faults = 0 /\ stops = 0 /\ notices = [v \in Service |-> 0]
  /\ tries = 0

Idle == chunk = <<>> /\ woken = <<>>
Running(s) == process[s] \in {"live", "leaving"}
Ended(s) == process[s] \in {"zero", "bad"}
IsReady == current # None /\ phase[current] = "ready"

(***************************************************************************)
(* Failures.  A handshake that fails, however it does, is one; so is a     *)
(* missed heartbeat, and an exit that nobody asked for.                    *)
(***************************************************************************)
Noted_unlatched(r, n) ==   \* mutant: the limit is never checked
  IF n = 0 THEN r ELSE [r EXCEPT !.failures = @ + n, !.resting = TRUE]

Noted(r, n) ==
  IF n = 0 THEN r
  ELSE [failures |-> r.failures + n, resting |-> TRUE,
        disabled |-> r.disabled \/ r.failures + n >= MaxFailures]

\* What a caller gets whose request to the sidecar was rejected.
Rejected_null(c) == "node"   \* mutant: any failure falls back
Rejected(c) == IF c \in Command THEN "failed" ELSE "node"

\* runtime.disconnected: every service of the sidecar is reported and forgotten.
Disconnected_unheard(s) == UNCHANGED listVars   \* mutant: the list is not told

Disconnected(s) ==
  IF phase[s] = "ready"
    THEN /\ listed' = {} /\ early' = {}
         /\ notices' = [v \in Service |-> notices[v] + (IF v \in listed THEN 1 ELSE 0)]
    ELSE UNCHANGED listVars

Kill_not(s) == UNCHANGED doomed   \* mutant: the process is let go, not killed
Kill(s) == doomed' = [doomed EXCEPT ![s] = TRUE]

RejectAll_start(s) ==   \* mutant: only the caller of a start hears of it
  call' = [c \in Call |-> IF starter = c THEN "node" ELSE call[c]]
RejectAll(s) ==
  call' = [c \in Call |-> IF starter = c THEN "node"
                          ELSE IF c \in pending[s] THEN Rejected(c) ELSE call[c]]

\* The lines of a pipe that tell of exits, in their order.
Exits(lines) ==
  LET at == {i \in DOMAIN lines : lines[i][1] = "exited"}
      nth(k) == CHOOSE i \in at : Cardinality({j \in at : j <= i}) = k
  IN  [k \in 1 .. Cardinality(at) |-> lines[nth(k)]]

\* teardown, with n failures besides that of a handshake it interrupts, and
\* what the rejected callers do before the next event.  The answers it had sent
\* are skipped by onData, as nobody waits for them: they are dropped here.
Teardown(s, r, n) ==
  /\ current' = None
  /\ phase' = [phase EXCEPT ![s] = "gone"]
  /\ starter' = None /\ pending' = [pending EXCEPT ![s] = {}]
  /\ record' = Noted(r, n + IF phase[s] = "starting" THEN 1 ELSE 0)
  /\ Kill(s) /\ RejectAll(s)
  /\ output' = [output EXCEPT ![s] = Exits(@)]
  /\ Disconnected(s)

Untorn == UNCHANGED <<current, phase, starter, doomed, call, output, listVars>>

(***************************************************************************)
(* Calls.  A caller that gets null runs its command on Node.               *)
(***************************************************************************)
Decline(c) == call' = [call EXCEPT ![c] = "node"]

Declines == record.disabled \/ (current # None /\ ~IsReady) \/ (current = None /\ record.resting)

\* request(): the write may throw only when the pipe is gone, and may not even then.
Send(s, m) ==
  /\ pending' = [pending EXCEPT ![s] = @ \cup {m}]
  /\ unread' = [unread EXCEPT ![s] = IF Running(s) THEN @ \cup {m} ELSE @]

Dispatch(c, s) ==
  \/ /\ Send(s, c)
     /\ call' = [call EXCEPT ![c] = "waiting"] /\ home' = [home EXCEPT ![c] = s]
  \/ /\ Ended(s) /\ Decline(c)
     /\ UNCHANGED <<pending, unread, home>>

AskDeclined(c) ==
  /\ Idle /\ call[c] = "new" /\ Declines
  /\ Decline(c)
  /\ UNCHANGED <<sidecarVars, listVars, loopVars, processVars, jobVars, boundVars, tries>>

Ask(c) ==
  /\ Idle /\ call[c] = "new" /\ IsReady /\ ~record.disabled
  /\ Dispatch(c, current)
  /\ UNCHANGED <<current, phase, starter, closing, record, listVars, loopVars, process, doomed,
                 output, job, service, boundVars, tries>>

Strikes(f) == f \in Fault /\ faults < MaxFaults /\ faults' = faults + 1

MayStart_again == Idle /\ ~record.disabled /\ ~record.resting   \* mutant: one may be in flight
MayStart == Idle /\ current = None /\ ~record.disabled /\ ~record.resting

\* ensureStarted up to the handshake.  A spawn that fails late has no process.
Start(s, by, born) ==
  /\ MayStart /\ phase[s] = "unborn"
  /\ IF born = "absent" THEN Strikes(born) ELSE UNCHANGED faults
  /\ current' = s /\ phase' = [phase EXCEPT ![s] = "starting"]
  /\ starter' = by
  /\ process' = [process EXCEPT ![s] = born]
  /\ pending' = [pending EXCEPT ![s] = {"init"}]
  /\ unread' = [unread EXCEPT ![s] = {"init"}]
  /\ tries' = tries + 1
  /\ UNCHANGED <<closing, record, listVars, loopVars, doomed, output, service, jobVars, stops>>

AskStarts(c, s, born) ==
  /\ call[c] = "new" /\ call' = [call EXCEPT ![c] = "starting"]
  /\ Start(s, c, born)

WarmUp(s, born) == Start(s, Boot, born) /\ UNCHANGED call

\* spawn throws.
SpawnThrows(c) ==
  /\ MayStart /\ call[c] = "new" /\ Strikes("throws")
  /\ Decline(c)
  /\ record' = Noted(record, 1) /\ tries' = tries + 1
  /\ UNCHANGED <<current, phase, starter, closing, pending, listVars, loopVars, processVars,
                 jobVars, stops>>

RestOver ==
  /\ Idle /\ record.resting /\ ~record.disabled
  /\ record' = [record EXCEPT !.resting = FALSE]
  /\ UNCHANGED <<current, phase, starter, closing, pending, call, listVars, loopVars, processVars,
                 jobVars, boundVars, tries>>

(***************************************************************************)
(* stdout.  onData settles a call by scheduling its continuation.          *)
(***************************************************************************)
Read(s, n) ==
  /\ Idle /\ n \in 1 .. Len(output[s])
  /\ chunk' = SubSeq(output[s], 1, n)
  /\ output' = [output EXCEPT ![s] = SubSeq(@, n + 1, Len(@))]
  /\ UNCHANGED <<sidecarVars, call, listVars, woken, process, doomed, unread, service, jobVars,
                 boundVars, tries>>

HandleReply ==
  /\ chunk # <<>> /\ Head(chunk)[1] # "exited"
  /\ LET m == Head(chunk)[2]  s == Head(chunk)[3] IN
     IF m \in pending[s]
       THEN /\ pending' = [pending EXCEPT ![s] = @ \ {m}]
            /\ woken' = Append(woken, Head(chunk))
       ELSE UNCHANGED <<pending, woken>>
  /\ chunk' = Tail(chunk)
  /\ UNCHANGED <<current, phase, starter, closing, record, call, listVars, processVars,
                 jobVars, boundVars, tries>>

\* reportExit, or an exit that came before its service was listed.
Report_listed(v) ==   \* mutant: the service stays in the list
  listed' = listed /\ notices' = [notices EXCEPT ![v] = @ + 1]

Report(v) ==
  /\ listed' = listed \ {v}
  /\ notices' = [notices EXCEPT ![v] = @ + 1]

KeepEarly_drop(v) == UNCHANGED listVars   \* mutant: an exit of no listed service is dropped
KeepEarly(v) == early' = early \cup {v} /\ UNCHANGED <<listed, notices>>

HandleExited ==
  /\ chunk # <<>> /\ Head(chunk)[1] = "exited"
  /\ LET v == Head(chunk)[2] IN
     IF v \in listed THEN Report(v) /\ UNCHANGED early ELSE KeepEarly(v)
  /\ chunk' = Tail(chunk)
  /\ UNCHANGED <<sidecarVars, call, woken, processVars, jobVars, boundVars, tries>>

Due(kind, m) == chunk = <<>> /\ woken # <<>> /\ Head(woken)[1] = kind /\ Head(woken)[2] = m /\ woken' = Tail(woken)

\* The handshake succeeded: the start is over, and its caller goes on.
HandshakeDone ==
  /\ Due("ok", "init")
  /\ phase' = [phase EXCEPT ![current] = "ready"]
  /\ record' = Clear /\ tries' = 0
  /\ starter' = None
  /\ IF starter = Boot THEN UNCHANGED <<call, pending, unread, home>> ELSE Dispatch(starter, current)
  /\ UNCHANGED <<current, closing, listVars, chunk, process, doomed, output, service,
                 job, boundVars>>

HandshakeRefused ==
  /\ Due("error", "init")
  /\ Teardown(current, record, 0)
  /\ UNCHANGED <<closing, chunk, process, unread, service, jobVars,
                 boundVars, tries>>

CommandAnswered(c) ==
  /\ Due("ok", c) /\ call' = [call EXCEPT ![c] = "ok"]
  /\ UNCHANGED <<sidecarVars, listVars, chunk, processVars, jobVars, boundVars, tries>>

\* startBackground after the pid: list the service, unless its exit was faster.
ServiceListed(v) ==
  /\ Due("ok", v) /\ call' = [call EXCEPT ![v] = "ok"]
  /\ IF v \in early THEN /\ early' = early \ {v} /\ listed' = listed
                         /\ notices' = [notices EXCEPT ![v] = @ + 1]
                    ELSE listed' = listed \cup {v} /\ UNCHANGED <<early, notices>>
  /\ UNCHANGED <<sidecarVars, chunk, processVars, jobVars, boundVars, tries>>

ServiceRefused(v) ==
  /\ Due("error", v) /\ Decline(v)
  /\ UNCHANGED <<sidecarVars, listVars, chunk, processVars, jobVars, boundVars, tries>>

Pong ==
  /\ Due("ok", "ping")
  /\ UNCHANGED <<sidecarVars, call, listVars, chunk, processVars, jobVars, boundVars, tries>>

ShutdownAnswered ==
  /\ Due("ok", "stop")
  /\ Teardown(current, record, 0)
  /\ UNCHANGED <<closing, chunk, process, unread, service, jobVars,
                 boundVars, tries>>

(***************************************************************************)
(* Timers.                                                                 *)
(***************************************************************************)
CallTimeout(c, s) ==
  /\ Idle /\ c \in pending[s] \cap Deadline
  /\ pending' = [pending EXCEPT ![s] = @ \ {c}]
  /\ call' = [call EXCEPT ![c] = Rejected(c)]
  /\ UNCHANGED <<current, phase, starter, closing, record, listVars, loopVars, processVars, jobVars,
                 boundVars, tries>>

HandshakeTimeout_late(s) ==   \* mutant: the answer is given up, the start is not
  /\ Idle /\ "init" \in pending[s]
  /\ pending' = [pending EXCEPT ![s] = {}]
  /\ UNCHANGED <<current, phase, starter, closing, record, call, listVars, loopVars, processVars,
                 jobVars, boundVars, tries>>

HandshakeTimeout(s) ==
  /\ Idle /\ "init" \in pending[s]
  /\ Teardown(s, record, 0)
  /\ UNCHANGED <<closing, loopVars, process, unread, service, jobVars, boundVars,
                 tries>>

\* The heartbeat: only a runtime that is asked nothing else is asked this.
Ping(s) ==
  /\ Idle /\ current = s /\ phase[s] = "ready" /\ ~closing[s] /\ pending[s] = {}
  /\ Send(s, "ping")
  /\ UNCHANGED <<current, phase, starter, closing, record, call, listVars, loopVars, process, doomed,
                 output, service, jobVars, boundVars, tries>>

PingTimeout_again(s) ==   \* mutant: a missed heartbeat is asked again
  /\ Idle /\ "ping" \in pending[s]
  /\ pending' = [pending EXCEPT ![s] = @ \ {"ping"}]
  /\ UNCHANGED <<current, phase, starter, closing, record, call, listVars, loopVars, processVars,
                 jobVars, boundVars, tries>>

PingTimeout(s) ==
  /\ Idle /\ "ping" \in pending[s]
  /\ IF closing[s]
       THEN /\ pending' = [pending EXCEPT ![s] = @ \ {"ping"}]
            /\ Untorn /\ UNCHANGED record
       ELSE Teardown(s, record, 1)
  /\ UNCHANGED <<closing, loopVars, process, unread, service, jobVars, boundVars,
                 tries>>

(***************************************************************************)
(* The process is gone, or is to go.                                       *)
(***************************************************************************)
Exit(s) ==
  LET counted == IF process[s] = "bad" /\ ~closing[s] THEN 1 ELSE 0 IN
  /\ Idle /\ Ended(s)
  /\ process' = [process EXCEPT ![s] = "reaped"]
  /\ IF current = s
       THEN Teardown(s, record, counted)
       ELSE /\ record' = Noted(record, counted)
            /\ Untorn /\ UNCHANGED pending
  /\ UNCHANGED <<closing, loopVars, unread, service, jobVars, boundVars, tries>>

\* The "error" event of a child that could not be started.
SpawnFailed(s) ==
  /\ Idle /\ process[s] = "absent"
  /\ process' = [process EXCEPT ![s] = "reaped"]
  /\ IF current = s THEN Teardown(s, record, 0)
     ELSE Untorn /\ UNCHANGED <<pending, record>>
  /\ UNCHANGED <<closing, loopVars, unread, service, jobVars, boundVars, tries>>

Shutdown ==
  /\ Idle /\ stops < MaxStops /\ stops' = stops + 1 /\ tries' = 0
  /\ IF current = None
       THEN /\ record' = Clear
            /\ Untorn /\ UNCHANGED <<closing, pending, unread>>
     ELSE /\ closing' = [closing EXCEPT ![current] = TRUE]
          /\ IF IsReady
               THEN /\ record' = Clear /\ Send(current, "stop")
                    /\ Untorn
               ELSE Teardown(current, Clear, 0) /\ UNCHANGED unread
  /\ UNCHANGED <<loopVars, process, service, jobVars, faults>>

StopTimeout(s) ==
  /\ Idle /\ "stop" \in pending[s]
  /\ Teardown(s, record, 0)
  /\ UNCHANGED <<closing, loopVars, process, unread, service, jobVars, boundVars,
                 tries>>

(***************************************************************************)
(* The sidecars (external).  A call begins, and answers later; a service   *)
(* that began may end at any time, even before its pid was sent.  A step   *)
(* of theirs in the middle of a turn of the loop could as well be taken    *)
(* before that turn, so they wait for its end.  What a sidecar answers     *)
(* after its teardown would be skipped, so it is not sent.                 *)
(***************************************************************************)
Say(s, kind, m) == output' = [output EXCEPT ![s] = Append(@, <<kind, m, s>>)]
Quiet == Idle /\ UNCHANGED <<sidecarVars, call, listVars, loopVars, stops, tries, doomed>>

Answering(s) == Running(s) /\ ~doomed[s]

Answer(s, m, kind) ==
  /\ Answering(s) /\ m \in unread[s] \cap {"init", "ping"}
  /\ IF kind = "error" THEN m = "init" /\ Strikes("refuses") ELSE UNCHANGED faults
  /\ unread' = [unread EXCEPT ![s] = @ \ {m}] /\ Say(s, kind, m)
  /\ Quiet /\ UNCHANGED <<process, service, jobVars>>

Begin(s, c) ==
  /\ Running(s) /\ c \in unread[s] \cap Call /\ job[c] = "none"
  /\ job' = [job EXCEPT ![c] = "begun"]
  /\ service' = IF c \in Service THEN [service EXCEPT ![c] = "alive"] ELSE service
  /\ Quiet /\ UNCHANGED <<process, unread, output, home, faults>>

Finish(s, c) ==
  /\ Answering(s) /\ c \in unread[s] \cap Call /\ job[c] = "begun"
  /\ job' = [job EXCEPT ![c] = "done"]
  /\ unread' = [unread EXCEPT ![s] = @ \ {c}] /\ Say(s, "ok", c)
  /\ Quiet /\ UNCHANGED <<process, service, home, faults>>

Refuse(s, v) ==
  /\ Answering(s) /\ v \in unread[s] \cap Service /\ job[v] = "none"
  /\ unread' = [unread EXCEPT ![s] = @ \ {v}] /\ Say(s, "error", v)
  /\ Quiet /\ UNCHANGED <<process, service, jobVars, faults>>

ServiceEnds(v) ==
  /\ service[v] = "alive" /\ Running(home[v])
  /\ service' = [service EXCEPT ![v] = "ended"] /\ Say(home[v], "exited", v)
  /\ Quiet /\ UNCHANGED <<process, unread, jobVars, faults>>

AnswerStop(s) ==
  /\ process[s] = "live" /\ ~doomed[s] /\ "stop" \in unread[s]
  /\ process' = [process EXCEPT ![s] = "leaving"]
  /\ unread' = [unread EXCEPT ![s] = @ \ {"stop"}] /\ Say(s, "ok", "stop")
  /\ Quiet /\ UNCHANGED <<service, jobVars, faults>>

\* The process stops reading; what it had written stays readable.
Falls(s, how) ==
  /\ process' = [process EXCEPT ![s] = how]
  /\ unread' = [unread EXCEPT ![s] = {}]

Leave(s) ==
  /\ process[s] = "leaving" /\ Falls(s, "zero")
  /\ Quiet /\ UNCHANGED <<output, service, jobVars, faults>>

\* SIGTERM arrives.
Die(s) ==
  /\ doomed[s] /\ (Running(s) \/ process[s] = "wedged")
  /\ Falls(s, "bad")
  /\ Quiet /\ UNCHANGED <<output, service, jobVars, faults>>

\* A crash, an exit nobody asked for, or a process that stays and does nothing.
Fails(s, how) ==
  /\ Answering(s) /\ Strikes(how)
  /\ Falls(s, how)
  /\ Quiet /\ UNCHANGED <<output, service, jobVars>>

Loop ==
  \/ HandleReply \/ HandleExited \/ HandshakeDone \/ HandshakeRefused \/ Pong \/ ShutdownAnswered
  \/ \E c \in Command : CommandAnswered(c)
  \/ \E v \in Service : ServiceListed(v) \/ ServiceRefused(v)

Environment(s) ==
  \/ \E m \in {"init", "ping"} : \E kind \in {"ok", "error"} : Answer(s, m, kind)
  \/ \E c \in Call : Begin(s, c) \/ Finish(s, c)
  \/ \E v \in Service : Refuse(s, v)
  \/ AnswerStop(s) \/ Leave(s) \/ Die(s)
  \/ \E how \in {"bad", "zero", "wedged"} : Fails(s, how)

Next ==
  \/ \E c \in Call : AskDeclined(c) \/ Ask(c) \/ SpawnThrows(c)
  \/ \E c \in Call, s \in Sidecar, born \in {"live", "absent"} : AskStarts(c, s, born)
  \/ \E s \in Sidecar, born \in {"live", "absent"} : WarmUp(s, born)
  \/ \E c \in Call, s \in Sidecar : CallTimeout(c, s)
  \/ \E s \in Sidecar : \E n \in 1 .. Len(output[s]) : Read(s, n)
  \/ \E s \in Sidecar : HandshakeTimeout(s) \/ Ping(s) \/ PingTimeout(s) \/ StopTimeout(s)
  \/ \E s \in Sidecar : Exit(s) \/ SpawnFailed(s) \/ Environment(s)
  \/ \E v \in Service : ServiceEnds(v)
  \/ RestOver \/ Shutdown \/ Loop

Spec == Init /\ [][Next]_vars

\* The loop turns, timers fire, the events of a process arrive, and a signal ends it.  Nothing
\* is assumed of a sidecar's answers.
Fairness ==
  /\ WF_vars(Loop)
  /\ \A s \in Sidecar :
       /\ WF_vars(Exit(s)) /\ WF_vars(SpawnFailed(s)) /\ WF_vars(Die(s))
       /\ WF_vars(HandshakeTimeout(s)) /\ WF_vars(Ping(s)) /\ WF_vars(PingTimeout(s))
       /\ WF_vars(StopTimeout(s)) /\ WF_vars(\E n \in 1 .. Len(output[s]) : Read(s, n))
       /\ \A c \in Deadline : WF_vars(CallTimeout(c, s))

FairSpec == Spec /\ Fairness

----------------------------------------------------------------------------
Line == {"ok", "error"} \X Request \X Sidecar \cup {"exited"} \X Service \X Sidecar

\* TypeOK: the shapes, and that `state` is a sidecar being started or ready.
TypeOK ==
  /\ current \in Sidecar \cup {None}
  /\ phase \in [Sidecar -> {"unborn", "starting", "ready", "gone"}]
  /\ \A s \in Sidecar : (current = s) = (phase[s] \in {"starting", "ready"})
  /\ starter \in Call \cup {Boot, None} /\ closing \in [Sidecar -> BOOLEAN]
  /\ pending \in [Sidecar -> SUBSET Request]
  /\ record \in [failures : Nat, resting : BOOLEAN, disabled : BOOLEAN]
  /\ call \in [Call -> {"new", "starting", "waiting", "ok", "failed", "node"}]
  /\ listed \subseteq Service /\ early \subseteq Service
  /\ chunk \in Seq(Line) /\ woken \in Seq(Line)
  /\ process \in [Sidecar -> {"none", "absent", "live", "leaving", "wedged", "zero", "bad", "reaped"}]
  /\ doomed \in [Sidecar -> BOOLEAN] /\ unread \in [Sidecar -> SUBSET Request]
  /\ output \in [Sidecar -> Seq(Line)]
  /\ job \in [Call -> {"none", "begun", "done"}] /\ home \in [Call -> Sidecar \cup {None}]
  /\ service \in [Service -> {"none", "alive", "ended"}]
  /\ faults \in 0 .. MaxFaults /\ stops \in 0 .. MaxStops
  /\ notices \in [Service -> Nat] /\ tries \in Nat

\* A command is never run by both: once the runtime may have begun it, the
\* caller is not told to run it on Node, and the runtime never begins one
\* that Node was given.
RunsOnce == \A c \in Command : ~(call[c] = "node" /\ (job[c] # "none" \/ \E s \in Sidecar : c \in unread[s]))

\* The same of a background service, as calls.mjs says of tryStartBackground:
\* "there is no post-dispatch hazard to reason about".
StartedOnce == \A v \in Service : ~(call[v] = "node" /\ service[v] = "alive" /\ Running(home[v]))

\* A process that is not the current sidecar has been told to end, and nobody
\* waits for an answer of it.
NoOrphan ==
  \A s \in Sidecar \ {current} :
    /\ Running(s) \/ process[s] = "wedged" => doomed[s]
    /\ pending[s] = {}

\* A caller that waits is in the pending map of the current sidecar, started
\* it, or has its continuation on the way: an answer or an end will find it.
WaiterIsKnown ==
  \A c \in Call :
    /\ call[c] = "waiting" => \/ home[c] = current /\ c \in pending[current]
                              \/ \E i \in DOMAIN woken : woken[i][2] = c
    /\ call[c] = "starting" => current # None /\ phase[current] = "starting" /\ starter = c

\* A listed service belongs to the sidecar that is serving now, and runs
\* unless the line that says otherwise is on its way.  (A shutdown is excused:
\* a pid that shares a chunk with its answer is listed after the teardown.)
ListedServiceIsReal ==
  \A v \in listed : ~closing[home[v]] =>
    /\ IsReady /\ home[v] = current
    /\ service[v] = "alive" \/ <<"exited", v, current>> \in ToSet(output[current]) \cup ToSet(chunk)

\* The end of a service is reported once, whoever notices it first.
ExitReportedOnce == \A v \in Service : notices[v] + (IF v \in listed THEN 1 ELSE 0) <= 1

\* A runtime that cannot start is not started for ever: between two successful
\* handshakes (or stops) there are at most MaxFailures attempts.
StartsAreBounded == tries <= MaxFailures

\* "Consecutive spawn failures": what one sidecar does is one failure.  The exit
\* of one that was given up, and so counted, adds nothing.
OneFailurePerSidecar ==
  [][\A s \in Sidecar :
       (phase[s] = "gone" /\ Ended(s) /\ process'[s] = "reaped") => record'.failures = record.failures]_vars

\* "the next start is a fresh start rather than a retry" (shutdown).
FreshAfterShutdown == [][Shutdown => record' = Clear]_vars

\* A start ends: the bridge is not left in the state where it declines every call.
StartEnds == \A s \in Sidecar : phase[s] = "starting" ~> phase[s] # "starting"

\* A caller with a deadline gets an answer, whatever the sidecar does.
CallsSettle == \A c \in Deadline : call[c] \in {"waiting", "starting"} ~> call[c] \in {"ok", "failed", "node"}

\* A sidecar that stays and answers nothing is given up, unless a call that may take for ever waits for it.
WedgeNoticed ==
  \A s \in Sidecar : (current = s /\ process[s] = "wedged")
     ~> (current # s \/ pending[s] \cap (Call \ Deadline) # {})

\* A service that is gone leaves the list.
GoneServiceUnlisted ==
  \A v \in Service : (v \in listed /\ (service[v] = "ended" \/ Ended(home[v]))) ~> v \notin listed
============================================================================
