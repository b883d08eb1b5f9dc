------------------------ MODULE RuntimeBridgeProofs ------------------------
(***************************************************************************)
(* What the bridge keeps however many sidecars, calls and faults there     *)
(* are: no process is let go without a signal, starts are bounded, no      *)
(* command is run by both sides, the list of background services tells the *)
(* truth, and nobody waits for an answer that has nowhere to come to.      *)
(***************************************************************************)
EXTENDS RuntimeBridge, FiniteSetTheorems, TLAPS

Records == [failures : Nat, resting : BOOLEAN, disabled : BOOLEAN]
Life == {"none", "absent", "live", "leaving", "wedged", "zero", "bad", "reaped"}
Place == {"new", "starting", "waiting", "ok", "failed", "node"}

\* The part of TypeOK the proofs need.  `None` is among the requests since
\* nothing here says that a handshake always has a caller.
Shapes ==
  /\ current \in Sidecar \cup {None}
  /\ phase \in [Sidecar -> {"unborn", "starting", "ready", "gone"}]
  /\ \A s \in Sidecar : current = s <=> phase[s] \in {"starting", "ready"}
  /\ pending \in [Sidecar -> SUBSET (Request \cup {None})]
  /\ \A s \in Sidecar \ {current} : pending[s] = {}
  /\ unread \in [Sidecar -> SUBSET (Request \cup {None})]
  /\ process \in [Sidecar -> Life] /\ doomed \in [Sidecar -> BOOLEAN]
  /\ record \in Records
  /\ call \in [Call -> Place] /\ job \in [Call -> {"none", "begun", "done"}]
  /\ starter \in Call \cup {Boot, None}
  /\ tries \in Nat

USE BridgeAssumption

LEMMA RecordTypes ==
  /\ Clear \in Records
  /\ \A r \in Records, n \in {0, 1, 2} : Noted(r, n) \in Records
BY DEF Records, Clear, Noted

\* What a teardown does to the shapes.
LEMMA TeardownShapes ==
  ASSUME Shapes, NEW s \in Sidecar \cup {None}, NEW r \in Records,
         NEW n \in {0, 1}, s = current, Teardown(s, r, n)
  PROVE  /\ current' = None /\ starter' = None
         /\ phase' \in [Sidecar -> {"unborn", "starting", "ready", "gone"}]
         /\ \A t \in Sidecar : phase'[t] \notin {"starting", "ready"}
         /\ pending' \in [Sidecar -> SUBSET (Request \cup {None})]
         /\ \A t \in Sidecar : pending'[t] = {}
         /\ doomed' \in [Sidecar -> BOOLEAN]
         /\ record' \in Records
         /\ call' \in [Call -> Place]
<1>1. record' \in Records
  BY RecordTypes DEF Shapes, Teardown
<1>2. call' \in [Call -> Place]
  BY DEF Shapes, Teardown, RejectAll, Rejected, Place
<1>3. phase' \in [Sidecar -> {"unborn", "starting", "ready", "gone"}]
      /\ \A t \in Sidecar : phase'[t] \notin {"starting", "ready"}
  BY DEF Shapes, Teardown
<1> QED
  BY <1>1, <1>2, <1>3 DEF Shapes, Teardown, Kill

LEMMA ShapesInit == Init => Shapes
BY RecordTypes DEF Init, Shapes, Life, Place, Request

LEMMA ShapesNext == Shapes /\ [Next]_vars => Shapes'
<1> SUFFICES ASSUME Shapes, [Next]_vars PROVE Shapes'
  OBVIOUS
<1> USE DEF Shapes
<1>0. CASE UNCHANGED vars
  BY <1>0 DEF vars, sidecarVars, processVars, jobVars
<1>1. ASSUME NEW c \in Call, AskDeclined(c) \/ Ask(c) \/ SpawnThrows(c)
      PROVE  Shapes'
  <2>1. CASE AskDeclined(c)
    BY <2>1 DEF AskDeclined, Decline, sidecarVars, processVars, jobVars, Place
  <2>2. CASE Ask(c)
    BY <2>2 DEF Ask, Dispatch, Send, Decline, IsReady, Place, Request
  <2>3. CASE SpawnThrows(c)
    BY <2>3, RecordTypes DEF SpawnThrows, Decline, processVars, jobVars, Place
  <2> QED
    BY <1>1, <2>1, <2>2, <2>3
<1>2. ASSUME NEW s \in Sidecar, NEW by \in Call \cup {Boot}, NEW born \in {"live", "absent"}, Start(s, by, born),
             call' \in [Call -> Place]
      PROVE  Shapes'
  BY <1>2 DEF Start, MayStart, jobVars, Request, Life
<1>3. ASSUME NEW s \in Sidecar, NEW born \in {"live", "absent"},
             WarmUp(s, born) \/ \E c \in Call : AskStarts(c, s, born)
      PROVE  Shapes'
  BY <1>2, <1>3 DEF AskStarts, WarmUp, Place
<1>4. ASSUME NEW c \in Call, NEW s \in Sidecar, CallTimeout(c, s)
      PROVE  Shapes'
  BY <1>4 DEF CallTimeout, Rejected, processVars, jobVars, Place
<1>5. ASSUME NEW s \in Sidecar, NEW n, Read(s, n)
      PROVE  Shapes'
  BY <1>5 DEF Read, sidecarVars, jobVars
<1>6. ASSUME NEW s \in Sidecar \cup {None}, NEW r \in Records,
             NEW n \in {0, 1}, s = current, Teardown(s, r, n), process' \in [Sidecar -> Life],
             unread' = unread, job' = job, tries' \in Nat
      PROVE  Shapes'
  BY <1>6, TeardownShapes
<1>7. ASSUME NEW s \in Sidecar, HandshakeTimeout(s) \/ Ping(s) \/ PingTimeout(s) \/ StopTimeout(s)
      PROVE  Shapes'
  <2>1. CASE HandshakeTimeout(s)
    BY <2>1, <1>6 DEF HandshakeTimeout, jobVars
  <2>2. CASE Ping(s)
    BY <2>2 DEF Ping, Send, jobVars, Request
  <2>3. CASE PingTimeout(s)
    BY <2>3, <1>6 DEF PingTimeout, Untorn, jobVars
  <2>4. CASE StopTimeout(s)
    BY <2>4, <1>6 DEF StopTimeout, jobVars
  <2> QED
    BY <1>7, <2>1, <2>2, <2>3, <2>4
<1>8. ASSUME NEW s \in Sidecar, Exit(s) \/ SpawnFailed(s)
      PROVE  Shapes'
  <2>1. process' \in [Sidecar -> Life] /\ unread' = unread /\ job' = job /\ tries' = tries
    BY <1>8 DEF Exit, SpawnFailed, jobVars, Life
  <2>2. CASE current = s
    BY <1>8, <2>1, <2>2, <1>6 DEF Exit, SpawnFailed
  <2>3. CASE current # s
    <3>1. record' \in Records
      BY <1>8, <2>3, RecordTypes DEF Exit, SpawnFailed
    <3>2. UNCHANGED <<current, phase, starter, doomed, call, pending>>
      BY <1>8, <2>3 DEF Exit, SpawnFailed, Untorn
    <3> QED
      BY <2>1, <3>1, <3>2
  <2> QED
    BY <2>2, <2>3
<1>9. ASSUME NEW s \in Sidecar, Environment(s)
      PROVE  Shapes'
  <2>1. /\ process' \in [Sidecar -> Life] /\ unread' \in [Sidecar -> SUBSET (Request \cup {None})]
        /\ job' \in [Call -> {"none", "begun", "done"}]
    BY <1>9 DEF Environment, Answer, Begin, Finish, Refuse, AnswerStop, Leave, Die, Fails, Falls, jobVars, Life
  <2>2. UNCHANGED <<sidecarVars, call, tries, doomed>>
    BY <1>9 DEF Environment, Answer, Begin, Finish, Refuse, AnswerStop, Leave, Die, Fails, Quiet
  <2> QED
    BY <2>1, <2>2 DEF sidecarVars
<1>10. ASSUME NEW v \in Service, ServiceEnds(v)
       PROVE  Shapes'
  BY <1>10 DEF ServiceEnds, Quiet, sidecarVars, jobVars
<1>11. CASE RestOver
  BY <1>11 DEF RestOver, Records, processVars, jobVars
<1>12. CASE Shutdown
  <2>1. CASE current # None /\ ~IsReady
    BY <1>12, <2>1, <1>6, RecordTypes DEF Shutdown, jobVars
  <2>2. CASE current = None
    BY <1>12, <2>2, RecordTypes DEF Shutdown, Untorn, jobVars
  <2>3. CASE IsReady
    <3>1. Send(current, "stop") /\ Untorn /\ record' = Clear /\ tries' = 0
          /\ UNCHANGED <<process, job>>
      BY <1>12, <2>3 DEF Shutdown, IsReady, jobVars
    <3> QED
      BY <2>3, <3>1, RecordTypes DEF Untorn, Send, IsReady, Request
  <2> QED
    BY <2>1, <2>2, <2>3
<1>13. CASE Loop
  <2>1. CASE HandleExited \/ Pong
    BY <2>1 DEF HandleExited, Pong, sidecarVars, processVars, jobVars
  <2>5. CASE HandleReply
    <3>1. pending' = pending \/ \E m, s : pending' = [pending EXCEPT ![s] = @ \ {m}]
      BY <2>5 DEF HandleReply
    <3>2. UNCHANGED <<current, phase, starter, record, call, process, doomed, unread, job, tries>>
      BY <2>5 DEF HandleReply, processVars, jobVars
    <3> QED
      BY <3>1, <3>2
  <2>2. CASE HandshakeDone
    <3>1. /\ current' = current /\ phase' = [phase EXCEPT ![current] = "ready"]
          /\ record' = Clear /\ tries' = 0 /\ starter' = None
          /\ UNCHANGED <<process, doomed, job>>
      BY <2>2 DEF HandshakeDone
    <3>2. \/ UNCHANGED <<call, pending, unread>>
          \/ Send(current, starter) /\ call' = [call EXCEPT ![starter] = "waiting"]
          \/ call' = [call EXCEPT ![starter] = "node"] /\ UNCHANGED <<pending, unread>>
      BY <2>2 DEF HandshakeDone, Dispatch, Decline
    <3>3. call' \in [Call -> Place]
      BY <3>2 DEF Place
    <3>6. /\ phase' \in [Sidecar -> {"unborn", "starting", "ready", "gone"}]
          /\ \A s \in Sidecar : current' = s <=> phase'[s] \in {"starting", "ready"}
      BY <3>1
    <3>4. CASE starter = Boot
      BY <2>2, <3>1, <3>4, <3>6, RecordTypes DEF HandshakeDone
    <3>5. CASE starter # Boot
      BY <3>1, <3>2, <3>3, <3>5, <3>6, RecordTypes DEF Send, Request
    <3> QED
      BY <3>4, <3>5
  <2>3. CASE HandshakeRefused \/ ShutdownAnswered
    BY <2>3, <1>6 DEF HandshakeRefused, ShutdownAnswered, jobVars
  <2>4. ASSUME NEW c \in Call, CommandAnswered(c) \/ ServiceListed(c) \/ ServiceRefused(c)
        PROVE  Shapes'
    BY <2>4 DEF CommandAnswered, ServiceListed, ServiceRefused, Decline, sidecarVars, processVars, jobVars, Place
  <2> QED
    BY <1>13, <2>1, <2>2, <2>3, <2>4, <2>5 DEF Loop, Call
<1> QED
  BY <1>0, <1>1, <1>3, <1>4, <1>5, <1>7, <1>8, <1>9, <1>10, <1>11, <1>12, <1>13 DEF Next

\* Types, the one current sidecar, and that only it has requests pending.
THEOREM ShapesAlways == Spec => []Shapes
BY ShapesInit, ShapesNext, PTL DEF Spec

-----------------------------------------------------------------------------
(***************************************************************************)
(* Starts.  While none is under way each has cost a failure; one under way *)
(* began below the limit and will cost one or clear the record.            *)
(***************************************************************************)
Counted ==
  /\ tries <= MaxFailures /\ tries <= record.failures + 1
  /\ (\A s \in Sidecar : phase[s] # "starting") => tries <= record.failures
  /\ ~record.disabled => record.failures < MaxFailures

LEMMA NotedCounts ==
  ASSUME NEW r \in Records, NEW n \in {0, 1, 2}, ~r.disabled => r.failures < MaxFailures
  PROVE  /\ Noted(r, n) \in Records /\ Noted(r, n).failures = r.failures + n
         /\ ~Noted(r, n).disabled => Noted(r, n).failures < MaxFailures
<1>1. Noted(r, n) \in Records
  BY RecordTypes
<1>2. CASE n = 0
  BY <1>2 DEF Noted, Records
<1>3. CASE n # 0
  <2>1. Noted(r, n).failures = r.failures + n
    BY <1>3 DEF Noted
  <2>2. ~Noted(r, n).disabled => ~(r.failures + n >= MaxFailures)
    BY <1>3 DEF Noted
  <2>3. r.failures \in Nat /\ MaxFailures \in Nat
    BY DEF Records
  <2>4. ~Noted(r, n).disabled => Noted(r, n).failures < MaxFailures
    BY <2>1, <2>2, <2>3
  <2> QED
    BY <1>1, <2>1, <2>4
<1> QED
  BY <1>1, <1>2, <1>3

\* A start that is given up has cost its failure.
LEMMA TeardownCounts ==
  ASSUME Shapes, Counted, NEW s \in Sidecar \cup {None}, NEW n \in {0, 1}, s = current,
         NEW r \in {record, Clear}, Teardown(s, r, n), tries' \in {tries, 0}, r = record \/ tries' = 0
  PROVE  Counted'
<1>1. \A t \in Sidecar : phase'[t] # "starting"
  BY TeardownShapes, RecordTypes DEF Shapes
<1>2. r \in Records /\ (~r.disabled => r.failures < MaxFailures)
  <2>1. Clear \in Records /\ Clear.failures < MaxFailures
    BY RecordTypes DEF Clear
  <2> QED
    BY <2>1 DEF Shapes, Counted
<1>3. PICK k \in {0, 1, 2} : record' = Noted(r, k) /\ ((\E t \in Sidecar : phase[t] = "starting") => k >= 1)
  BY DEF Teardown, Shapes
<1>4. /\ record' \in Records /\ record'.failures = r.failures + k
      /\ ~record'.disabled => record'.failures < MaxFailures
  BY <1>2, <1>3, NotedCounts
<1>5. tries' <= record'.failures
  BY <1>2, <1>3, <1>4 DEF Shapes, Counted, Records
<1> QED
  BY <1>1, <1>4, <1>5 DEF Shapes, Counted, Records

LEMMA CountedNext == Shapes /\ Counted /\ [Next]_vars => Counted'
<1> SUFFICES ASSUME Shapes, Counted, [Next]_vars PROVE Counted'
  OBVIOUS
<1>0. ASSUME UNCHANGED <<phase, record, tries>> PROVE Counted'
  BY <1>0 DEF Counted
<1>1. CASE UNCHANGED vars
  BY <1>0, <1>1 DEF vars, sidecarVars
<1>2. ASSUME NEW c \in Call, AskDeclined(c) \/ Ask(c) \/ \E s \in Sidecar : CallTimeout(c, s)
      PROVE  Counted'
  BY <1>0, <1>2 DEF AskDeclined, Ask, CallTimeout, sidecarVars
<1>3. ASSUME NEW c \in Call, SpawnThrows(c) PROVE Counted'
  <2>1. record \in Records /\ record' = Noted(record, 1) /\ tries' = tries + 1 /\ phase' = phase
    BY <1>3 DEF SpawnThrows, Shapes
  <2>2. ~record.disabled /\ tries <= record.failures /\ \A s \in Sidecar : phase[s] # "starting"
    BY <1>3 DEF SpawnThrows, MayStart, Shapes, Counted
  <2>3. record'.failures = record.failures + 1 /\ (~record'.disabled => record'.failures < MaxFailures)
    BY <2>1, NotedCounts DEF Counted
  <2> QED
    BY <2>1, <2>2, <2>3 DEF Counted, Shapes, Records
<1>4. ASSUME NEW s \in Sidecar, NEW by, NEW born, Start(s, by, born) PROVE Counted'
  <2>1. ~record.disabled /\ tries <= record.failures
    BY <1>4 DEF Start, MayStart, Shapes, Counted
  <2>2. record' = record /\ tries' = tries + 1 /\ phase' = [phase EXCEPT ![s] = "starting"]
    BY <1>4 DEF Start
  <2> QED
    BY <2>1, <2>2 DEF Counted, Shapes, Records
<1>5. ASSUME NEW s \in Sidecar, HandshakeTimeout(s) \/ PingTimeout(s) \/ StopTimeout(s) \/ Ping(s) PROVE Counted'
  <2>1. CASE Ping(s) \/ UNCHANGED <<phase, record, tries>>
    BY <1>0, <2>1 DEF Ping
  <2>2. ASSUME NEW n \in {0, 1}, Teardown(s, record, n), tries' = tries, pending[s] # {} PROVE Counted'
    BY <2>2, TeardownCounts DEF Shapes
  <2> QED
    BY <1>5, <2>1, <2>2 DEF HandshakeTimeout, PingTimeout, StopTimeout, Untorn
<1>6. ASSUME NEW s \in Sidecar, Exit(s) \/ SpawnFailed(s) PROVE Counted'
  <2>1. tries' = tries
    BY <1>6 DEF Exit, SpawnFailed
  <2>2. CASE current = s
    BY <1>6, <2>1, <2>2, TeardownCounts DEF Exit, SpawnFailed
  <2>3. CASE current # s
    <3>1. phase' = phase
      BY <1>6, <2>3 DEF Exit, SpawnFailed, Untorn
    <3>3. PICK n \in {0, 1, 2} : record' = Noted(record, n)
      BY <1>6, <2>3 DEF Exit, SpawnFailed, Noted
    <3>2. record' \in Records /\ record'.failures >= record.failures
          /\ (~record'.disabled => record'.failures < MaxFailures)
      <4>1. record \in Records /\ record.failures \in Nat
        BY DEF Shapes, Records
      <4> QED
        BY <3>3, <4>1, NotedCounts DEF Counted
    <3> QED
      BY <2>1, <3>1, <3>2 DEF Counted, Shapes, Records
  <2> QED
    BY <2>2, <2>3
<1>7. CASE RestOver
  BY <1>7 DEF RestOver, Counted, Shapes, Records
<1>8. CASE Shutdown
  <2>1. tries' = 0
    BY <1>8 DEF Shutdown
  <2>2. CASE record' = Clear
    BY <2>1, <2>2 DEF Counted, Clear
  <2>3. CASE current # None /\ ~IsReady
    BY <1>8, <2>1, <2>3, TeardownCounts DEF Shutdown, Shapes
  <2> QED
    BY <1>8, <2>2, <2>3 DEF Shutdown, IsReady
<1>9. CASE HandshakeDone
  BY <1>9 DEF HandshakeDone, Counted, Clear
<1>10. CASE HandshakeRefused \/ ShutdownAnswered
  BY <1>10, TeardownCounts DEF HandshakeRefused, ShutdownAnswered, Shapes
<1>11. CASE HandleReply \/ HandleExited \/ Pong \/ \E c \in Call : CommandAnswered(c) \/ ServiceListed(c) \/ ServiceRefused(c)
  BY <1>0, <1>11 DEF HandleReply, HandleExited, Pong, CommandAnswered, ServiceListed, ServiceRefused, sidecarVars
<1>12. ASSUME NEW s \in Sidecar, Environment(s) \/ \E n : Read(s, n) PROVE Counted'
  BY <1>0, <1>12 DEF Environment, Answer, Begin, Finish, Refuse, AnswerStop, Leave, Die, Fails, Quiet, Read, sidecarVars
<1>13. ASSUME NEW v \in Service, ServiceEnds(v) PROVE Counted'
  BY <1>0, <1>13 DEF ServiceEnds, Quiet, sidecarVars
<1> QED
  BY <1>1, <1>2, <1>3, <1>4, <1>5, <1>6, <1>7, <1>8, <1>9, <1>10, <1>11, <1>12, <1>13
  DEF Next, AskStarts, WarmUp, Loop, Call

\* A runtime that cannot start is given up: however sidecars, callers and
\* timers interleave, no more than MAX_SPAWN_FAILURES attempts are made
\* between two successful handshakes.
THEOREM StartsAlwaysBounded == Spec => []StartsAreBounded
<1>1. Init => Counted
  BY DEF Init, Counted, Clear
<1>2. Counted => StartsAreBounded
  BY DEF Counted, StartsAreBounded
<1> QED
  BY <1>1, <1>2, ShapesAlways, CountedNext, PTL DEF Spec

-----------------------------------------------------------------------------
(***************************************************************************)
(* Processes.  Only a teardown lets the current one go, and it signals it. *)
(***************************************************************************)
Alive(s) == Running(s) \/ process[s] = "wedged"
Signalled == \A s \in Sidecar \ {current} : Alive(s) => doomed[s]

\* A step that starts no process, takes no signal back and keeps the current sidecar.
LEMMA SignalledKept ==
  ASSUME Shapes, Signalled, current' = current, doomed' = doomed,
         \A s \in Sidecar : Alive(s)' => Alive(s)
  PROVE  Signalled'
BY DEF Signalled

LEMMA SignalledByTeardown ==
  ASSUME Shapes, Signalled, NEW s \in Sidecar \cup {None}, NEW r, NEW n, s = current, Teardown(s, r, n),
         \A t \in Sidecar : Alive(t)' => Alive(t)
  PROVE  Signalled'
BY DEF Shapes, Signalled, Teardown, Kill

LEMMA SignalledNext == Shapes /\ Signalled /\ [Next]_vars => Signalled'
<1> SUFFICES ASSUME Shapes, Signalled, [Next]_vars PROVE Signalled'
  OBVIOUS
<1>0. ASSUME UNCHANGED <<current, doomed, process>> PROVE Signalled'
  BY <1>0 DEF Signalled, Alive, Running
<1>1. CASE UNCHANGED vars
  BY <1>0, <1>1 DEF vars, sidecarVars, processVars
<1>2. ASSUME NEW c \in Call, AskDeclined(c) \/ Ask(c) \/ SpawnThrows(c) \/ \E s \in Sidecar : CallTimeout(c, s)
      PROVE  Signalled'
  BY <1>0, <1>2 DEF AskDeclined, Ask, SpawnThrows, CallTimeout, sidecarVars, processVars
<1>3. ASSUME NEW s \in Sidecar, NEW by, NEW born, Start(s, by, born) PROVE Signalled'
  BY <1>3 DEF Start, MayStart, Shapes, Signalled, Alive, Running
<1>4. ASSUME NEW s \in Sidecar, HandshakeTimeout(s) \/ PingTimeout(s) \/ StopTimeout(s) \/ Ping(s) PROVE Signalled'
  <2>1. process' = process
    BY <1>4 DEF HandshakeTimeout, PingTimeout, StopTimeout, Ping
  <2>2. CASE UNCHANGED <<current, doomed>>
    BY <1>0, <2>1, <2>2
  <2>3. ASSUME NEW n, Teardown(s, record, n), pending[s] # {} PROVE Signalled'
    BY <2>1, <2>3, SignalledByTeardown DEF Shapes, Alive, Running
  <2> QED
    BY <1>4, <2>2, <2>3 DEF HandshakeTimeout, PingTimeout, StopTimeout, Ping, Untorn
<1>5. ASSUME NEW s \in Sidecar, Exit(s) \/ SpawnFailed(s) PROVE Signalled'
  <2>1. \A t \in Sidecar : Alive(t)' => Alive(t)
    BY <1>5 DEF Exit, SpawnFailed, Shapes, Alive, Running
  <2>2. CASE current = s
    BY <1>5, <2>1, <2>2, SignalledByTeardown DEF Exit, SpawnFailed
  <2>3. CASE current # s
    BY <1>5, <2>1, <2>3, SignalledKept DEF Exit, SpawnFailed, Untorn
  <2> QED
    BY <2>2, <2>3
<1>6. CASE RestOver
  BY <1>0, <1>6 DEF RestOver, processVars
<1>7. CASE Shutdown
  <2>1. process' = process
    BY <1>7 DEF Shutdown
  <2>2. CASE UNCHANGED <<current, doomed>>
    BY <1>0, <2>1, <2>2
  <2>3. CASE Teardown(current, Clear, 0)
    BY <2>1, <2>3, SignalledByTeardown DEF Shapes, Alive, Running
  <2> QED
    BY <1>7, <2>2, <2>3 DEF Shutdown, Untorn
<1>8. CASE HandshakeRefused \/ ShutdownAnswered
  BY <1>8, SignalledByTeardown DEF HandshakeRefused, ShutdownAnswered, Shapes, Alive, Running
<1>9. CASE HandshakeDone \/ HandleReply \/ HandleExited \/ Pong \/ \E c \in Call : CommandAnswered(c) \/ ServiceListed(c) \/ ServiceRefused(c)
  BY <1>0, <1>9 DEF HandshakeDone, HandleReply, HandleExited, Pong, CommandAnswered, ServiceListed, ServiceRefused,
    sidecarVars, processVars
<1>10. ASSUME NEW s \in Sidecar, Environment(s) PROVE Signalled'
  <2>1. UNCHANGED <<current, doomed>>
    BY <1>10 DEF Environment, Answer, Begin, Finish, Refuse, AnswerStop, Leave, Die, Fails, Quiet, sidecarVars
  <2>2. \A t \in Sidecar : Alive(t)' => Alive(t)
    BY <1>10 DEF Environment, Answer, Begin, Finish, Refuse, AnswerStop, Leave, Die, Fails, Falls, Answering,
      Shapes, Alive, Running
  <2> QED
    BY <2>1, <2>2, SignalledKept
<1>11. ASSUME NEW s \in Sidecar, NEW n, Read(s, n) PROVE Signalled'
  BY <1>0, <1>11 DEF Read, sidecarVars
<1>12. ASSUME NEW v \in Service, ServiceEnds(v) PROVE Signalled'
  BY <1>0, <1>12 DEF ServiceEnds, Quiet, sidecarVars
<1> QED
  BY <1>1, <1>2, <1>3, <1>4, <1>5, <1>6, <1>7, <1>8, <1>9, <1>10, <1>11, <1>12
  DEF Next, AskStarts, WarmUp, Loop, Call

\* No orphan: whatever ends the bridge's use of a sidecar - a failed
\* handshake, a missed heartbeat, a stop, an exit - also signals its process,
\* and settles every request that waited for it.
THEOREM NeverAnOrphan == Spec => []NoOrphan
<1>1. Init => Signalled
  BY DEF Init, Signalled, Alive, Running
<1>2. Shapes /\ Signalled => NoOrphan
  BY DEF Shapes, Signalled, NoOrphan, Alive
<1> QED
  BY <1>1, <1>2, ShapesAlways, SignalledNext, PTL DEF Spec

-----------------------------------------------------------------------------
(***************************************************************************)
(* Commands.  Node is given a command only while the runtime knows nothing *)
(* of it: before it was asked, or while its start was still under way.     *)
(***************************************************************************)
Unknown(c) == job[c] = "none" /\ \A s \in Sidecar : c \notin unread[s]

Separate ==
  \A c \in Command :
    /\ call[c] \in {"new", "node"} => Unknown(c)
    /\ starter = c => Unknown(c) /\ call[c] # "new"

\* A rejected command has failed, unless it was still waiting for the start.
LEMMA SeparateByTeardown ==
  ASSUME Shapes, Separate, NEW s, NEW r, NEW n, Teardown(s, r, n), UNCHANGED <<job, unread>>
  PROVE  Separate'
<1> SUFFICES ASSUME NEW c \in Command PROVE /\ call'[c] \in {"new", "node"} => Unknown(c)
                                            /\ starter' # c
  BY DEF Separate, Unknown
<1>1. starter' = None /\ None # c /\ c \in Call
  BY DEF Teardown, Call
<1>2. call'[c] = IF starter = c THEN "node" ELSE IF c \in pending[s] THEN "failed" ELSE call[c]
  BY <1>1 DEF Teardown, RejectAll, Rejected
<1> QED
  BY <1>1, <1>2 DEF Separate

\* Sending a request of its own that the runtime does not know of yet.
LEMMA SeparateByDispatch ==
  ASSUME Shapes, Separate, NEW d \in Call \cup {None}, NEW s \in Sidecar \cup {None}, Dispatch(d, s), job' = job,
         d \in Command => Unknown(d), starter' = None \/ (starter' = starter /\ d # starter)
  PROVE  Separate'
<1> SUFFICES ASSUME NEW c \in Command
             PROVE  /\ call'[c] \in {"new", "node"} => Unknown(c)'
                    /\ starter' = c => Unknown(c)' /\ call'[c] # "new"
  BY DEF Separate
<1>1. c \in Call /\ c # None
  BY DEF Call
<1>2. CASE c = d
  BY <1>1, <1>2 DEF Dispatch, Send, Decline, Unknown, Shapes, Place
<1>3. CASE c # d
  <2>1. call'[c] = call[c]
    BY <1>1, <1>3 DEF Dispatch, Decline, Shapes
  <2>2. Unknown(c)' <=> Unknown(c)
    BY <1>3 DEF Dispatch, Send, Unknown, Shapes
  <2> QED
    BY <1>1, <2>1, <2>2 DEF Separate
<1> QED
  BY <1>2, <1>3

LEMMA SeparateNext == Shapes /\ Separate /\ [Next]_vars => Separate'
<1> SUFFICES ASSUME Shapes, Separate, [Next]_vars PROVE Separate'
  OBVIOUS
<1>0. ASSUME UNCHANGED <<call, starter, job, unread>> PROVE Separate'
  BY <1>0 DEF Separate, Unknown
<1>1. CASE UNCHANGED vars
  BY <1>0, <1>1 DEF vars, sidecarVars, processVars, jobVars
<1>2. ASSUME NEW d \in Call, AskDeclined(d) \/ SpawnThrows(d) PROVE Separate'
  <2>1. call[d] = "new" /\ call' = [call EXCEPT ![d] = "node"] /\ UNCHANGED <<starter, job, unread>>
    BY <1>2 DEF AskDeclined, SpawnThrows, Decline, sidecarVars, processVars, jobVars
  <2> QED
    BY <2>1 DEF Separate, Unknown, Shapes, Call
<1>3. ASSUME NEW d \in Call, Ask(d) PROVE Separate'
  <2>1. Dispatch(d, current) /\ job' = job /\ starter' = starter /\ call[d] = "new"
    BY <1>3 DEF Ask
  <2>2. d \in Command => Unknown(d) /\ d # starter
    BY <2>1 DEF Separate
  <2>3. CASE d \in Command
    BY <2>1, <2>2, <2>3, SeparateByDispatch DEF Shapes
  <2>4. CASE d \notin Command
    BY <2>1, <2>4 DEF Separate, Unknown, Dispatch, Send, Decline, Shapes, Call
  <2> QED
    BY <2>3, <2>4
<1>4. ASSUME NEW s \in Sidecar, NEW born, WarmUp(s, born) \/ \E c \in Call : AskStarts(c, s, born) PROVE Separate'
  <2>1. PICK by \in Call \cup {Boot} : Start(s, by, born) /\ (by # Boot => call[by] = "new")
          /\ (call' = call \/ (by \in Call /\ call' = [call EXCEPT ![by] = "starting"]))
          /\ (by \in Call => call' = [call EXCEPT ![by] = "starting"])
    BY <1>4 DEF WarmUp, AskStarts
  <2>2. starter' = by /\ job' = job /\ unread' = [unread EXCEPT ![s] = {"init"}]
    BY <2>1 DEF Start, jobVars
  <2>3. ASSUME NEW c \in Command PROVE /\ call'[c] \in {"new", "node"} => Unknown(c)'
                                       /\ by = c => Unknown(c)' /\ call'[c] # "new"
    <3>1. Unknown(c) => Unknown(c)'
      BY <2>2 DEF Unknown, Shapes, Call
    <3> QED
      BY <2>1, <3>1 DEF Separate, Shapes, Call
  <2> QED
    BY <2>2, <2>3 DEF Separate
<1>5. ASSUME NEW d \in Call, NEW s \in Sidecar, CallTimeout(d, s) PROVE Separate'
  <2>1. call' = [call EXCEPT ![d] = Rejected(d)] /\ UNCHANGED <<starter, job, unread>>
    BY <1>5 DEF CallTimeout, processVars, jobVars
  <2> QED
    BY <2>1 DEF Rejected, Separate, Unknown, Shapes, Call
<1>6. ASSUME NEW s \in Sidecar, HandshakeTimeout(s) \/ PingTimeout(s) \/ StopTimeout(s) PROVE Separate'
  <2>1. UNCHANGED <<job, unread>>
    BY <1>6 DEF HandshakeTimeout, PingTimeout, StopTimeout, jobVars
  <2>2. CASE UNCHANGED <<call, starter>>
    BY <1>0, <2>1, <2>2
  <2>3. ASSUME NEW n, Teardown(s, record, n) PROVE Separate'
    BY <2>1, <2>3, SeparateByTeardown
  <2> QED
    BY <1>6, <2>2, <2>3 DEF HandshakeTimeout, PingTimeout, StopTimeout, Untorn
<1>7. ASSUME NEW s \in Sidecar, Ping(s) PROVE Separate'
  BY <1>7 DEF Ping, Send, Separate, Unknown, Shapes, Call, jobVars
<1>8. ASSUME NEW s \in Sidecar, Exit(s) \/ SpawnFailed(s) PROVE Separate'
  <2>1. UNCHANGED <<job, unread>>
    BY <1>8 DEF Exit, SpawnFailed, jobVars
  <2>2. CASE current = s
    BY <1>8, <2>1, <2>2, SeparateByTeardown DEF Exit, SpawnFailed
  <2>3. CASE current # s
    BY <1>0, <1>8, <2>1, <2>3 DEF Exit, SpawnFailed, Untorn
  <2> QED
    BY <2>2, <2>3
<1>9. CASE RestOver
  BY <1>0, <1>9 DEF RestOver, processVars, jobVars
<1>10. CASE Shutdown
  <2>1. job' = job
    BY <1>10 DEF Shutdown, jobVars
  <2>2. CASE Untorn /\ unread' = unread
    BY <1>0, <2>1, <2>2 DEF Untorn
  <2>3. CASE Untorn /\ Send(current, "stop")
    BY <2>1, <2>3 DEF Untorn, Send, Separate, Unknown, Shapes, Call
  <2>4. CASE Teardown(current, Clear, 0) /\ unread' = unread
    BY <2>1, <2>4, SeparateByTeardown
  <2> QED
    BY <1>10, <2>2, <2>3, <2>4 DEF Shutdown
<1>11. CASE HandshakeDone
  <2>1. job' = job /\ starter' = None
    BY <1>11 DEF HandshakeDone
  <2>2. CASE starter = Boot
    BY <1>11, <2>1, <2>2 DEF HandshakeDone, Separate, Unknown, Call
  <2>3. CASE starter # Boot
    <3>1. Dispatch(starter, current) /\ starter \in Call \cup {None}
      BY <1>11, <2>3 DEF HandshakeDone, Shapes
    <3>2. starter \in Command => Unknown(starter)
      BY DEF Separate
    <3> QED
      BY <2>1, <3>1, <3>2, SeparateByDispatch DEF Shapes
  <2> QED
    BY <2>2, <2>3
<1>12. CASE HandshakeRefused \/ ShutdownAnswered
  BY <1>12, SeparateByTeardown DEF HandshakeRefused, ShutdownAnswered, jobVars
<1>13. ASSUME NEW d \in Call, CommandAnswered(d) \/ ServiceListed(d) PROVE Separate'
  <2>1. call' = [call EXCEPT ![d] = "ok"] /\ UNCHANGED <<starter, job, unread>>
    BY <1>13 DEF CommandAnswered, ServiceListed, sidecarVars, processVars, jobVars
  <2> QED
    BY <2>1 DEF Separate, Unknown, Shapes, Call
<1>14. ASSUME NEW v \in Service, ServiceRefused(v) PROVE Separate'
  <2>1. call' = [call EXCEPT ![v] = "node"] /\ UNCHANGED <<starter, job, unread>>
    BY <1>14 DEF ServiceRefused, Decline, sidecarVars, processVars, jobVars
  <2> QED
    BY <2>1 DEF Separate, Unknown, Shapes, Call
<1>15. CASE HandleReply \/ HandleExited \/ Pong
  BY <1>0, <1>15 DEF HandleReply, HandleExited, Pong, sidecarVars, processVars, jobVars
<1>16. ASSUME NEW s \in Sidecar, Environment(s) PROVE Separate'
  <2>1. UNCHANGED <<call, starter>>
    BY <1>16 DEF Environment, Answer, Begin, Finish, Refuse, AnswerStop, Leave, Die, Fails, Quiet, sidecarVars
  <2>2. \A t \in Sidecar : unread'[t] \subseteq unread[t]
    BY <1>16 DEF Environment, Answer, Begin, Finish, Refuse, AnswerStop, Leave, Die, Fails, Falls, Shapes
  <2>3. \A c \in Call : job'[c] # job[c] => c \in unread[s]
    BY <1>16 DEF Environment, Answer, Begin, Finish, Refuse, AnswerStop, Leave, Die, Fails, jobVars, Shapes
  <2>4. \A c \in Command : Unknown(c) => Unknown(c)'
    BY <2>2, <2>3 DEF Unknown, Call
  <2> QED
    BY <2>1, <2>4 DEF Separate
<1>17. ASSUME NEW s \in Sidecar, NEW n, Read(s, n) PROVE Separate'
  BY <1>0, <1>17 DEF Read, sidecarVars, jobVars
<1>18. ASSUME NEW v \in Service, ServiceEnds(v) PROVE Separate'
  BY <1>0, <1>18 DEF ServiceEnds, Quiet, sidecarVars, jobVars
<1> QED
  BY <1>1, <1>2, <1>3, <1>4, <1>5, <1>6, <1>7, <1>8, <1>9, <1>10, <1>11, <1>12, <1>13, <1>14, <1>15, <1>16, <1>17, <1>18
  DEF Next, Loop, Call

\* A command with side effects runs once: whatever order answers, deadlines,
\* exits and restarts come in, a command the runtime may have begun is never
\* handed to Node as well.
THEOREM CommandsRunOnce == Spec => []RunsOnce
<1>1. Init => Separate
  BY DEF Init, Separate, Unknown, Call
<1>2. Separate => RunsOnce
  BY DEF Separate, Unknown, RunsOnce
<1> QED
  BY <1>1, <1>2, ShapesAlways, SeparateNext, PTL DEF Spec

-----------------------------------------------------------------------------

(***************************************************************************)
(* Callers, lines and services.                                            *)
(***************************************************************************)

\* The lines of a pipe that tell of exits are lines of that pipe.  (The rank of
\* a line among them is an injection, so a surjection: each rank is taken.)
LEMMA ExitsAreLines ==
  ASSUME NEW S, NEW lines \in Seq(S)
  PROVE  Exits(lines) \in Seq(S) /\ \A i \in DOMAIN Exits(lines) : Exits(lines)[i][1] = "exited"
<1> DEFINE at == {i \in DOMAIN lines : lines[i][1] = "exited"}
           n == Cardinality(at)
           below(i) == {j \in at : j <= i}
           nth(k) == CHOOSE i \in at : Cardinality(below(i)) = k
           rank == [i \in at |-> Cardinality(below(i))]
<1>1. at \subseteq 1 .. Len(lines) /\ Len(lines) \in Nat
  OBVIOUS
<1>2. IsFiniteSet(at) /\ n \in Nat
  <2>1. IsFiniteSet(1 .. Len(lines))
    BY <1>1, FS_Interval
  <2> QED
    BY <1>1, <2>1, FS_Subset, FS_CardinalityType
<1>3. \A i \in at : IsFiniteSet(below(i)) /\ Cardinality(below(i)) \in 1 .. n
  <2> SUFFICES ASSUME NEW i \in at PROVE IsFiniteSet(below(i)) /\ Cardinality(below(i)) \in 1 .. n
    OBVIOUS
  <2>1. IsFiniteSet(below(i)) /\ Cardinality(below(i)) <= n /\ Cardinality(below(i)) \in Nat
    BY <1>2, FS_Subset, FS_CardinalityType
  <2>2. i \in below(i)
    BY <1>1
  <2>3. Cardinality(below(i)) # 0
    BY <2>1, <2>2, FS_EmptySet
  <2> QED
    BY <1>2, <2>1, <2>3
<1>4. \A i, j \in at : rank[i] = rank[j] => i = j
  <2>1. ASSUME NEW i \in at, NEW j \in at, i < j PROVE rank[i] # rank[j]
    <3>1. below(i) \subseteq below(j) /\ j \in below(j) /\ j \notin below(i)
      BY <1>1, <2>1
    <3> QED
      BY <1>3, <3>1, FS_Subset
  <2>2. \A i, j \in at : i < j \/ j < i \/ i = j
    BY <1>1
  <2> HIDE DEF rank, at
  <2> QED
    BY <2>1, <2>2
<1>5. rank \in Injection(at, 1 .. n)
  <2>1. rank \in [at -> 1 .. n]
    BY <1>3
  <2> HIDE DEF rank, at, n
  <2> QED
    BY <1>4, <2>1 DEF Injection, IsInjective
<1>6. Cardinality(1 .. n) = n /\ IsFiniteSet(1 .. n)
  BY <1>2, FS_Interval
<1>7. rank \in Surjection(at, 1 .. n)
  <2> HIDE DEF rank, at, n
  <2> QED
    BY <1>2, <1>5, <1>6, FS_Injection DEF n
<1>8. \A k \in 1 .. n : \E i \in at : Cardinality(below(i)) = k
  BY <1>7 DEF Surjection
<1>9. \A k \in 1 .. n : nth(k) \in at
  BY <1>8
<1>10. \A k \in 1 .. n : lines[nth(k)] \in S /\ lines[nth(k)][1] = "exited"
  <2> SUFFICES ASSUME NEW k \in 1 .. n PROVE lines[nth(k)] \in S /\ lines[nth(k)][1] = "exited"
    OBVIOUS
  <2>1. nth(k) \in at
    BY <1>9
  <2> QED
    BY <2>1
<1> HIDE DEF nth
<1>11. Exits(lines) = [k \in 1 .. n |-> lines[nth(k)]]
  BY DEF Exits, nth
<1> HIDE DEF n
<1> QED
  BY <1>2, <1>10, <1>11

Kinds ==
  /\ closing \in [Sidecar -> BOOLEAN] /\ home \in [Call -> Sidecar \cup {None}]
  /\ service \in [Service -> {"none", "alive", "ended"}]
  /\ listed \subseteq Service /\ early \subseteq Service
  /\ pending \in [Sidecar -> SUBSET Request] /\ unread \in [Sidecar -> SUBSET Request]
  /\ chunk \in Seq(Line) /\ woken \in Seq(Line) /\ output \in [Sidecar -> Seq(Line)]

\* The continuation of a request is due.
Woken(m) == \E i \in DOMAIN woken : woken[i][2] = m

\* A start has one caller, who waits for it, and nothing else is asked meanwhile.
Starting ==
  /\ starter # None <=> (current # None /\ phase[current] = "starting")
  /\ \A c \in Call : call[c] = "starting" <=> starter = c
  /\ \A s \in Sidecar : phase[s] = "starting" => pending[s] \subseteq {"init"}
  /\ \A s \in Sidecar : "init" \in pending[s] => phase[s] = "starting"
  /\ Woken("init") => starter # None
  /\ starter # None => \A i \in DOMAIN woken : woken[i][2] = "init"

Stopping ==
  /\ \A s \in Sidecar : "stop" \in pending[s] => closing[s]
  /\ Woken("stop") => current # None /\ closing[current]

\* A request is answered once.
Once ==
  /\ \A i, j \in DOMAIN woken : woken[i][2] = woken[j][2] => i = j
  /\ \A s \in Sidecar, i \in DOMAIN woken : woken[i][2] \notin pending[s]

\* Who waits was asked of one sidecar, once, and its answer has a place to come to.
Waiting ==
  \A c \in Call :
    /\ call[c] = "waiting" <=> (current # None /\ c \in pending[current]) \/ Woken(c)
    /\ \A s \in Sidecar : c \in pending[s] \cup unread[s] => home[c] = s
    /\ call[c] \in {"new", "starting"} => job[c] = "none" /\ \A s \in Sidecar : c \notin unread[s]

\* No service is said to have begun that has not.
Truthful(lines) == \A i \in DOMAIN lines : lines[i][1] = "ok" /\ lines[i][2] \in Service => job[lines[i][2]] # "none"

Leaving(v) == home[v] \in Sidecar /\ closing[home[v]]
Served(v) == current # None /\ phase[current] = "ready" /\ home[v] = current

\* What tells of the end of a service: a line not read, or one kept for later.
ToldOf(v) ==
  \/ \E i \in DOMAIN output[current] : output[current][i] = <<"exited", v, current>>
  \/ \E i \in DOMAIN chunk : chunk[i] = <<"exited", v, current>>
  \/ v \in early

Services ==
  /\ \A s \in Sidecar : Truthful(output[s])
  /\ Truthful(chunk) /\ Truthful(woken)
  /\ \A v \in Service :
       /\ service[v] = "none" <=> job[v] = "none"
       /\ v \in listed => call[v] = "ok" /\ v \notin early /\ job[v] # "none"
       /\ call[v] = "waiting" \/ v \in listed =>
            Leaving(v) \/ (Served(v) /\ (service[v] = "ended" => ToldOf(v)))

BridgeInv == Shapes /\ Kinds /\ Starting /\ Stopping /\ Once /\ Waiting /\ Services

LEMMA CallsAreRequests ==
  /\ Call \subseteq Request /\ {"init", "ping", "stop"} \subseteq Request
  /\ \A c \in Call : c \notin {"init", "ping", "stop", None, Boot}
  /\ Service \subseteq Call /\ Command \subseteq Call
BY DEF Call, Request

LEMMA BridgeInit == Init => BridgeInv
<1> SUFFICES ASSUME Init PROVE BridgeInv
  OBVIOUS
<1>1. Shapes
  BY ShapesInit
<1>2. Kinds
  BY DEF Init, Kinds, Request, Line
<1>3. Starting /\ Stopping /\ Once /\ Waiting
  BY CallsAreRequests DEF Init, Starting, Stopping, Once, Waiting, Woken
<1>4. Services
  BY CallsAreRequests DEF Init, Services, Truthful
<1> QED
  BY <1>1, <1>2, <1>3, <1>4 DEF BridgeInv

-----------------------------------------------------------------------------
\* Steps of the sidecars: they read, work, answer and end.
LEMMA EnvironmentKeeps ==
  ASSUME BridgeInv, Shapes', NEW s \in Sidecar, UNCHANGED <<sidecarVars, call, listVars, loopVars, home>>,
         \A t \in Sidecar : unread'[t] \subseteq unread[t], unread' \in [Sidecar -> SUBSET Request],
         \A c \in Call : job'[c] # job[c] => c \in unread[s],
         \A c \in Call : job[c] # "none" => job'[c] # "none",
         service' \in [Service -> {"none", "alive", "ended"}],
         \A v \in Service : service'[v] = "none" <=> job'[v] = "none",
         \A v \in Service : service'[v] = "ended" /\ service[v] # "ended" => output' = [output EXCEPT ![home[v]] = Append(@, <<"exited", v, home[v]>>)],
         NEW l \in Line, NEW h \in Sidecar, output' = output \/ output' = [output EXCEPT ![h] = Append(@, l)],
         l[1] = "ok" /\ l[2] \in Service => job'[l[2]] # "none"
  PROVE  BridgeInv'
<1>0. Starting' /\ Stopping' /\ Once'
  BY DEF BridgeInv, Starting, Stopping, Once, Woken, sidecarVars, loopVars
<1>3. /\ output' \in [Sidecar -> Seq(Line)]
      /\ \A t \in Sidecar : \A i \in DOMAIN output'[t] :
           \/ i \in DOMAIN output[t] /\ output'[t][i] = output[t][i]
           \/ output'[t][i] = l
      /\ \A t \in Sidecar : \A i \in DOMAIN output[t] : i \in DOMAIN output'[t] /\ output'[t][i] = output[t][i]
  <2>1. output \in [Sidecar -> Seq(Line)]
    BY DEF BridgeInv, Kinds
  <2>2. CASE output' = output
    BY <2>1, <2>2
  <2>3. CASE output' = [output EXCEPT ![h] = Append(@, l)]
    <3>1. PICK q : q = output[h]
      OBVIOUS
    <3>2. output' = [output EXCEPT ![h] = Append(q, l)] /\ q \in Seq(Line)
      BY <2>1, <2>3, <3>1
    <3>3. /\ Append(q, l) \in Seq(Line) /\ DOMAIN Append(q, l) = 1 .. Len(q) + 1 /\ DOMAIN q = 1 .. Len(q) /\ Len(q) \in Nat
          /\ \A i \in 1 .. Len(q) : Append(q, l)[i] = q[i]
          /\ Append(q, l)[Len(q) + 1] = l
      BY <3>2
    <3>6. \A i \in DOMAIN Append(q, l) : i \in DOMAIN q \/ Append(q, l)[i] = l
      BY <3>3
    <3>4. \A t \in Sidecar : output'[t] = IF t = h THEN Append(q, l) ELSE output[t]
      BY <2>1, <3>2
    <3>5. output' \in [Sidecar -> Seq(Line)]
      BY <2>1, <3>2, <3>3
    <3>7. ASSUME NEW t \in Sidecar, NEW i
          PROVE  /\ i \in DOMAIN output'[t] => (i \in DOMAIN output[t] /\ output'[t][i] = output[t][i]) \/ output'[t][i] = l
                 /\ i \in DOMAIN output[t] => i \in DOMAIN output'[t] /\ output'[t][i] = output[t][i]
      <4>1. CASE t # h
        BY <3>4, <4>1
      <4>2. CASE t = h
        <5>1. output'[t] = Append(q, l) /\ output[t] = q
          BY <3>1, <3>4, <4>2
        <5>2. i \in DOMAIN q => i \in DOMAIN Append(q, l) /\ Append(q, l)[i] = q[i]
          BY <3>3
        <5> QED
          BY <3>6, <5>1, <5>2, <3>3
      <4> QED
        BY <4>1, <4>2
    <3> QED
      BY <3>5, <3>7
  <2> QED
    BY <2>2, <2>3
<1>1. Kinds'
  BY <1>3 DEF BridgeInv, Kinds, sidecarVars, listVars, loopVars
<1>2. Waiting'
  <2> SUFFICES ASSUME NEW c \in Call
               PROVE  /\ call[c] = "waiting" <=> (current # None /\ c \in pending[current]) \/ Woken(c)
                      /\ \A t \in Sidecar : c \in pending[t] \cup unread'[t] => home[c] = t
                      /\ call[c] \in {"new", "starting"} => job'[c] = "none" /\ \A t \in Sidecar : c \notin unread'[t]
    BY DEF Waiting, Woken, sidecarVars, loopVars
  <2> QED
    BY DEF BridgeInv, Waiting
<1>5. \A t \in Sidecar : Truthful(output[t])'
  <2> SUFFICES ASSUME NEW t \in Sidecar, NEW i \in DOMAIN output'[t],
                      output'[t][i][1] = "ok", output'[t][i][2] \in Service
               PROVE  job'[output'[t][i][2]] # "none"
    BY DEF Truthful
  <2>1. CASE i \in DOMAIN output[t] /\ output'[t][i] = output[t][i]
    <3>1. Truthful(output[t])
      BY DEF BridgeInv, Services
    <3>2. job[output[t][i][2]] # "none"
      BY <2>1, <3>1 DEF Truthful
    <3> QED
      BY <2>1, <3>2, CallsAreRequests
  <2>2. CASE output'[t][i] = l
    BY <2>2
  <2> QED
    BY <1>3, <2>1, <2>2
<1>6. Truthful(chunk)' /\ Truthful(woken)'
  BY CallsAreRequests DEF BridgeInv, Services, Truthful, loopVars
<1>7. ASSUME NEW v \in Service, call[v] = "waiting" \/ v \in listed, ~Leaving(v)
      PROVE  Served(v)' /\ (service'[v] = "ended" => ToldOf(v)')
  <2>1. Served(v) /\ (service[v] = "ended" => ToldOf(v))
    BY <1>7 DEF BridgeInv, Services
  <2>2. Served(v)' /\ current' = current /\ current \in Sidecar /\ home[v] = current /\ chunk' = chunk /\ early' = early
    BY <2>1 DEF Served, sidecarVars, listVars, loopVars, BridgeInv, Shapes
  <2>3. CASE service[v] = "ended"
    <3>1. ToldOf(v)
      BY <2>1, <2>3
    <3>2. CASE \E i \in DOMAIN output[current] : output[current][i] = <<"exited", v, current>>
      <4>1. PICK i \in DOMAIN output[current] : output[current][i] = <<"exited", v, current>>
        BY <3>2
      <4>2. i \in DOMAIN output'[current] /\ output'[current][i] = <<"exited", v, current>>
        BY <1>3, <2>2, <4>1
      <4> QED
        BY <2>2, <4>2 DEF ToldOf
    <3> QED
      BY <2>2, <3>1, <3>2 DEF ToldOf
  <2>4. CASE service[v] # "ended" /\ service'[v] = "ended"
    <3>1. output[current] \in Seq(Line)
      BY <2>2 DEF BridgeInv, Kinds
    <3>2. output'[current] = Append(output[current], <<"exited", v, current>>)
      BY <2>2, <2>4 DEF BridgeInv, Kinds
    <3>3. Len(output[current]) + 1 \in DOMAIN output'[current]
          /\ output'[current][Len(output[current]) + 1] = <<"exited", v, current>>
      BY <3>1, <3>2
    <3> QED
      BY <2>2, <3>3 DEF ToldOf
  <2> QED
    BY <2>2, <2>3, <2>4
<1>8. \A v \in Service : v \in listed => call[v] = "ok" /\ v \notin early /\ job'[v] # "none"
  BY CallsAreRequests DEF BridgeInv, Services
<1>9. Services'
  BY <1>5, <1>6, <1>7, <1>8 DEF Services, Leaving, listVars, sidecarVars
<1> QED
  BY <1>0, <1>1, <1>2, <1>9 DEF BridgeInv

\* A sidecar's own steps, and the end of a service.
LEMMA SidecarsKeep ==
  ASSUME BridgeInv, Shapes', NEW s \in Sidecar, Environment(s) \/ \E v \in Service : ServiceEnds(v)
  PROVE  BridgeInv'
<1> USE CallsAreRequests DEF jobVars
<1>0. /\ job \in [Call -> {"none", "begun", "done"}] /\ home \in [Call -> Sidecar \cup {None}]
      /\ unread \in [Sidecar -> SUBSET Request] /\ service \in [Service -> {"none", "alive", "ended"}]
      /\ output \in [Sidecar -> Seq(Line)] /\ \A v \in Service : service[v] = "none" <=> job[v] = "none"
  BY DEF BridgeInv, Shapes, Kinds, Services
<1> DEFINE Kept == UNCHANGED <<sidecarVars, call, listVars, loopVars, home>>
           Less == unread' \in [Sidecar -> SUBSET Request] /\ \A t \in Sidecar : unread'[t] \subseteq unread[t]
<1>1. ASSUME NEW m \in {"init", "ping"}, NEW kind \in {"ok", "error"}, Answer(s, m, kind) PROVE BridgeInv'
  <2>1. Kept /\ UNCHANGED <<service, job>> /\ unread' = [unread EXCEPT ![s] = @ \ {m}]
        /\ output' = [output EXCEPT ![s] = Append(@, <<kind, m, s>>)]
    BY <1>1 DEF Answer, Quiet, Say
  <2>2. Less
    BY <1>0, <2>1
  <2>3. <<kind, m, s>> \in Line
    BY DEF Line
  <2> QED
    BY <1>0, <2>1, <2>2, <2>3, EnvironmentKeeps
<1>2. ASSUME NEW c \in Call, Begin(s, c) PROVE BridgeInv'
  <2>1. Kept /\ UNCHANGED <<unread, output>> /\ job' = [job EXCEPT ![c] = "begun"] /\ c \in unread[s]
        /\ service' = IF c \in Service THEN [service EXCEPT ![c] = "alive"] ELSE service
    BY <1>2 DEF Begin, Quiet
  <2>2. Less
    BY <1>0, <2>1
  <2>3. <<"error", "init", s>> \in Line
    BY DEF Line
  <2>4. /\ service' \in [Service -> {"none", "alive", "ended"}]
        /\ \A v \in Service : service'[v] = "none" <=> job'[v] = "none"
        /\ \A v \in Service : service'[v] = "ended" => service[v] = "ended"
    BY <1>0, <2>1
  <2> QED
    BY <1>0, <2>1, <2>2, <2>3, <2>4, EnvironmentKeeps, SMTT(30)
<1>3. ASSUME NEW c \in Call, Finish(s, c) PROVE BridgeInv'
  <2>1. Kept /\ UNCHANGED service /\ job' = [job EXCEPT ![c] = "done"] /\ c \in unread[s] /\ job[c] = "begun"
        /\ unread' = [unread EXCEPT ![s] = @ \ {c}] /\ output' = [output EXCEPT ![s] = Append(@, <<"ok", c, s>>)]
    BY <1>3 DEF Finish, Quiet, Say
  <2>2. Less
    BY <1>0, <2>1
  <2>3. <<"ok", c, s>> \in Line
    BY DEF Line
  <2>4. \A v \in Service : service'[v] = "none" <=> job'[v] = "none"
    BY <1>0, <2>1
  <2>5. /\ job'[c] = "done"
        /\ \A d \in Call : job'[d] # job[d] => d \in unread[s]
        /\ \A d \in Call : job[d] # "none" => job'[d] # "none"
    BY <1>0, <2>1
  <2>6. PICK l : l = <<"ok", c, s>>
    OBVIOUS
  <2>7. l \in Line /\ job'[l[2]] # "none" /\ output' = [output EXCEPT ![s] = Append(@, l)]
    BY <2>1, <2>3, <2>5, <2>6
  <2>8. /\ UNCHANGED <<sidecarVars, call, listVars, loopVars, home>> /\ UNCHANGED service
        /\ \A v \in Service : ~(service'[v] = "ended" /\ service[v] # "ended")
    BY <2>1
  <2> QED
    BY <1>0, <2>2, <2>4, <2>5, <2>7, <2>8, EnvironmentKeeps
<1>4. ASSUME NEW v \in Service, Refuse(s, v) PROVE BridgeInv'
  <2>1. Kept /\ UNCHANGED <<service, job>> /\ unread' = [unread EXCEPT ![s] = @ \ {v}]
        /\ output' = [output EXCEPT ![s] = Append(@, <<"error", v, s>>)]
    BY <1>4 DEF Refuse, Quiet, Say
  <2>2. Less
    BY <1>0, <2>1
  <2>3. <<"error", v, s>> \in Line
    BY DEF Line
  <2> QED
    BY <1>0, <2>1, <2>2, <2>3, EnvironmentKeeps
<1>5. CASE AnswerStop(s)
  <2>1. Kept /\ UNCHANGED <<service, job>> /\ unread' = [unread EXCEPT ![s] = @ \ {"stop"}]
        /\ output' = [output EXCEPT ![s] = Append(@, <<"ok", "stop", s>>)]
    BY <1>5 DEF AnswerStop, Quiet, Say
  <2>2. Less
    BY <1>0, <2>1
  <2>3. <<"ok", "stop", s>> \in Line
    BY DEF Line
  <2> QED
    BY <1>0, <2>1, <2>2, <2>3, EnvironmentKeeps
<1>6. CASE Leave(s) \/ Die(s) \/ \E how \in {"bad", "zero", "wedged"} : Fails(s, how)
  <2>1. Kept /\ UNCHANGED <<service, job, output>> /\ unread' = [unread EXCEPT ![s] = {}]
    BY <1>6 DEF Leave, Die, Fails, Falls, Quiet
  <2>2. Less
    BY <1>0, <2>1
  <2>3. <<"error", "init", s>> \in Line
    BY DEF Line
  <2> QED
    BY <1>0, <2>1, <2>2, <2>3, EnvironmentKeeps
<1>7. ASSUME NEW v \in Service, ServiceEnds(v) PROVE BridgeInv'
  <2>1. Kept /\ UNCHANGED <<unread, job>> /\ service[v] = "alive" /\ service' = [service EXCEPT ![v] = "ended"]
        /\ output' = [output EXCEPT ![home[v]] = Append(@, <<"exited", v, home[v]>>)]
    BY <1>7 DEF ServiceEnds, Quiet, Say
  <2>2. Less
    BY <1>0, <2>1
  <2>5. /\ service' \in [Service -> {"none", "alive", "ended"}]
        /\ \A w \in Service : service'[w] = "none" <=> job'[w] = "none"
        /\ \A w \in Service : service'[w] = "ended" /\ service[w] # "ended" => w = v
    BY <1>0, <2>1
  <2>3. CASE home[v] \in Sidecar
    <3>1. <<"exited", v, home[v]>> \in Line
      BY <2>3 DEF Line
    <3> QED
      BY <1>0, <2>1, <2>2, <2>3, <2>5, <3>1, EnvironmentKeeps
  <2>4. CASE home[v] \notin Sidecar
    <3>1. output' = output /\ <<"error", "init", s>> \in Line
      BY <1>0, <2>1, <2>4 DEF Line
    <3> QED
      BY <1>0, <2>1, <2>2, <2>5, <3>1, EnvironmentKeeps
  <2> QED
    BY <2>3, <2>4
<1> QED
  BY <1>1, <1>2, <1>3, <1>4, <1>5, <1>6, <1>7 DEF Environment

-----------------------------------------------------------------------------
\* Taking the first of the continuations that are due.
LEMMA OneLess ==
  ASSUME Kinds, Once, woken # <<>>, woken' = Tail(woken)
  PROVE  /\ woken' \in Seq(Line) /\ Head(woken) \in Line /\ Woken(Head(woken)[2])
         /\ Truthful(woken) /\ job' = job => Truthful(woken)'
         /\ \A i \in DOMAIN woken' : i + 1 \in DOMAIN woken /\ woken'[i] = woken[i + 1]
         /\ \A i, j \in DOMAIN woken' : woken'[i][2] = woken'[j][2] => i = j
         /\ \A m : Woken(m)' <=> Woken(m) /\ m # Head(woken)[2]
<1>0. woken \in Seq(Line) /\ DOMAIN woken = 1 .. Len(woken) /\ Len(woken) \in Nat \ {0}
  BY DEF Kinds
<1>1. woken' \in Seq(Line) /\ DOMAIN woken' = 1 .. Len(woken) - 1 /\ Head(woken) = woken[1] /\ Head(woken) \in Line
  BY <1>0
<1>2. \A i \in DOMAIN woken' : i + 1 \in DOMAIN woken /\ woken'[i] = woken[i + 1]
  BY <1>0, <1>1
<1>3. \A i, j \in DOMAIN woken' : woken'[i][2] = woken'[j][2] => i = j
  <2> SUFFICES ASSUME NEW i \in DOMAIN woken', NEW j \in DOMAIN woken', woken'[i][2] = woken'[j][2] PROVE i = j
    OBVIOUS
  <2>1. i + 1 = j + 1
    BY <1>2 DEF Once
  <2> QED
    BY <1>1, <2>1
<1>4. ASSUME NEW m PROVE Woken(m)' <=> Woken(m) /\ m # Head(woken)[2]
  <2>1. ASSUME Woken(m)' PROVE Woken(m) /\ m # Head(woken)[2]
    <3>1. PICK i \in DOMAIN woken' : woken'[i][2] = m
      BY <2>1 DEF Woken
    <3>2. i + 1 \in DOMAIN woken /\ woken[i + 1][2] = m /\ i + 1 # 1 /\ 1 \in DOMAIN woken
      BY <1>0, <1>1, <1>2, <3>1
    <3> QED
      BY <1>1, <3>2 DEF Once, Woken
  <2>2. ASSUME Woken(m), m # Head(woken)[2] PROVE Woken(m)'
    <3>1. PICK i \in DOMAIN woken : woken[i][2] = m
      BY <2>2 DEF Woken
    <3>2. i - 1 \in DOMAIN woken' /\ woken'[i - 1] = woken[i]
      BY <1>0, <1>1, <2>2, <3>1
    <3> QED
      BY <3>1, <3>2 DEF Woken
  <2> QED
    BY <2>1, <2>2
<1>5. Woken(Head(woken)[2])
  BY <1>0, <1>1 DEF Woken
<1>6. ASSUME Truthful(woken), job' = job PROVE Truthful(woken)'
  BY <1>2, <1>6 DEF Truthful
<1> QED
  BY <1>1, <1>2, <1>3, <1>4, <1>5, <1>6

\* A teardown answers everybody who waited, save those whose answer is due,
\* and leaves no service but those of a sidecar that was told to stop.
LEMMA TeardownKeeps ==
  ASSUME BridgeInv, Shapes', NEW s \in Sidecar, s = current, NEW r, NEW n, Teardown(s, r, n),
         UNCHANGED <<chunk, unread, service, job, home>>,
         closing' \in [Sidecar -> BOOLEAN], \A t \in Sidecar : closing[t] => closing'[t],
         \/ woken = <<>> /\ woken' = woken
         \/ woken # <<>> /\ woken' = Tail(woken) /\ Head(woken)[2] \in {"init", "stop"}
  PROVE  BridgeInv'
<1> USE CallsAreRequests
<1>0. /\ woken' \in Seq(Line) /\ Truthful(woken)' /\ \A m : Woken(m)' => Woken(m)
      /\ \A i, j \in DOMAIN woken' : woken'[i][2] = woken'[j][2] => i = j
      /\ \A c \in Call : Woken(c)' <=> Woken(c)
  <2>1. CASE woken = <<>> /\ woken' = woken
    BY <2>1 DEF BridgeInv, Kinds, Once, Services, Woken, Truthful
  <2>2. CASE woken # <<>> /\ woken' = Tail(woken) /\ Head(woken)[2] \in {"init", "stop"}
    <3>1. Kinds /\ Once /\ Truthful(woken)
      BY DEF BridgeInv, Services
    <3> QED
      BY <2>2, <3>1, OneLess
  <2> QED
    BY <2>1, <2>2
<1>1. /\ current' = None /\ starter' = None /\ \A t \in Sidecar : phase'[t] \notin {"starting", "ready"}
      /\ pending' \in [Sidecar -> SUBSET Request] /\ \A t \in Sidecar : pending'[t] = {}
  BY DEF Teardown, BridgeInv, Shapes, Kinds
<1>2. ~Woken("init")' /\ ~Woken("stop")'
  <2>1. CASE woken = <<>> /\ woken' = woken
    BY <2>1 DEF Woken
  <2>2. CASE woken # <<>> /\ woken' = Tail(woken) /\ Head(woken)[2] \in {"init", "stop"}
    <3>1. Woken(Head(woken)[2]) /\ \A m : Woken(m)' <=> Woken(m) /\ m # Head(woken)[2]
      BY <2>2, OneLess DEF BridgeInv
    <3>2. Woken("init") => ~Woken("stop")
      BY DEF BridgeInv, Starting, Woken
    <3> QED
      BY <2>2, <3>1, <3>2
  <2> QED
    BY <2>1, <2>2
<1>3. \A c \in Call : /\ call'[c] = IF starter = c THEN "node" ELSE IF c \in pending[s] THEN Rejected(c) ELSE call[c]
                      /\ Rejected(c) \in {"failed", "node"}
  BY DEF Teardown, RejectAll, Rejected
<1>4. Starting'
  <2>1. \A c \in Call : call'[c] # "starting"
    BY <1>3 DEF BridgeInv, Starting
  <2> QED
    BY <1>1, <1>2, <2>1 DEF Starting
<1>5. Stopping' /\ Once'
  BY <1>0, <1>1, <1>2 DEF Stopping, Once
<1>6. Waiting'
  <2> SUFFICES ASSUME NEW c \in Call
               PROVE  /\ call'[c] = "waiting" <=> Woken(c)
                      /\ \A t \in Sidecar : c \in unread[t] => home[c] = t
                      /\ call'[c] \in {"new", "starting"} => job[c] = "none" /\ \A t \in Sidecar : c \notin unread[t]
    BY <1>0, <1>1 DEF Waiting
  <2>1. Woken(c) => c \notin pending[s]
    BY DEF BridgeInv, Once, Woken
  <2>2. call[c] = "waiting" <=> c \in pending[s] \/ Woken(c)
    BY DEF BridgeInv, Waiting, Shapes
  <2>3. starter = c <=> call[c] = "starting"
    BY DEF BridgeInv, Starting
  <2> QED
    BY <1>3, <2>1, <2>2, <2>3 DEF BridgeInv, Waiting
<1>7. Kinds'
  <2>1. \A q \in Seq(Line) : Exits(q) \in Seq(Line)
    BY ExitsAreLines
  <2>2. output' \in [Sidecar -> Seq(Line)]
    BY <2>1 DEF Teardown, BridgeInv, Kinds
  <2>3. listed' \subseteq Service /\ early' \subseteq Service
    BY DEF Teardown, Disconnected, listVars, BridgeInv, Kinds
  <2> QED
    BY <1>0, <1>1, <2>2, <2>3 DEF BridgeInv, Kinds
<1>8. \A t \in Sidecar : Truthful(output[t])'
  <2> SUFFICES ASSUME NEW t \in Sidecar, NEW i \in DOMAIN output'[t],
                      output'[t][i][1] = "ok", output'[t][i][2] \in Service
               PROVE  job[output'[t][i][2]] # "none"
    BY DEF Truthful
  <2>1. output[s] \in Seq(Line) /\ output'[t] = IF t = s THEN Exits(output[s]) ELSE output[t]
    BY DEF Teardown, BridgeInv, Kinds
  <2>2. t # s
    BY <2>1, ExitsAreLines
  <2> QED
    BY <2>1, <2>2 DEF BridgeInv, Services, Truthful
<1>9. ASSUME NEW v \in Service
      PROVE  /\ v \in listed' => call'[v] = "ok" /\ v \notin early' /\ job'[v] # "none"
             /\ call'[v] = "waiting" \/ v \in listed' => Leaving(v)'
  <2>1. v \in listed' => v \in listed /\ v \notin early /\ v \notin early' /\ phase[s] # "ready"
    BY DEF Teardown, Disconnected, listVars, BridgeInv, Services
  <2>2. v \in listed => call[v] = "ok" /\ job[v] # "none" /\ starter # v /\ v \notin pending[s]
    BY DEF BridgeInv, Services, Starting, Waiting
  <2>3. call'[v] = "waiting" => call[v] = "waiting" /\ Woken(v) /\ woken # <<>>
    <3>1. CASE woken = <<>>
      BY <1>3, <3>1 DEF BridgeInv, Waiting, Woken
    <3> QED
      BY <1>3, <3>1 DEF BridgeInv, Waiting
  <2>4. call'[v] = "waiting" => closing[s] \/ phase[s] = "starting"
    <3>1. CASE Head(woken)[2] = "init" /\ woken # <<>> /\ woken' = Tail(woken)
      <4>1. Woken("init")
        BY <3>1, OneLess DEF BridgeInv
      <4> QED
        BY <4>1 DEF BridgeInv, Starting
    <3>2. CASE Head(woken)[2] = "stop" /\ woken # <<>> /\ woken' = Tail(woken)
      <4>1. Woken("stop")
        BY <3>2, OneLess DEF BridgeInv
      <4> QED
        BY <4>1 DEF BridgeInv, Stopping
    <3> QED
      BY <2>3, <3>1, <3>2
  <2>5. call[v] = "waiting" \/ v \in listed => Leaving(v) \/ (phase[s] = "ready" /\ home[v] = s)
    BY DEF BridgeInv, Services, Served
  <2>6. call'[v] = "waiting" \/ v \in listed' => Leaving(v)
    BY <2>1, <2>3, <2>4, <2>5 DEF Leaving
  <2>7. Leaving(v) => Leaving(v)'
    BY DEF Leaving
  <2> QED
    BY <1>3, <2>1, <2>2, <2>6, <2>7
<1>10. Services'
  BY <1>0, <1>8, <1>9 DEF Services, BridgeInv, Truthful
<1> QED
  BY <1>4, <1>5, <1>6, <1>7, <1>10 DEF BridgeInv

-----------------------------------------------------------------------------
\* A step between two turns that asks or withdraws nothing but a heartbeat or a stop.
LEMMA OthersKeep ==
  ASSUME BridgeInv, Shapes', woken = <<>>,
         UNCHANGED <<woken, current, phase, starter, call, job, home, service, chunk, output, listed, early>>,
         closing' \in [Sidecar -> BOOLEAN], \A t \in Sidecar : closing[t] => closing'[t],
         pending' \in [Sidecar -> SUBSET Request], unread' \in [Sidecar -> SUBSET Request],
         \A t \in Sidecar : \A m \in Call \cup {"init"} :
            (m \in pending'[t] <=> m \in pending[t]) /\ (m \in unread'[t] <=> m \in unread[t]),
         \A t \in Sidecar : phase[t] = "starting" => pending'[t] \subseteq pending[t],
         \A t \in Sidecar : "stop" \in pending'[t] => closing'[t]
  PROVE  BridgeInv'
<1> USE CallsAreRequests
<1>1. Kinds'
  BY DEF BridgeInv, Kinds
<1>2. Starting' /\ Stopping' /\ Once'
  BY DEF BridgeInv, Starting, Stopping, Once, Woken
<1>3. Waiting'
  <2> SUFFICES ASSUME NEW c \in Call
               PROVE  /\ call[c] = "waiting" <=> current # None /\ c \in pending'[current]
                      /\ \A t \in Sidecar : c \in pending'[t] \cup unread'[t] => home[c] = t
                      /\ call[c] \in {"new", "starting"} => job[c] = "none" /\ \A t \in Sidecar : c \notin unread'[t]
    BY DEF Waiting, Woken
  <2>1. ~Woken(c)
    BY DEF Woken
  <2> QED
    BY <2>1 DEF BridgeInv, Waiting, Shapes
<1>4. \A v \in Service : (Leaving(v) => Leaving(v)') /\ (Served(v) => Served(v)') /\ (ToldOf(v) => ToldOf(v)')
  BY DEF Leaving, Served, ToldOf
<1>5. Services'
  BY <1>4 DEF BridgeInv, Services, Truthful
<1> QED
  BY <1>1, <1>2, <1>3, <1>5 DEF BridgeInv

\* One call gets its answer, or is declined.
LEMMA SettledKeeps ==
  ASSUME BridgeInv, Shapes', NEW c \in Call, call[c] \in {"new", "waiting"},
         NEW k \in {"ok", "failed", "node"}, call' = [call EXCEPT ![c] = k],
         pending' \in [Sidecar -> SUBSET Request], \A t \in Sidecar : pending'[t] = pending[t] \ {c},
         woken' \in Seq(Line), Truthful(woken)', \A m : Woken(m)' <=> Woken(m) /\ m # c,
         \A i, j \in DOMAIN woken' : woken'[i][2] = woken'[j][2] => i = j,
         UNCHANGED <<current, phase, starter, closing, unread, job, home, service, chunk, output>>,
         listed' \subseteq Service, early' \subseteq Service,
         \A v \in Service \ {c} : (v \in listed' <=> v \in listed) /\ (v \in early' <=> v \in early),
         c \in listed' => c \in Service /\ k = "ok" /\ call[c] = "waiting" /\ c \notin early /\ early' = early /\ job[c] # "none"
  PROVE  BridgeInv'
<1> USE CallsAreRequests
<1>0. \A d \in Call : call'[d] = IF d = c THEN k ELSE call[d]
  BY DEF BridgeInv, Shapes
<1>1. Kinds'
  BY DEF BridgeInv, Kinds
<1>2. Starting'
  <2>1. \A d \in Call : call'[d] = "starting" <=> starter = d
    BY <1>0 DEF BridgeInv, Starting
  <2>2. \A i \in DOMAIN woken' : Woken(woken'[i][2])
    BY DEF Woken
  <2>3. starter # None => \A i \in DOMAIN woken' : woken'[i][2] = "init"
    BY <2>2 DEF BridgeInv, Starting, Woken
  <2> QED
    BY <2>1, <2>3 DEF BridgeInv, Starting
<1>3. Stopping'
  BY DEF BridgeInv, Stopping
<1>4. Once'
  <2>1. \A i \in DOMAIN woken' : Woken(woken'[i][2])
    BY DEF Woken
  <2> QED
    BY <2>1 DEF BridgeInv, Once, Woken
<1>5. Waiting'
  <2> SUFFICES ASSUME NEW d \in Call
               PROVE  /\ call'[d] = "waiting" <=> (current # None /\ d \in pending'[current]) \/ (Woken(d) /\ d # c)
                      /\ \A t \in Sidecar : d \in pending'[t] \cup unread[t] => home[d] = t
                      /\ call'[d] \in {"new", "starting"} => job[d] = "none" /\ \A t \in Sidecar : d \notin unread[t]
    BY DEF Waiting
  <2> QED
    BY <1>0 DEF BridgeInv, Waiting, Shapes
<1>6. \A v \in Service : (Leaving(v) => Leaving(v)') /\ (Served(v) => Served(v)')
  BY DEF Leaving, Served
<1>7. \A v \in Service : (v \in early => v \in early') /\ ToldOf(v) => ToldOf(v)'
  BY DEF ToldOf
<1>8. ASSUME NEW v \in Service
      PROVE  /\ v \in listed' => call'[v] = "ok" /\ v \notin early' /\ job'[v] # "none"
             /\ call'[v] = "waiting" \/ v \in listed' => Leaving(v)' \/ (Served(v)' /\ (service'[v] = "ended" => ToldOf(v)'))
  <2>1. /\ v \in listed => call[v] = "ok" /\ v \notin early /\ job[v] # "none"
        /\ call[v] = "waiting" \/ v \in listed => Leaving(v) \/ (Served(v) /\ (service[v] = "ended" => ToldOf(v)))
    BY DEF BridgeInv, Services
  <2>2. CASE v = c
    BY <1>0, <1>6, <1>7, <2>1, <2>2
  <2>3. CASE v # c
    BY <1>0, <1>6, <1>7, <2>1, <2>3
  <2> QED
    BY <2>2, <2>3
<1>9. Services'
  <2>1. \A t \in Sidecar : Truthful(output[t])'
    BY DEF BridgeInv, Services, Truthful
  <2>2. Truthful(chunk)'
    BY DEF BridgeInv, Services, Truthful
  <2>3. \A v \in Service : service'[v] = "none" <=> job'[v] = "none"
    BY DEF BridgeInv, Services
  <2> QED
    BY <1>8, <2>1, <2>2, <2>3 DEF Services
<1> QED
  BY <1>1, <1>2, <1>3, <1>4, <1>5, <1>9 DEF BridgeInv

\* A runtime that is ready is asked, by a new caller or by the one that started it.
LEMMA DispatchKeeps ==
  ASSUME BridgeInv, Shapes', NEW s \in Sidecar, s = current, current' = current, starter' = None,
         phase' = [phase EXCEPT ![s] = "ready"], NEW c \in Call \cup {Boot}, starter \in {None, c},
         \/ c \in Call /\ call[c] \in {"new", "starting"} /\ Dispatch(c, s)
         \/ c = Boot /\ UNCHANGED <<call, pending, unread, home>>,
         \A d \in Call : ~Woken(d), woken' \in Seq(Line), \A m : ~Woken(m)', "init" \notin pending[s],
         UNCHANGED <<closing, listed, early, chunk, output, service, job>>
  PROVE  BridgeInv'
<1> USE CallsAreRequests
<1>0. /\ pending' \in [Sidecar -> SUBSET Request] /\ unread' \in [Sidecar -> SUBSET Request]
      /\ \A t \in Sidecar : /\ pending[t] \subseteq pending'[t] /\ pending'[t] \subseteq pending[t] \cup {c}
                            /\ unread'[t] \subseteq unread[t] \cup {c}
                            /\ c = Boot => unread'[t] = unread[t] /\ pending'[t] = pending[t]
                            /\ t # s => pending'[t] = pending[t] /\ unread'[t] = unread[t]
      /\ home' \in [Call -> Sidecar \cup {None}] /\ \A d \in Call \ {c} : home'[d] = home[d] /\ call'[d] = call[d]
      /\ c \in Call => \/ call'[c] = "waiting" /\ home'[c] = s /\ c \in pending'[s]
                       \/ call'[c] = "node" /\ c \notin unread'[s] /\ pending' = pending /\ unread' = unread /\ home' = home
  <2>1. CASE c = Boot /\ UNCHANGED <<call, pending, unread, home>>
    BY <2>1 DEF BridgeInv, Kinds
  <2>2. CASE c \in Call /\ Send(s, c) /\ call' = [call EXCEPT ![c] = "waiting"] /\ home' = [home EXCEPT ![c] = s]
    BY <2>2 DEF Send, BridgeInv, Kinds, Shapes
  <2>3. CASE c \in Call /\ call[c] \in {"new", "starting"} /\ Decline(c) /\ UNCHANGED <<pending, unread, home>>
    BY <2>3 DEF Decline, BridgeInv, Kinds, Shapes, Waiting
  <2> QED
    BY <2>1, <2>2, <2>3 DEF Dispatch
<1>1. \A i : i \notin DOMAIN woken'
  BY DEF Woken
<1>2. c \in Call => /\ call[c] \in {"new", "starting"} /\ c \notin pending[s] /\ job[c] = "none"
                    /\ \A t \in Sidecar : c \notin unread[t] /\ c \notin pending[t]
  BY DEF BridgeInv, Waiting, Shapes
<1>3. Kinds'
  BY <1>0 DEF BridgeInv, Kinds
<1>4. Starting'
  <2>1. \A d \in Call : call'[d] # "starting"
    BY <1>0 DEF BridgeInv, Starting
  <2>2. \A t \in Sidecar : phase'[t] # "starting" /\ "init" \notin pending'[t]
    BY <1>0 DEF BridgeInv, Starting, Shapes
  <2> QED
    BY <1>1, <2>1, <2>2 DEF Starting, BridgeInv, Shapes
<1>5. Stopping'
  BY <1>0 DEF BridgeInv, Stopping
<1>6. Once'
  BY <1>1 DEF Once
<1>7. Waiting'
  <2> SUFFICES ASSUME NEW d \in Call
               PROVE  /\ call'[d] = "waiting" <=> d \in pending'[s]
                      /\ \A t \in Sidecar : d \in pending'[t] \cup unread'[t] => home'[d] = t
                      /\ call'[d] \in {"new", "starting"} => job[d] = "none" /\ \A t \in Sidecar : d \notin unread'[t]
    BY DEF Waiting
  <2>1. /\ call[d] = "waiting" <=> d \in pending[s]
        /\ \A t \in Sidecar : d \in pending[t] \cup unread[t] => home[d] = t
        /\ call[d] \in {"new", "starting"} => job[d] = "none" /\ \A t \in Sidecar : d \notin unread[t]
    BY DEF BridgeInv, Waiting
  <2>2. CASE d = c
    BY <1>0, <1>2, <2>2
  <2>3. CASE d # c
    BY <1>0, <2>1, <2>3
  <2> QED
    BY <2>2, <2>3
<1>8. ASSUME NEW v \in Service
      PROVE  /\ v \in listed => call'[v] = "ok" /\ v \notin early /\ job[v] # "none"
             /\ call'[v] = "waiting" \/ v \in listed => Leaving(v)' \/ (Served(v)' /\ (service[v] = "ended" => ToldOf(v)'))
  <2>1. /\ v \in listed => call[v] = "ok" /\ v \notin early /\ job[v] # "none"
        /\ call[v] = "waiting" \/ v \in listed => Leaving(v) \/ (Served(v) /\ (service[v] = "ended" => ToldOf(v)))
        /\ service[v] = "none" <=> job[v] = "none"
    BY DEF BridgeInv, Services
  <2>2. CASE v = c
    <3>1. v \notin listed /\ service[v] # "ended"
      BY <1>2, <2>1, <2>2
    <3>2. call'[v] = "waiting" => Served(v)'
      BY <1>0, <2>2 DEF Served, BridgeInv, Shapes
    <3> QED
      BY <3>1, <3>2
  <2>3. CASE v # c
    <3>1. call'[v] = call[v] /\ home'[v] = home[v]
      BY <1>0, <2>3
    <3>2. (Leaving(v) => Leaving(v)') /\ (Served(v) => Served(v)') /\ (ToldOf(v) => ToldOf(v)')
      BY <3>1 DEF Leaving, Served, ToldOf, BridgeInv, Shapes
    <3> QED
      BY <2>1, <3>1, <3>2
  <2> QED
    BY <2>2, <2>3
<1>9. Services'
  <2>1. (\A t \in Sidecar : Truthful(output[t])') /\ Truthful(chunk)' /\ Truthful(woken)'
    BY <1>1 DEF BridgeInv, Services, Truthful
  <2> QED
    BY <1>8, <2>1 DEF Services, BridgeInv
<1> QED
  BY <1>3, <1>4, <1>5, <1>6, <1>7, <1>9 DEF BridgeInv

\* A start: nobody waits, and every service in the list is of a sidecar that was stopped.
LEMMA StartKeeps ==
  ASSUME BridgeInv, Shapes', NEW s \in Sidecar, NEW by \in Call \cup {Boot}, NEW born, Start(s, by, born),
         \/ by \in Call /\ call[by] = "new" /\ call' = [call EXCEPT ![by] = "starting"]
         \/ by = Boot /\ call' = call
  PROVE  BridgeInv'
<1> USE CallsAreRequests
<1>0. /\ current = None /\ woken = <<>> /\ current' = s /\ starter' = by /\ by # None
      /\ phase' = [phase EXCEPT ![s] = "starting"] /\ pending' = [pending EXCEPT ![s] = {"init"}]
      /\ unread' = [unread EXCEPT ![s] = {"init"}]
      /\ UNCHANGED <<closing, listed, early, chunk, woken, output, service, job, home>>
  BY DEF Start, MayStart, Idle, listVars, loopVars, jobVars
<1>1. Kinds'
  BY <1>0 DEF BridgeInv, Kinds
<1>2. \A d \in Call : call'[d] = IF d = by THEN "starting" ELSE call[d]
  BY DEF BridgeInv, Shapes
<1>3. \A d \in Call : call[d] # "starting" /\ call[d] # "waiting"
  BY <1>0 DEF BridgeInv, Starting, Waiting, Woken
<1>4. \A t \in Sidecar : pending[t] = {} /\ phase[t] \notin {"starting", "ready"} /\ pending'[t] = IF t = s THEN {"init"} ELSE {}
  BY <1>0, ZenonT(30) DEF BridgeInv, Shapes
<1>5. Starting' /\ Stopping' /\ Once'
  BY <1>0, <1>2, <1>3, <1>4 DEF Starting, Stopping, Once, Woken, BridgeInv, Shapes
<1>6. Waiting'
  <2> SUFFICES ASSUME NEW d \in Call
               PROVE  /\ call'[d] # "waiting"
                      /\ \A t \in Sidecar : d \notin pending'[t] /\ (d \in unread'[t] => home[d] = t)
                      /\ call'[d] \in {"new", "starting"} => job[d] = "none" /\ \A t \in Sidecar : d \notin unread'[t]
    BY <1>0 DEF Waiting, Woken
  <2>1. \A t \in Sidecar : d \in unread'[t] => d \in unread[t]
    BY <1>0 DEF BridgeInv, Kinds
  <2>2. /\ \A t \in Sidecar : d \in unread[t] => home[d] = t
        /\ call[d] = "new" => job[d] = "none" /\ \A t \in Sidecar : d \notin unread[t]
    BY DEF BridgeInv, Waiting
  <2> QED
    BY <1>2, <1>3, <1>4, <2>1, <2>2
<1>7. ASSUME NEW v \in Service
      PROVE  /\ v \in listed => call'[v] = "ok" /\ v \notin early /\ job[v] # "none" /\ Leaving(v)'
             /\ call'[v] # "waiting"
  <2>1. v \in listed => Leaving(v) /\ call[v] = "ok" /\ v \notin early /\ job[v] # "none"
    BY <1>0 DEF BridgeInv, Services, Served
  <2> QED
    BY <1>0, <1>2, <1>3, <2>1 DEF Leaving
<1>8. Services'
  <2>1. (\A t \in Sidecar : Truthful(output[t])') /\ Truthful(chunk)' /\ Truthful(woken)'
    BY <1>0 DEF BridgeInv, Services, Truthful
  <2> QED
    BY <1>0, <1>7, <2>1 DEF Services, BridgeInv
<1> QED
  BY <1>1, <1>5, <1>6, <1>8 DEF BridgeInv

-----------------------------------------------------------------------------
\* What changes only the lines, the list and the early exits.
LEMMA LinesKeep ==
  ASSUME BridgeInv, UNCHANGED <<sidecarVars, call, woken, unread, home, job, service>>,
         chunk' \in Seq(Line), output' \in [Sidecar -> Seq(Line)], Truthful(chunk)',
         \A t \in Sidecar : Truthful(output[t])',
         listed' \subseteq listed, early' \subseteq Service,
         \A v \in Service : v \in listed' => v \notin early',
         \A v \in Service : v \notin listed \/ v \in listed' => (ToldOf(v) => ToldOf(v)')
  PROVE  Kinds' /\ Starting' /\ Stopping' /\ Once' /\ Waiting' /\ Services'
<1> USE CallsAreRequests DEF sidecarVars
<1>1. Kinds'
  BY DEF BridgeInv, Kinds
<1>2. Starting' /\ Stopping' /\ Once'
  BY DEF BridgeInv, Starting, Stopping, Once, Woken
<1>3. Waiting'
  BY DEF BridgeInv, Waiting, Woken
<1>4. \A v \in Service : (Leaving(v)' <=> Leaving(v)) /\ (Served(v)' <=> Served(v))
  BY DEF Leaving, Served
<1>5. ASSUME NEW v \in Service
      PROVE  /\ v \in listed' => call[v] = "ok" /\ v \notin early' /\ job[v] # "none"
             /\ call[v] = "waiting" \/ v \in listed' => Leaving(v)' \/ (Served(v)' /\ (service[v] = "ended" => ToldOf(v)'))
  <2>1. /\ v \in listed => call[v] = "ok" /\ v \notin early /\ job[v] # "none"
        /\ call[v] = "waiting" \/ v \in listed => Leaving(v) \/ (Served(v) /\ (service[v] = "ended" => ToldOf(v)))
    BY DEF BridgeInv, Services
  <2> QED
    BY <1>4, <2>1
<1>6. Truthful(woken)'
  BY DEF BridgeInv, Services, Truthful
<1>7. Services'
  BY <1>5, <1>6 DEF Services, BridgeInv
<1> QED
  BY <1>1, <1>2, <1>3, <1>7

LEMMA ReadKeeps ==
  ASSUME BridgeInv, Shapes', NEW s \in Sidecar, NEW n \in 1 .. Len(output[s]), Read(s, n)
  PROVE  BridgeInv'
<1> USE CallsAreRequests
<1>1. PICK q : q = output[s]
  OBVIOUS
<1>2. /\ q \in Seq(Line) /\ Len(q) \in Nat /\ n \in 1 .. Len(q) /\ chunk = <<>> /\ chunk' = SubSeq(q, 1, n)
      /\ output' = [output EXCEPT ![s] = SubSeq(q, n + 1, Len(q))]
      /\ UNCHANGED <<sidecarVars, call, listVars, woken, unread, home, job, service>>
  BY <1>1 DEF Read, Idle, BridgeInv, Kinds, jobVars
<1>3. /\ SubSeq(q, 1, n) \in Seq(Line) /\ DOMAIN SubSeq(q, 1, n) = 1 .. n
      /\ \A i \in 1 .. n : i \in DOMAIN q /\ SubSeq(q, 1, n)[i] = q[i]
  BY <1>2
<1>4. /\ SubSeq(q, n + 1, Len(q)) \in Seq(Line) /\ DOMAIN SubSeq(q, n + 1, Len(q)) = 1 .. Len(q) - n
      /\ \A i \in 1 .. Len(q) - n : i + n \in DOMAIN q /\ SubSeq(q, n + 1, Len(q))[i] = q[i + n]
  BY <1>2
<1>5. Truthful(q)
  BY <1>1 DEF BridgeInv, Services
<1>6. Truthful(chunk)'
  BY <1>2, <1>3, <1>5 DEF Truthful
<1>7. output' \in [Sidecar -> Seq(Line)] /\ \A t \in Sidecar : output'[t] = IF t = s THEN SubSeq(q, n + 1, Len(q)) ELSE output[t]
  BY <1>2, <1>4 DEF BridgeInv, Kinds
<1>8. ASSUME NEW t \in Sidecar PROVE Truthful(output[t])'
  <2>1. Truthful(output[t])
    BY DEF BridgeInv, Services
  <2> QED
    BY <1>2, <1>4, <1>5, <1>7, <2>1 DEF Truthful
<1>9. ASSUME NEW v \in Service, ToldOf(v) PROVE ToldOf(v)'
  <2>0. current' = current /\ early' = early
    BY <1>2 DEF sidecarVars, listVars
  <2>1. CASE v \in early
    BY <2>0, <2>1 DEF ToldOf
  <2>2. ~ \E i \in DOMAIN chunk : chunk[i] = <<"exited", v, current>>
    BY <1>2
  <2>3. ASSUME NEW i \in DOMAIN output[current], output[current][i] = <<"exited", v, current>> PROVE ToldOf(v)'
    <3>1. CASE current = s
      <4>1. CASE i <= n
        <5>1. i \in 1 .. n /\ q[i] = <<"exited", v, current>>
          BY <1>1, <1>2, <2>3, <3>1, <4>1
        <5> QED
          BY <1>2, <1>3, <2>0, <5>1 DEF ToldOf
      <4>2. CASE ~(i <= n)
        <5>1. i - n \in 1 .. Len(q) - n /\ i \in DOMAIN q /\ q[i] = <<"exited", v, current>> /\ (i - n) + n = i
          <6>1. i \in 1 .. Len(q) /\ q[i] = <<"exited", v, current>>
            BY <1>1, <1>2, <2>3, <3>1
          <6> QED
            BY <1>2, <4>2, <6>1
        <5>2. i - n \in DOMAIN output'[current] /\ output'[current][i - n] = <<"exited", v, current>>
          BY <1>4, <1>7, <3>1, <5>1
        <5> QED
          BY <2>0, <5>2 DEF ToldOf
      <4> QED
        BY <4>1, <4>2
    <3>2. CASE current # s
      <4>1. output'[current] = output[current]
        BY <1>2, <3>2 DEF BridgeInv, Kinds
      <4> QED
        BY <2>0, <2>3, <4>1 DEF ToldOf
    <3> QED
      BY <3>1, <3>2
  <2> QED
    BY <1>9, <2>1, <2>2, <2>3 DEF ToldOf
<1>10. listed' \subseteq listed /\ early' \subseteq Service /\ \A v \in Service : v \in listed' => v \notin early'
  BY <1>2 DEF listVars, BridgeInv, Kinds, Services
<1>11. chunk' \in Seq(Line)
  BY <1>2, <1>3
<1> QED
  BY <1>2, <1>6, <1>7, <1>8, <1>9, <1>10, <1>11, LinesKeep DEF BridgeInv

\* The rest of a chunk.
LEMMA OneLineLess ==
  ASSUME BridgeInv, chunk # <<>>, chunk' = Tail(chunk)
  PROVE  /\ chunk' \in Seq(Line) /\ Head(chunk) \in Line /\ \E i \in DOMAIN chunk : chunk[i] = Head(chunk)
         /\ job' = job => Truthful(chunk)'
         /\ \A i \in DOMAIN chunk : chunk[i] # Head(chunk) => \E j \in DOMAIN chunk' : chunk'[j] = chunk[i]
<1>0. chunk \in Seq(Line) /\ DOMAIN chunk = 1 .. Len(chunk) /\ Len(chunk) \in Nat \ {0}
  BY DEF BridgeInv, Kinds
<1>1. /\ chunk' \in Seq(Line) /\ DOMAIN chunk' = 1 .. Len(chunk) - 1 /\ Head(chunk) = chunk[1] /\ Head(chunk) \in Line
      /\ \A i \in DOMAIN chunk' : chunk'[i] = chunk[i + 1]
  BY <1>0
<1>2. ASSUME NEW i \in DOMAIN chunk, chunk[i] # Head(chunk) PROVE \E j \in DOMAIN chunk' : chunk'[j] = chunk[i]
  <2>1. i - 1 \in DOMAIN chunk' /\ (i - 1) + 1 = i
    BY <1>0, <1>1, <1>2
  <2> QED
    BY <1>1, <2>1
<1>3. ASSUME job' = job PROVE Truthful(chunk)'
  <2>1. Truthful(chunk)
    BY DEF BridgeInv, Services
  <2>2. \A i \in DOMAIN chunk' : i + 1 \in DOMAIN chunk /\ chunk'[i] = chunk[i + 1]
    BY <1>0, <1>1
  <2> QED
    BY <1>3, <2>1, <2>2 DEF Truthful
<1> QED
  BY <1>0, <1>1, <1>2, <1>3

LEMMA HandleExitedKeeps ==
  ASSUME BridgeInv, Shapes', HandleExited
  PROVE  BridgeInv'
<1> USE CallsAreRequests
<1>1. PICK line : line = Head(chunk)
  OBVIOUS
<1>2. /\ chunk # <<>> /\ chunk' = Tail(chunk) /\ line[1] = "exited"
      /\ UNCHANGED <<sidecarVars, call, woken, unread, home, job, service, output>>
      /\ IF line[2] \in listed THEN listed' = listed \ {line[2]} /\ early' = early
         ELSE listed' = listed /\ early' = early \cup {line[2]}
  BY <1>1 DEF HandleExited, Report, KeepEarly, processVars, jobVars
<1>3. line \in Line /\ chunk' \in Seq(Line) /\ Truthful(chunk)'
      /\ \A i \in DOMAIN chunk : chunk[i] # line => \E j \in DOMAIN chunk' : chunk'[j] = chunk[i]
  BY <1>1, <1>2, OneLineLess
<1>4. line[2] \in Service
  BY <1>2, <1>3 DEF Line
<1>5. listed' \subseteq listed /\ early' \subseteq Service /\ \A v \in Service : v \in listed' => v \notin early'
  BY <1>2, <1>4 DEF BridgeInv, Kinds, Services
<1>6. (\A t \in Sidecar : Truthful(output[t])') /\ output' \in [Sidecar -> Seq(Line)]
  BY <1>2 DEF BridgeInv, Kinds, Services, Truthful
<1>7. ASSUME NEW v \in Service, v \notin listed \/ v \in listed', ToldOf(v) PROVE ToldOf(v)'
  <2>0. current' = current /\ output' = output /\ early \subseteq early'
    BY <1>2 DEF sidecarVars
  <2>1. CASE v = line[2]
    <3>1. v \in early'
      BY <1>2, <1>7, <2>1
    <3> QED
      BY <3>1 DEF ToldOf
  <2>2. ASSUME v # line[2], NEW i \in DOMAIN chunk, chunk[i] = <<"exited", v, current>> PROVE ToldOf(v)'
    <3>1. chunk[i] # line
      BY <2>2
    <3>2. PICK j \in DOMAIN chunk' : chunk'[j] = chunk[i]
      BY <1>3, <3>1
    <3> QED
      BY <2>0, <2>2, <3>2 DEF ToldOf
  <2> QED
    BY <1>7, <2>0, <2>1, <2>2 DEF ToldOf
<1> QED
  BY <1>2, <1>3, <1>5, <1>6, <1>7, LinesKeep DEF BridgeInv

\* An answer wakes the request that waits for it, and no other.
LEMMA HandleReplyKeeps ==
  ASSUME BridgeInv, Shapes', HandleReply
  PROVE  BridgeInv'
<1> USE CallsAreRequests
<1>1. PICK line : line = Head(chunk)
  OBVIOUS
<1>2. PICK m, s : m = line[2] /\ s = line[3]
  OBVIOUS
<1>3. /\ chunk # <<>> /\ chunk' = Tail(chunk) /\ line[1] # "exited"
      /\ UNCHANGED <<current, phase, starter, closing, call, listed, early, unread, home, job, service, output>>
      /\ IF m \in pending[s] THEN pending' = [pending EXCEPT ![s] = @ \ {m}] /\ woken' = Append(woken, line)
         ELSE UNCHANGED <<pending, woken>>
  BY <1>1, <1>2 DEF HandleReply, listVars, processVars, jobVars
<1>4. line \in Line /\ chunk' \in Seq(Line) /\ Truthful(chunk)'
      /\ (\A i \in DOMAIN chunk : chunk[i] # line => \E j \in DOMAIN chunk' : chunk'[j] = chunk[i])
      /\ \E i \in DOMAIN chunk : chunk[i] = line
  BY <1>1, <1>3, OneLineLess
<1>5. m \in Request /\ s \in Sidecar
  BY <1>2, <1>3, <1>4 DEF Line
<1>6. \A v : ToldOf(v) => ToldOf(v)'
  <2> SUFFICES ASSUME NEW v, NEW i \in DOMAIN chunk, chunk[i] = <<"exited", v, current>> PROVE ToldOf(v)'
    BY <1>3 DEF ToldOf
  <2>1. chunk[i] # line
    BY <1>3
  <2>2. PICK j \in DOMAIN chunk' : chunk'[j] = chunk[i]
    BY <1>4, <2>1
  <2> QED
    BY <1>3, <2>2 DEF ToldOf
<1>7. (\A t \in Sidecar : Truthful(output[t])') /\ \A v \in Service : (Leaving(v) => Leaving(v)') /\ (Served(v) => Served(v)')
  BY <1>3 DEF BridgeInv, Services, Truthful, Leaving, Served
<1>8. CASE m \notin pending[s]
  <2>1. UNCHANGED <<pending, woken>>
    BY <1>3, <1>8
  <2>2. Kinds'
    BY <1>3, <1>4, <2>1 DEF BridgeInv, Kinds
  <2>3. Starting' /\ Stopping' /\ Once' /\ Waiting'
    BY <1>3, <2>1 DEF BridgeInv, Starting, Stopping, Once, Waiting, Woken
  <2>4. Truthful(woken)'
    BY <1>3, <2>1 DEF BridgeInv, Services, Truthful
  <2>5. Services'
    BY <1>3, <1>4, <1>6, <1>7, <2>4 DEF BridgeInv, Services
  <2> QED
    BY <2>2, <2>3, <2>5 DEF BridgeInv
<1>9. CASE m \in pending[s]
  <2>0. woken \in Seq(Line) /\ DOMAIN woken = 1 .. Len(woken) /\ Len(woken) \in Nat /\ woken' = Append(woken, line)
    BY <1>3, <1>9 DEF BridgeInv, Kinds
  <2>1. /\ woken' \in Seq(Line) /\ DOMAIN woken' = 1 .. Len(woken) + 1
        /\ woken'[Len(woken) + 1] = line /\ \A i \in DOMAIN woken : woken'[i] = woken[i]
    BY <1>4, <2>0
  <2>2. \A x : Woken(x)' <=> Woken(x) \/ x = m
    <3>1. ASSUME NEW x, Woken(x) PROVE Woken(x)'
      <4>1. PICK i \in DOMAIN woken : woken[i][2] = x
        BY <3>1 DEF Woken
      <4>2. i \in DOMAIN woken' /\ woken'[i][2] = x
        BY <2>0, <2>1, <4>1
      <4> QED
        BY <4>2 DEF Woken
    <3>2. Woken(m)'
      BY <1>2, <2>0, <2>1 DEF Woken
    <3>3. ASSUME NEW x, Woken(x)' PROVE Woken(x) \/ x = m
      <4>1. PICK i \in DOMAIN woken' : woken'[i][2] = x
        BY <3>3 DEF Woken
      <4>2. CASE i = Len(woken) + 1
        BY <1>2, <2>1, <4>1, <4>2
      <4>3. CASE i # Len(woken) + 1
        BY <2>0, <2>1, <4>1, <4>3 DEF Woken
      <4> QED
        BY <4>2, <4>3
    <3> QED
      BY <3>1, <3>2, <3>3
  <2>3. ~Woken(m) /\ s = current /\ \A t \in Sidecar : pending'[t] = IF t = s THEN pending[t] \ {m} ELSE pending[t]
    BY <1>3, <1>5, <1>9 DEF BridgeInv, Once, Woken, Shapes
  <2>11. pending' \in [Sidecar -> SUBSET Request]
    <3>1. pending \in [Sidecar -> SUBSET Request] /\ pending' = [pending EXCEPT ![s] = pending[s] \ {m}]
      BY <1>3, <1>9 DEF BridgeInv, Kinds
    <3> QED
      BY <3>1
  <2>4. Kinds'
    BY <1>3, <1>4, <2>1, <2>11 DEF BridgeInv, Kinds
  <2>5. Starting'
    <3>1. \A i \in DOMAIN woken' : woken'[i][2] = m \/ \E j \in DOMAIN woken : woken'[i] = woken[j]
      BY <1>2, <2>0, <2>1
    <3>2. /\ starter # None => phase[s] = "starting" /\ \A i \in DOMAIN woken : woken[i][2] = "init"
          /\ phase[s] = "starting" => m = "init" /\ starter # None
          /\ m = "init" => phase[s] = "starting"
      BY <1>5, <1>9, <2>3 DEF BridgeInv, Starting
    <3>3. starter # None => \A i \in DOMAIN woken' : woken'[i][2] = "init"
      BY <3>1, <3>2
    <3>4. Woken("init")' => starter # None
      BY <2>2, <3>2 DEF BridgeInv, Starting
    <3>5. \A t \in Sidecar : phase[t] = "starting" => pending'[t] \subseteq {"init"}
      <4>1. \A t \in Sidecar : phase[t] = "starting" => pending[t] \subseteq {"init"}
        BY DEF BridgeInv, Starting
      <4>2. \A t \in Sidecar : pending'[t] \subseteq pending[t]
        BY <2>3
      <4> QED
        BY <4>1, <4>2
    <3>7. \A t \in Sidecar : "init" \in pending'[t] => phase[t] = "starting"
      BY <2>3 DEF BridgeInv, Starting
    <3>6. /\ starter # None <=> (current # None /\ phase[current] = "starting")
          /\ \A c \in Call : call[c] = "starting" <=> starter = c
      BY DEF BridgeInv, Starting
    <3> QED
      BY <1>3, <3>3, <3>4, <3>5, <3>6, <3>7 DEF Starting
  <2>6. Stopping'
    BY <1>3, <1>5, <1>9, <2>2, <2>3 DEF BridgeInv, Stopping
  <2>7. Once'
    <3>1. \A i \in DOMAIN woken : woken[i][2] # m
      BY <2>3 DEF Woken
    <3>2. \A i, j \in DOMAIN woken' : woken'[i][2] = woken'[j][2] => i = j
      <4> SUFFICES ASSUME NEW i \in DOMAIN woken', NEW j \in DOMAIN woken', woken'[i][2] = woken'[j][2] PROVE i = j
        OBVIOUS
      <4>1. i \in DOMAIN woken \/ (i = Len(woken) + 1 /\ woken'[i][2] = m)
        BY <1>2, <2>0, <2>1
      <4>2. j \in DOMAIN woken \/ (j = Len(woken) + 1 /\ woken'[j][2] = m)
        BY <1>2, <2>0, <2>1
      <4>3. CASE i \in DOMAIN woken /\ j \in DOMAIN woken
        BY <2>1, <4>3 DEF BridgeInv, Once
      <4> QED
        BY <2>1, <3>1, <4>1, <4>2, <4>3
    <3>3. \A t \in Sidecar, i \in DOMAIN woken' : woken'[i][2] \notin pending'[t]
      <4> SUFFICES ASSUME NEW t \in Sidecar, NEW i \in DOMAIN woken' PROVE woken'[i][2] \notin pending'[t]
        OBVIOUS
      <4>1. CASE i \in DOMAIN woken
        BY <2>1, <2>3, <4>1 DEF BridgeInv, Once
      <4>2. CASE woken'[i][2] = m
        BY <2>3, <4>2 DEF BridgeInv, Shapes
      <4> QED
        BY <1>2, <2>0, <2>1, <4>1, <4>2
    <3> QED
      BY <3>2, <3>3 DEF Once
  <2>8. Waiting'
    <3> SUFFICES ASSUME NEW c \in Call
                 PROVE  /\ call[c] = "waiting" <=> (current # None /\ c \in pending'[current]) \/ Woken(c) \/ c = m
                        /\ \A t \in Sidecar : c \in pending'[t] \cup unread[t] => home[c] = t
                        /\ call[c] \in {"new", "starting"} => job[c] = "none" /\ \A t \in Sidecar : c \notin unread[t]
      BY <1>3, <2>2 DEF Waiting
    <3>1. current # None /\ pending'[current] = pending[current] \ {m} /\ m \in pending[current]
      BY <1>5, <1>9, <2>3
    <3> QED
      BY <2>3, <3>1 DEF BridgeInv, Waiting
  <2>9. Truthful(woken)'
    <3>1. Truthful(woken) /\ Truthful(chunk)
      BY DEF BridgeInv, Services
    <3>2. line[1] = "ok" /\ line[2] \in Service => job[line[2]] # "none"
      BY <1>4, <3>1 DEF Truthful
    <3>3. \A i \in DOMAIN woken' : woken'[i] = line \/ (i \in DOMAIN woken /\ woken'[i] = woken[i])
      BY <2>0, <2>1
    <3> QED
      BY <1>3, <3>1, <3>2, <3>3 DEF Truthful
  <2>10. Services'
    BY <1>3, <1>4, <1>6, <1>7, <2>9 DEF BridgeInv, Services
  <2> QED
    BY <2>4, <2>5, <2>6, <2>7, <2>8, <2>10 DEF BridgeInv
<1> QED
  BY <1>8, <1>9

LEMMA PongKeeps ==
  ASSUME BridgeInv, Shapes', Pong
  PROVE  BridgeInv'
<1> USE CallsAreRequests
<1>1. /\ woken # <<>> /\ woken' = Tail(woken) /\ Head(woken)[2] = "ping"
      /\ UNCHANGED <<sidecarVars, call, listed, early, chunk, unread, home, job, service, output>>
  BY DEF Pong, Due, listVars, processVars, jobVars
<1>2. /\ woken' \in Seq(Line) /\ Truthful(woken)' /\ \A m : Woken(m)' <=> Woken(m) /\ m # "ping"
      /\ \A i, j \in DOMAIN woken' : woken'[i][2] = woken'[j][2] => i = j
  BY <1>1, OneLess DEF BridgeInv, Services
<1>3. \A i \in DOMAIN woken' : Woken(woken'[i][2])
  BY <1>2 DEF Woken
<1>4. Kinds'
  BY <1>1, <1>2 DEF BridgeInv, Kinds, sidecarVars
<1>5. Starting' /\ Stopping' /\ Once'
  <2>1. starter # None => \A i \in DOMAIN woken' : woken'[i][2] = "init"
    BY <1>3 DEF BridgeInv, Starting, Woken
  <2>2. \A t \in Sidecar, i \in DOMAIN woken' : woken'[i][2] \notin pending[t]
    BY <1>3 DEF BridgeInv, Once, Woken
  <2> QED
    BY <1>1, <1>2, <2>1, <2>2 DEF BridgeInv, Starting, Stopping, Once, sidecarVars
<1>6. Waiting'
  BY <1>1, <1>2 DEF BridgeInv, Waiting, sidecarVars
<1>7. Services'
  <2>1. \A v \in Service : (Leaving(v) => Leaving(v)') /\ (Served(v) => Served(v)') /\ (ToldOf(v) => ToldOf(v)')
    BY <1>1 DEF Leaving, Served, ToldOf, sidecarVars
  <2>2. (\A t \in Sidecar : Truthful(output[t])') /\ Truthful(chunk)'
    BY <1>1 DEF BridgeInv, Services, Truthful
  <2> QED
    BY <1>1, <1>2, <2>1, <2>2 DEF BridgeInv, Services
<1> QED
  BY <1>4, <1>5, <1>6, <1>7 DEF BridgeInv

-----------------------------------------------------------------------------
\* The continuation of a caller's request: its answer settles it.
LEMMA AnsweredKeeps ==
  ASSUME BridgeInv, Shapes', NEW c \in Call, CommandAnswered(c) \/ ServiceListed(c) \/ ServiceRefused(c), c \in Service \/ CommandAnswered(c)
  PROVE  BridgeInv'
<1> USE CallsAreRequests
<1>1. /\ woken # <<>> /\ woken' = Tail(woken) /\ Head(woken)[2] = c
      /\ UNCHANGED <<sidecarVars, chunk, unread, home, job, service, output>>
  BY DEF CommandAnswered, ServiceListed, ServiceRefused, Due, listVars, processVars, jobVars
<1>2. /\ woken' \in Seq(Line) /\ Truthful(woken)' /\ Woken(c) /\ \A m : Woken(m)' <=> Woken(m) /\ m # c
      /\ \A i, j \in DOMAIN woken' : woken'[i][2] = woken'[j][2] => i = j
  BY <1>1, OneLess DEF BridgeInv, Services
<1>3. call[c] = "waiting"
  BY <1>2 DEF BridgeInv, Waiting
<1>4. pending' \in [Sidecar -> SUBSET Request] /\ \A t \in Sidecar : pending'[t] = pending[t] \ {c}
  <2>1. \A t \in Sidecar : c \notin pending[t]
    BY <1>2 DEF BridgeInv, Once, Woken
  <2> QED
    BY <1>1, <2>1 DEF BridgeInv, Kinds, sidecarVars
<1>5. PICK k \in {"ok", "failed", "node"} : /\ call' = [call EXCEPT ![c] = k]
                                            /\ ServiceListed(c) => k = "ok"
  BY DEF CommandAnswered, ServiceListed, ServiceRefused, Decline
<1>6. CASE CommandAnswered(c) \/ ServiceRefused(c)
  <2>1. UNCHANGED <<listed, early>>
    BY <1>6 DEF CommandAnswered, ServiceRefused, listVars
  <2>2. c \notin listed /\ listed \subseteq Service /\ early \subseteq Service
    BY <1>3 DEF BridgeInv, Services, Kinds
  <2> QED
    BY <1>1, <1>2, <1>3, <1>4, <1>5, <2>1, <2>2, SettledKeeps DEF sidecarVars
<1>7. CASE ServiceListed(c) /\ c \in Service
  <2>1. IF c \in early THEN early' = early \ {c} /\ listed' = listed ELSE listed' = listed \cup {c} /\ early' = early
    BY <1>7 DEF ServiceListed
  <2>2. c \notin listed /\ listed \subseteq Service /\ early \subseteq Service
    BY <1>3, <1>7 DEF BridgeInv, Services, Kinds
  <2>3. job[c] # "none"
    <3>1. Head(woken)[1] = "ok"
      BY <1>7 DEF ServiceListed, Due
    <3>2. woken \in Seq(Line) /\ Truthful(woken)
      BY DEF BridgeInv, Kinds, Services
    <3>3. 1 \in DOMAIN woken /\ woken[1] = Head(woken)
      BY <1>1, <3>2
    <3> QED
      BY <1>1, <1>7, <3>1, <3>2, <3>3 DEF Truthful
  <2>4. /\ listed' \subseteq Service /\ early' \subseteq Service
        /\ \A v \in Service \ {c} : (v \in listed' <=> v \in listed) /\ (v \in early' <=> v \in early)
        /\ c \in listed' => c \notin early /\ early' = early
    BY <1>7, <2>1, <2>2
  <2>5. call' = [call EXCEPT ![c] = "ok"]
    BY <1>5, <1>7
  <2> QED
    BY <1>1, <1>2, <1>3, <1>4, <1>7, <2>3, <2>4, <2>5, SettledKeeps DEF sidecarVars
<1> QED
  BY <1>6, <1>7

\* A call that is not asked, or not waited for any longer.
LEMMA GivenUpKeeps ==
  ASSUME BridgeInv, Shapes', NEW c \in Call, AskDeclined(c) \/ SpawnThrows(c) \/ \E s \in Sidecar : CallTimeout(c, s)
  PROVE  BridgeInv'
<1> USE CallsAreRequests
<1>1. woken = <<>> /\ UNCHANGED <<current, phase, starter, closing, unread, job, home, service, chunk, woken, output, listed, early>>
  BY DEF AskDeclined, SpawnThrows, CallTimeout, MayStart, Idle, sidecarVars, listVars, loopVars, processVars, jobVars
<1>2. /\ woken' \in Seq(Line) /\ Truthful(woken)' /\ \A m : Woken(m)' <=> Woken(m) /\ m # c
      /\ \A i, j \in DOMAIN woken' : woken'[i][2] = woken'[j][2] => i = j
  BY <1>1 DEF Truthful, Woken
<1>3. CASE AskDeclined(c) \/ SpawnThrows(c)
  <2>1. call[c] = "new" /\ call' = [call EXCEPT ![c] = "node"] /\ pending' = pending
    BY <1>3 DEF AskDeclined, SpawnThrows, Decline, sidecarVars
  <2>2. pending' \in [Sidecar -> SUBSET Request] /\ \A t \in Sidecar : pending'[t] = pending[t] \ {c}
    <3>1. ASSUME NEW t \in Sidecar PROVE c \notin pending[t]
      <4>1. CASE t = current
        BY <2>1, <4>1 DEF BridgeInv, Waiting
      <4> QED
        BY <4>1 DEF BridgeInv, Shapes
    <3> QED
      BY <2>1, <3>1 DEF BridgeInv, Kinds
  <2>3. c \notin listed /\ listed \subseteq Service /\ early \subseteq Service
    BY <2>1 DEF BridgeInv, Services, Kinds
  <2> QED
    BY <1>1, <1>2, <2>1, <2>2, <2>3, SettledKeeps
<1>4. ASSUME NEW s \in Sidecar, CallTimeout(c, s) PROVE BridgeInv'
  <2>1. c \in pending[s] /\ pending' = [pending EXCEPT ![s] = @ \ {c}]
    BY <1>4 DEF CallTimeout
  <2>2. PICK k \in {"failed", "node"} : call' = [call EXCEPT ![c] = k]
    BY <1>4 DEF CallTimeout, Rejected
  <2>3. call[c] = "waiting" /\ s = current
    BY <2>1 DEF BridgeInv, Waiting, Shapes
  <2>4. pending' \in [Sidecar -> SUBSET Request] /\ \A t \in Sidecar : pending'[t] = pending[t] \ {c}
    BY <2>1, <2>3 DEF BridgeInv, Kinds, Shapes
  <2>5. c \notin listed /\ listed \subseteq Service /\ early \subseteq Service
    BY <2>3 DEF BridgeInv, Services, Kinds
  <2> QED
    BY <1>1, <1>2, <2>2, <2>3, <2>4, <2>5, SettledKeeps
<1> QED
  BY <1>3, <1>4

LEMMA AskedKeeps ==
  ASSUME BridgeInv, Shapes', NEW c \in Call, Ask(c)
  PROVE  BridgeInv'
<1> USE CallsAreRequests
<1>1. /\ woken = <<>> /\ current # None /\ phase[current] = "ready" /\ call[c] = "new" /\ Dispatch(c, current)
      /\ UNCHANGED <<current, phase, starter, closing, listed, early, chunk, woken, output, service, job>>
  BY DEF Ask, Idle, IsReady, listVars, loopVars
<1>2. current \in Sidecar /\ phase' = [phase EXCEPT ![current] = "ready"]
  BY <1>1 DEF BridgeInv, Shapes
<1>3. starter = None /\ "init" \notin pending[current]
  BY <1>1, <1>2 DEF BridgeInv, Starting
<1>4. (\A d \in Call : ~Woken(d)) /\ woken' \in Seq(Line) /\ \A m : ~Woken(m)'
  BY <1>1 DEF Woken
<1> QED
  BY <1>1, <1>2, <1>3, <1>4, DispatchKeeps

LEMMA HandshakeDoneKeeps ==
  ASSUME BridgeInv, Shapes', HandshakeDone
  PROVE  BridgeInv'
<1> USE CallsAreRequests
<1>1. /\ woken # <<>> /\ woken' = Tail(woken) /\ Head(woken)[2] = "init"
      /\ phase' = [phase EXCEPT ![current] = "ready"] /\ starter' = None
      /\ UNCHANGED <<current, closing, listed, early, chunk, output, service, job>>
      /\ IF starter = Boot THEN UNCHANGED <<call, pending, unread, home>> ELSE Dispatch(starter, current)
  BY DEF HandshakeDone, Due, listVars
<1>2. woken' \in Seq(Line) /\ Woken("init") /\ \A m : Woken(m)' <=> Woken(m) /\ m # "init"
  BY <1>1, OneLess DEF BridgeInv
<1>3. /\ starter # None /\ starter \in Call \cup {Boot} /\ current \in Sidecar /\ \A m : Woken(m) => m = "init"
      /\ starter \in Call => call[starter] = "starting"
  BY <1>2 DEF BridgeInv, Starting, Shapes, Woken
<1>4. "init" \notin pending[current]
  BY <1>2, <1>3 DEF BridgeInv, Once, Woken
<1>5. (\A d \in Call : ~Woken(d)) /\ \A m : ~Woken(m)'
  BY <1>2, <1>3
<1> QED
  BY <1>1, <1>2, <1>3, <1>4, <1>5, DispatchKeeps

LEMMA TimersKeep ==
  ASSUME BridgeInv, Shapes', NEW s \in Sidecar, HandshakeTimeout(s) \/ Ping(s) \/ PingTimeout(s) \/ StopTimeout(s)
  PROVE  BridgeInv'
<1> USE CallsAreRequests
<1>1. woken = <<>> /\ UNCHANGED <<chunk, woken, closing, service, job, home>>
  BY DEF HandshakeTimeout, Ping, PingTimeout, StopTimeout, Idle, loopVars, jobVars
<1>2. closing \in [Sidecar -> BOOLEAN]
  BY DEF BridgeInv, Kinds
<1>3. ASSUME NEW n, Teardown(s, record, n), pending[s] # {}, unread' = unread PROVE BridgeInv'
  <2>1. s = current
    BY <1>3 DEF BridgeInv, Shapes
  <2> QED
    BY <1>1, <1>2, <1>3, <2>1, TeardownKeeps
<1>4. CASE HandshakeTimeout(s) \/ StopTimeout(s)
  BY <1>3, <1>4 DEF HandshakeTimeout, StopTimeout
<1>5. CASE Ping(s)
  <2>1. /\ Send(s, "ping") /\ phase[s] = "ready"
        /\ UNCHANGED <<current, phase, starter, call, output, listed, early>>
    BY <1>5 DEF Ping, listVars
  <2>2. /\ pending \in [Sidecar -> SUBSET Request] /\ unread \in [Sidecar -> SUBSET Request]
        /\ pending' = [pending EXCEPT ![s] = @ \cup {"ping"}]
        /\ unread' = unread \/ unread' = [unread EXCEPT ![s] = @ \cup {"ping"}]
    BY <2>1 DEF Send, BridgeInv, Kinds
  <2>3. /\ pending' \in [Sidecar -> SUBSET Request] /\ unread' \in [Sidecar -> SUBSET Request]
        /\ \A t \in Sidecar : \A m \in Call \cup {"init"} :
             (m \in pending'[t] <=> m \in pending[t]) /\ (m \in unread'[t] <=> m \in unread[t])
        /\ \A t \in Sidecar : phase[t] = "starting" => pending'[t] \subseteq pending[t]
        /\ \A t \in Sidecar : "stop" \in pending'[t] => "stop" \in pending[t]
    BY <2>1, <2>2
  <2>4. \A t \in Sidecar : "stop" \in pending'[t] => closing'[t]
    BY <1>1, <2>3 DEF BridgeInv, Stopping
  <2> QED
    BY <1>1, <1>2, <2>1, <2>3, <2>4, OthersKeep
<1>6. CASE PingTimeout(s) /\ ~closing[s]
  BY <1>3, <1>6 DEF PingTimeout
<1>7. CASE PingTimeout(s) /\ closing[s]
  <2>1. /\ pending' = [pending EXCEPT ![s] = @ \ {"ping"}] /\ unread' = unread
        /\ UNCHANGED <<current, phase, starter, call, output, listed, early>>
    BY <1>7 DEF PingTimeout, Untorn, listVars
  <2>2. /\ pending \in [Sidecar -> SUBSET Request] /\ unread \in [Sidecar -> SUBSET Request]
    BY DEF BridgeInv, Kinds
  <2>3. /\ pending' \in [Sidecar -> SUBSET Request]
        /\ \A t \in Sidecar : \A m \in Call \cup {"init"} : m \in pending'[t] <=> m \in pending[t]
        /\ \A t \in Sidecar : pending'[t] \subseteq pending[t]
    BY <2>1, <2>2
  <2>4. \A t \in Sidecar : "stop" \in pending'[t] => closing'[t]
    BY <1>1, <2>3 DEF BridgeInv, Stopping
  <2> QED
    BY <1>1, <1>2, <2>1, <2>2, <2>3, <2>4, OthersKeep
<1> QED
  BY <1>4, <1>5, <1>6, <1>7

LEMMA EndsKeep ==
  ASSUME BridgeInv, Shapes', NEW s \in Sidecar, Exit(s) \/ SpawnFailed(s)
  PROVE  BridgeInv'
<1>1. woken = <<>> /\ UNCHANGED <<chunk, woken, closing, unread, service, job, home>>
  BY DEF Exit, SpawnFailed, Idle, loopVars, jobVars
<1>2. closing \in [Sidecar -> BOOLEAN] /\ pending \in [Sidecar -> SUBSET Request] /\ unread \in [Sidecar -> SUBSET Request]
  BY DEF BridgeInv, Kinds
<1>3. CASE current = s
  BY <1>1, <1>2, <1>3, TeardownKeeps DEF Exit, SpawnFailed
<1>4. CASE current # s
  <2>1. UNCHANGED <<current, phase, starter, call, output, listed, early, pending>>
    BY <1>4 DEF Exit, SpawnFailed, Untorn, listVars
  <2>2. \A t \in Sidecar : "stop" \in pending[t] => closing[t]
    BY DEF BridgeInv, Stopping
  <2> QED
    BY <1>1, <1>2, <2>1, <2>2, OthersKeep
<1> QED
  BY <1>3, <1>4

LEMMA ShutdownKeeps ==
  ASSUME BridgeInv, Shapes', Shutdown
  PROVE  BridgeInv'
<1> USE CallsAreRequests
<1>1. woken = <<>> /\ UNCHANGED <<chunk, woken, service, job, home>>
  BY DEF Shutdown, Idle, loopVars, jobVars
<1>2. closing \in [Sidecar -> BOOLEAN] /\ pending \in [Sidecar -> SUBSET Request] /\ unread \in [Sidecar -> SUBSET Request]
      /\ \A t \in Sidecar : "stop" \in pending[t] => closing[t]
  BY DEF BridgeInv, Kinds, Stopping
<1>3. CASE current = None
  <2>1. UNCHANGED <<current, phase, starter, call, output, listed, early, closing, pending, unread>>
    BY <1>3 DEF Shutdown, Untorn, listVars
  <2> QED
    BY <1>1, <1>2, <2>1, OthersKeep
<1>4. CASE current # None
  <2>1. current \in Sidecar /\ closing' = [closing EXCEPT ![current] = TRUE]
    BY <1>4 DEF Shutdown, BridgeInv, Shapes
  <2>2. closing' \in [Sidecar -> BOOLEAN] /\ closing'[current] /\ \A t \in Sidecar : closing[t] => closing'[t]
    BY <1>2, <2>1
  <2>3. CASE IsReady
    <3>1. /\ Send(current, "stop") /\ phase[current] = "ready"
          /\ UNCHANGED <<current, phase, starter, call, output, listed, early>>
      BY <1>4, <2>3 DEF Shutdown, IsReady, Untorn, listVars
    <3>2. /\ pending' = [pending EXCEPT ![current] = @ \cup {"stop"}]
          /\ unread' = unread \/ unread' = [unread EXCEPT ![current] = @ \cup {"stop"}]
      BY <1>2, <3>1 DEF Send
    <3>3. /\ pending' \in [Sidecar -> SUBSET Request] /\ unread' \in [Sidecar -> SUBSET Request]
          /\ \A t \in Sidecar : \A m \in Call \cup {"init"} :
               (m \in pending'[t] <=> m \in pending[t]) /\ (m \in unread'[t] <=> m \in unread[t])
          /\ \A t \in Sidecar : phase[t] = "starting" => pending'[t] \subseteq pending[t]
          /\ \A t \in Sidecar : "stop" \in pending'[t] => t = current \/ "stop" \in pending[t]
      BY <1>2, <2>1, <3>1, <3>2
    <3> QED
      BY <1>1, <1>2, <2>2, <3>1, <3>3, OthersKeep
  <2>4. CASE ~IsReady
    <3>1. Teardown(current, Clear, 0) /\ unread' = unread
      BY <1>4, <2>4 DEF Shutdown
    <3> QED
      BY <1>1, <2>1, <2>2, <3>1, TeardownKeeps
  <2> QED
    BY <2>3, <2>4
<1> QED
  BY <1>3, <1>4

\* The handshake was refused, or the runtime says that it will stop.
LEMMA GivenUpByAnswer ==
  ASSUME BridgeInv, Shapes', HandshakeRefused \/ ShutdownAnswered
  PROVE  BridgeInv'
<1>1. /\ woken # <<>> /\ woken' = Tail(woken) /\ Head(woken)[2] \in {"init", "stop"} /\ Teardown(current, record, 0)
      /\ UNCHANGED <<chunk, closing, unread, service, job, home>>
  BY DEF HandshakeRefused, ShutdownAnswered, Due, jobVars
<1>2. current \in Sidecar
  <2>1. Woken("init") \/ Woken("stop")
    BY <1>1, OneLess DEF BridgeInv
  <2> QED
    BY <2>1 DEF BridgeInv, Starting, Stopping, Shapes
<1>3. closing \in [Sidecar -> BOOLEAN]
  BY DEF BridgeInv, Kinds
<1> QED
  BY <1>1, <1>2, <1>3, TeardownKeeps

LEMMA BridgeStill ==
  ASSUME BridgeInv, Shapes', UNCHANGED <<sidecarVars, call, listed, early, chunk, woken, unread, output, service, jobVars>> \/ RestOver
  PROVE  BridgeInv'
<1>1. UNCHANGED <<current, phase, starter, closing, pending, call, listed, early, chunk, woken, unread, output, service, job, home>>
  BY DEF RestOver, sidecarVars, listVars, loopVars, processVars, jobVars
<1>2. Kinds' /\ Starting' /\ Stopping' /\ Once' /\ Waiting'
  BY <1>1 DEF BridgeInv, Kinds, Starting, Stopping, Once, Waiting, Woken
<1>3. Services'
  BY <1>1 DEF BridgeInv, Services, Truthful, Leaving, Served, ToldOf
<1> QED
  BY <1>2, <1>3 DEF BridgeInv

LEMMA BridgeNext == BridgeInv /\ [Next]_vars => BridgeInv'
<1> SUFFICES ASSUME BridgeInv, [Next]_vars PROVE BridgeInv'
  OBVIOUS
<1>0. Shapes'
  BY ShapesNext DEF BridgeInv
<1>1. CASE UNCHANGED vars
  BY <1>0, <1>1, BridgeStill DEF vars, listVars, loopVars, processVars
<1>2. ASSUME NEW c \in Call, AskDeclined(c) \/ Ask(c) \/ SpawnThrows(c) PROVE BridgeInv'
  BY <1>0, <1>2, AskedKeeps, GivenUpKeeps
<1>3. ASSUME NEW c \in Call, NEW s \in Sidecar, NEW born \in {"live", "absent"}, AskStarts(c, s, born) PROVE BridgeInv'
  BY <1>0, <1>3, StartKeeps DEF AskStarts
<1>4. ASSUME NEW s \in Sidecar, NEW born \in {"live", "absent"}, WarmUp(s, born) PROVE BridgeInv'
  BY <1>0, <1>4, StartKeeps DEF WarmUp
<1>5. ASSUME NEW c \in Call, NEW s \in Sidecar, CallTimeout(c, s) PROVE BridgeInv'
  BY <1>0, <1>5, GivenUpKeeps
<1>6. ASSUME NEW s \in Sidecar, NEW n \in 1 .. Len(output[s]), Read(s, n) PROVE BridgeInv'
  BY <1>0, <1>6, ReadKeeps
<1>7. ASSUME NEW s \in Sidecar, HandshakeTimeout(s) \/ Ping(s) \/ PingTimeout(s) \/ StopTimeout(s) PROVE BridgeInv'
  BY <1>0, <1>7, TimersKeep
<1>8. ASSUME NEW s \in Sidecar, Exit(s) \/ SpawnFailed(s) PROVE BridgeInv'
  BY <1>0, <1>8, EndsKeep
<1>9. ASSUME NEW s \in Sidecar, Environment(s) PROVE BridgeInv'
  BY <1>0, <1>9, SidecarsKeep
<1>10. ASSUME NEW v \in Service, ServiceEnds(v) PROVE BridgeInv'
  <2>1. CASE Sidecar # {}
    BY <1>0, <1>10, <2>1, SidecarsKeep
  <2>2. CASE Sidecar = {}
    <3>1. UNCHANGED <<sidecarVars, call, listed, early, chunk, woken, unread, jobVars>> /\ output' = output
      BY <1>10, <2>2 DEF ServiceEnds, Quiet, Say, listVars, loopVars, BridgeInv, Kinds
    <3>2. service' = [service EXCEPT ![v] = "ended"] /\ service[v] = "alive" /\ service \in [Service -> {"none", "alive", "ended"}]
      BY <1>10 DEF ServiceEnds, BridgeInv, Kinds
    <3>3. \A w \in Service : service'[w] = "none" <=> service[w] = "none"
      BY <3>2
    <3>4. \A w \in Service : w \notin listed /\ call[w] # "waiting"
      BY <2>2 DEF BridgeInv, Shapes, Services, Leaving, Served
    <3>5. Services'
      BY <2>2, <3>1, <3>3, <3>4 DEF BridgeInv, Services, Truthful, jobVars
    <3>6. Kinds' /\ Starting' /\ Stopping' /\ Once' /\ Waiting'
      BY <3>1, <3>2 DEF BridgeInv, Kinds, Starting, Stopping, Once, Waiting, Woken, sidecarVars, jobVars
    <3> QED
      BY <1>0, <3>5, <3>6 DEF BridgeInv
  <2> QED
    BY <2>1, <2>2
<1>11. CASE RestOver
  BY <1>0, <1>11, BridgeStill
<1>12. CASE Shutdown
  BY <1>0, <1>12, ShutdownKeeps
<1>13. CASE Loop
  <2>1. ASSUME NEW c \in Command, CommandAnswered(c) PROVE BridgeInv'
    BY <1>0, <2>1, AnsweredKeeps, CallsAreRequests
  <2>2. ASSUME NEW v \in Service, ServiceListed(v) \/ ServiceRefused(v) PROVE BridgeInv'
    BY <1>0, <2>2, AnsweredKeeps, CallsAreRequests
  <2> QED
    BY <1>0, <1>13, <2>1, <2>2, HandleReplyKeeps, HandleExitedKeeps, HandshakeDoneKeeps, GivenUpByAnswer, PongKeeps DEF Loop
<1> QED
  BY <1>1, <1>2, <1>3, <1>4, <1>5, <1>6, <1>7, <1>8, <1>9, <1>10, <1>11, <1>12, <1>13 DEF Next

\* The list of background services tells the truth: one that is in it is of
\* the sidecar that serves now, and runs, or the line that says that it ended
\* is on its way; whatever the answers, exits and teardowns come in.
THEOREM ListTellsTruth == Spec => []ListedServiceIsReal
<1>1. BridgeInv => ListedServiceIsReal
  <2> SUFFICES ASSUME BridgeInv, NEW v \in listed, ~closing[home[v]]
               PROVE  /\ IsReady /\ home[v] = current
                      /\ service[v] = "alive" \/ <<"exited", v, current>> \in ToSet(output[current]) \cup ToSet(chunk)
    BY DEF ListedServiceIsReal
  <2>1. v \in Service /\ v \notin early /\ job[v] # "none" /\ service[v] \in {"alive", "ended"}
    BY DEF BridgeInv, Kinds, Services
  <2>2. Served(v) /\ (service[v] = "ended" => ToldOf(v))
    BY <2>1 DEF BridgeInv, Services, Leaving
  <2> QED
    BY <2>1, <2>2 DEF Served, IsReady, ToldOf, ToSet
<1> QED
  BY <1>1, BridgeInit, BridgeNext, PTL DEF Spec

\* Nobody waits for an answer that has nowhere to come to: who waits is in the
\* pending map of the current sidecar, started it, or is due to go on.
THEOREM NobodyWaitsInVain == Spec => []WaiterIsKnown
<1>1. BridgeInv => WaiterIsKnown
  <2> SUFFICES ASSUME BridgeInv, NEW c \in Call
               PROVE  /\ call[c] = "waiting" => \/ home[c] = current /\ c \in pending[current]
                                                \/ \E i \in DOMAIN woken : woken[i][2] = c
                      /\ call[c] = "starting" => current # None /\ phase[current] = "starting" /\ starter = c
    BY DEF WaiterIsKnown
  <2>1. starter = c => starter # None
    BY CallsAreRequests
  <2> QED
    BY <2>1 DEF BridgeInv, Starting, Waiting, Woken, Shapes
<1> QED
  BY <1>1, BridgeInit, BridgeNext, PTL DEF Spec

Counters ==
  faults \in 0 .. MaxFaults /\ stops \in 0 .. MaxStops /\ notices \in [Service -> Nat]

LEMMA CountersNext == BridgeInv /\ Counters /\ [Next]_vars => Counters'
<1> SUFFICES ASSUME BridgeInv, Counters, [Next]_vars PROVE Counters'
  OBVIOUS
<1> USE CallsAreRequests DEF boundVars, listVars
<1>1. faults' \in 0 .. MaxFaults
  <2>1. ASSUME NEW f, Strikes(f) PROVE faults' \in 0 .. MaxFaults
    BY <2>1 DEF Strikes, Counters
  <2>2. CASE faults' = faults
    BY <2>2 DEF Counters
  <2> HIDE DEF Counters
  <2> QED
    BY <2>1, <2>2 DEF Next, AskDeclined, Ask, SpawnThrows, AskStarts, WarmUp, Start, CallTimeout, Read, HandshakeTimeout,
      Ping, PingTimeout, StopTimeout, Exit, SpawnFailed, Environment, Answer, Begin, Finish, Refuse, AnswerStop, Leave,
      Die, Fails, ServiceEnds, RestOver, Shutdown, Loop, HandleReply, HandleExited, HandshakeDone, HandshakeRefused, Pong,
      ShutdownAnswered, CommandAnswered, ServiceListed, ServiceRefused, vars
<1>2. stops' \in 0 .. MaxStops
  <2>1. CASE Shutdown
    BY <2>1 DEF Shutdown, Counters
  <2>2. CASE stops' = stops
    BY <2>2 DEF Counters
  <2> QED
    BY <2>1, <2>2 DEF Next, AskDeclined, Ask, SpawnThrows, AskStarts, WarmUp, Start, CallTimeout, Read, HandshakeTimeout,
      Ping, PingTimeout, StopTimeout, Exit, SpawnFailed, Environment, Answer, Begin, Finish, Refuse, AnswerStop, Leave,
      Die, Fails, Quiet, ServiceEnds, RestOver, Loop, HandleReply, HandleExited, HandshakeDone, HandshakeRefused, Pong,
      ShutdownAnswered, CommandAnswered, ServiceListed, ServiceRefused, vars
<1>3. notices' \in [Service -> Nat]
  <2>1. CASE notices' = notices
    BY <2>1 DEF Counters
  <2>2. ASSUME NEW s, Disconnected(s) PROVE notices' \in [Service -> Nat]
    BY <2>2 DEF Disconnected, Counters
  <2>3. CASE HandleExited
    <3>1. PICK w : notices' = notices \/ notices' = [notices EXCEPT ![w] = @ + 1]
      BY <2>3 DEF HandleExited, Report, KeepEarly
    <3> QED
      BY <3>1 DEF Counters
  <2>4. ASSUME NEW v \in Service, ServiceListed(v) PROVE notices' \in [Service -> Nat]
    <3>1. notices' = notices \/ notices' = [notices EXCEPT ![v] = @ + 1]
      BY <2>4 DEF ServiceListed
    <3> QED
      BY <3>1 DEF Counters
  <2> QED
    BY <2>1, <2>2, <2>3, <2>4 DEF Next, AskDeclined, Ask, SpawnThrows, AskStarts, WarmUp, Start, CallTimeout, Read,
      HandshakeTimeout, Ping, PingTimeout, StopTimeout, Exit, SpawnFailed, Environment, Answer, Begin, Finish, Refuse,
      AnswerStop, Leave, Die, Fails, Quiet, ServiceEnds, RestOver, Shutdown, Loop, HandleReply, HandshakeDone,
      HandshakeRefused, Pong, ShutdownAnswered, CommandAnswered, ServiceRefused, vars, Teardown, Untorn
<1> QED
  BY <1>1, <1>2, <1>3 DEF Counters

\* Type correctness.  That a request always has a caller, and `state` a sidecar
\* when an answer to it is handled, takes the whole of the invariant.
THEOREM TypeCorrect == Spec => []TypeOK
<1>1. Init => Counters
  BY DEF Init, Counters
<1>2. BridgeInv /\ Counters => TypeOK
  BY DEF BridgeInv, Shapes, Kinds, Counters, TypeOK, Records, Life, Place
<1> QED
  BY <1>1, <1>2, BridgeInit, BridgeNext, CountersNext, PTL DEF Spec

-----------------------------------------------------------------------------
(***************************************************************************)
(* What is reported of a service.  A service is listed once, when its      *)
(* caller goes on; it leaves the list when its end is told.                *)
(***************************************************************************)
Reported ==
  \A v \in Service : notices[v] \in {0, 1} /\ (notices[v] = 1 => call[v] = "ok" /\ v \notin listed)

\* A continuation that is due is among those woken.
LEMMA DueIsWoken ==
  ASSUME BridgeInv, NEW kind, NEW m, Due(kind, m)
  PROVE  Woken(m)
<1>1. woken \in Seq(Line) /\ woken # <<>> /\ Head(woken)[2] = m
  BY DEF Due, BridgeInv, Kinds
<1>2. 1 \in DOMAIN woken /\ woken[1] = Head(woken)
  BY <1>1
<1> QED
  BY <1>1, <1>2 DEF Woken

\* A rejection reaches only callers that have no answer yet.
LEMMA RejectedWait ==
  ASSUME BridgeInv, NEW s \in Sidecar, RejectAll(s), NEW c \in Call, call[c] = "ok"
  PROVE  call'[c] = "ok"
<1>1. starter # c
  BY DEF BridgeInv, Starting
<1>2. c \notin pending[s]
  <2>1. CASE s = current
    BY <2>1 DEF BridgeInv, Waiting, Shapes
  <2>2. CASE s # current
    BY <2>2 DEF BridgeInv, Shapes
  <2> QED
    BY <2>1, <2>2
<1> QED
  BY <1>1, <1>2 DEF RejectAll

LEMMA OkStays ==
  ASSUME BridgeInv, [Next]_vars, NEW c \in Call, call[c] = "ok"
  PROVE  call'[c] = "ok"
<1>0. call \in [Call -> Place]
  BY DEF BridgeInv, Shapes
<1>1. CASE call' = call
  BY <1>1
<1>2. ASSUME NEW s \in Sidecar, RejectAll(s) PROVE call'[c] = "ok"
  BY <1>2, RejectedWait
<1>3. ASSUME NEW d, call[d] # "ok", NEW to, call' = [call EXCEPT ![d] = to] PROVE call'[c] = "ok"
  BY <1>0, <1>3
<1>4. ASSUME NEW d \in Call, call' = [call EXCEPT ![d] = "ok"] PROVE call'[c] = "ok"
  BY <1>0, <1>4
<1>5. ASSUME NEW d, call[d] # "ok", NEW s, Dispatch(d, s) PROVE call'[c] = "ok"
  BY <1>3, <1>5 DEF Dispatch, Decline
<1>6. ASSUME NEW d \in Call, AskDeclined(d) \/ Ask(d) \/ SpawnThrows(d) PROVE call'[c] = "ok"
  BY <1>3, <1>5, <1>6 DEF AskDeclined, Ask, SpawnThrows, Decline
<1>7. ASSUME NEW d \in Call, NEW s \in Sidecar, NEW born, AskStarts(d, s, born) PROVE call'[c] = "ok"
  BY <1>3, <1>7 DEF AskStarts
<1>8. ASSUME NEW d \in Call, NEW s \in Sidecar, CallTimeout(d, s) PROVE call'[c] = "ok"
  <2>1. call[d] # "ok"
    <3>1. d \in pending[s]
      BY <1>8 DEF CallTimeout
    <3>2. s = current /\ current # None
      BY <3>1 DEF BridgeInv, Shapes
    <3> QED
      BY <3>1, <3>2 DEF BridgeInv, Waiting
  <2> QED
    BY <1>3, <1>8, <2>1 DEF CallTimeout
<1>9. CASE HandshakeDone
  <2>1. CASE starter = Boot
    BY <1>1, <1>9, <2>1 DEF HandshakeDone
  <2>2. CASE starter # Boot
    <3>1. Dispatch(starter, current) /\ Woken("init")
      BY <1>9, <2>2, DueIsWoken DEF HandshakeDone
    <3>2. starter \in Call
      BY <2>2, <3>1 DEF BridgeInv, Starting, Shapes
    <3>3. call[starter] # "ok"
      BY <3>2 DEF BridgeInv, Starting
    <3> QED
      BY <1>5, <3>1, <3>3
  <2> QED
    BY <2>1, <2>2
<1>10. ASSUME NEW v \in Service, ServiceRefused(v) PROVE call'[c] = "ok"
  <2>1. Woken(v) /\ v \in Call
    BY <1>10, CallsAreRequests, DueIsWoken DEF ServiceRefused
  <2>2. call[v] # "ok"
    BY <2>1 DEF BridgeInv, Waiting
  <2> QED
    BY <1>3, <1>10, <2>2 DEF ServiceRefused, Decline
<1>11. ASSUME NEW d \in Call, CommandAnswered(d) \/ ServiceListed(d) PROVE call'[c] = "ok"
  BY <1>4, <1>11 DEF CommandAnswered, ServiceListed
<1>12. CASE HandshakeRefused \/ ShutdownAnswered
  <2>1. current \in Sidecar
    <3>1. Woken("init") \/ Woken("stop")
      BY <1>12, DueIsWoken DEF HandshakeRefused, ShutdownAnswered
    <3> QED
      BY <3>1 DEF BridgeInv, Starting, Stopping, Shapes
  <2> QED
    BY <1>2, <1>12, <2>1 DEF HandshakeRefused, ShutdownAnswered, Teardown
<1>13. ASSUME NEW s \in Sidecar,
              \/ HandshakeTimeout(s) \/ PingTimeout(s) \/ StopTimeout(s) \/ Exit(s) \/ SpawnFailed(s)
       PROVE  call'[c] = "ok"
  BY <1>1, <1>2, <1>13 DEF HandshakeTimeout, PingTimeout, StopTimeout, Exit, SpawnFailed, Teardown, Untorn
<1>14. CASE Shutdown
  <2>1. CASE call' = call
    BY <1>1, <2>1
  <2>2. CASE current # None /\ RejectAll(current)
    BY <1>2, <2>2 DEF BridgeInv, Shapes
  <2> QED
    BY <1>14, <2>1, <2>2 DEF Shutdown, Untorn, Teardown
<1>15. CASE \/ \E s \in Sidecar, born \in {"live", "absent"} : WarmUp(s, born)
            \/ \E s \in Sidecar : Ping(s) \/ Environment(s) \/ \E n \in 1 .. Len(output[s]) : Read(s, n)
            \/ \E v \in Service : ServiceEnds(v)
            \/ RestOver \/ HandleReply \/ HandleExited \/ Pong \/ UNCHANGED vars
  BY <1>1, <1>15 DEF WarmUp, Ping, Environment, Read, ServiceEnds, RestOver, HandleReply, HandleExited, Pong, vars,
    Answer, Begin, Finish, Refuse, AnswerStop, Leave, Die, Fails, Quiet
<1> QED
  BY <1>6, <1>7, <1>8, <1>9, <1>10, <1>11, <1>12, <1>13, <1>14, <1>15, CallsAreRequests DEF Next, Loop

\* What a step may do to what is known of a service: nothing, or only drop it;
\* report one that was listed; or answer its caller.
LEMMA ReportSteps ==
  ASSUME BridgeInv, notices \in [Service -> Nat], [Next]_vars, NEW v \in Service
  PROVE  \/ notices'[v] = notices[v] /\ (v \in listed' => v \in listed)
         \/ v \in listed /\ v \notin listed' /\ notices'[v] = notices[v] + 1
         \/ /\ call[v] = "waiting" /\ call'[v] = "ok"
            /\ \/ notices'[v] = notices[v] + 1 /\ listed' = listed
               \/ notices'[v] = notices[v]
<1> USE DEF listVars
<1>1. ASSUME notices' = notices, listed' = listed
      PROVE  notices'[v] = notices[v] /\ (v \in listed' => v \in listed)
  BY <1>1
<1>2. ASSUME NEW s, Disconnected(s)
      PROVE  \/ notices'[v] = notices[v] /\ (v \in listed' => v \in listed)
             \/ v \in listed /\ v \notin listed' /\ notices'[v] = notices[v] + 1
  BY <1>2 DEF Disconnected
<1>3. CASE HandleExited
  <2>1. CASE UNCHANGED <<listed, notices>>
    BY <2>1
  <2>2. CASE \E w \in listed : Report(w)
    <3>1. PICK w \in listed : listed' = listed \ {w} /\ notices' = [notices EXCEPT ![w] = @ + 1]
      BY <2>2 DEF Report
    <3>2. CASE w = v
      BY <3>1, <3>2
    <3>3. CASE w # v
      BY <3>1, <3>3
    <3> QED
      BY <3>2, <3>3
  <2> QED
    BY <1>3, <2>1, <2>2 DEF HandleExited, KeepEarly
<1>4. ASSUME NEW w \in Service, ServiceListed(w)
      PROVE  \/ notices'[v] = notices[v] /\ (v \in listed' => v \in listed)
             \/ /\ call[v] = "waiting" /\ call'[v] = "ok"
                /\ \/ notices'[v] = notices[v] + 1 /\ listed' = listed
                   \/ notices'[v] = notices[v]
  <2>1. call[w] = "waiting"
    <3>1. Woken(w) /\ w \in Call
      BY <1>4, CallsAreRequests, DueIsWoken DEF ServiceListed
    <3> QED
      BY <3>1 DEF BridgeInv, Waiting
  <2>2. CASE w = v
    <3>1. call'[v] = "ok"
      BY <1>4, <2>2, CallsAreRequests DEF ServiceListed, BridgeInv, Shapes
    <3> QED
      BY <1>4, <2>1, <2>2, <3>1 DEF ServiceListed
  <2>3. CASE w # v
    BY <1>4, <2>3 DEF ServiceListed
  <2> QED
    BY <2>2, <2>3
<1>5. \/ notices' = notices /\ listed' = listed
      \/ \E s : Disconnected(s)
      \/ HandleExited
      \/ \E w \in Service : ServiceListed(w)
  BY SMTT(60) DEF Next, AskDeclined, Ask, SpawnThrows, AskStarts, WarmUp, Start, CallTimeout, Read,
    HandshakeTimeout, Ping, PingTimeout, StopTimeout, Exit, SpawnFailed, Environment, Answer, Begin, Finish, Refuse,
    AnswerStop, Leave, Die, Fails, Quiet, ServiceEnds, RestOver, Shutdown, Loop, HandleReply, HandshakeDone,
    HandshakeRefused, Pong, ShutdownAnswered, CommandAnswered, ServiceRefused, vars, Teardown, Untorn
<1> QED
  BY <1>1, <1>2, <1>3, <1>4, <1>5

LEMMA ReportedNext == BridgeInv /\ Counters /\ Reported /\ [Next]_vars => Reported'
<1> SUFFICES ASSUME BridgeInv, Counters, Reported, [Next]_vars, NEW v \in Service
             PROVE  notices'[v] \in {0, 1} /\ (notices'[v] = 1 => call'[v] = "ok" /\ v \notin listed')
  BY DEF Reported
<1>1. call[v] = "ok" => call'[v] = "ok"
  BY OkStays, CallsAreRequests
<1>2. v \in listed => call[v] = "ok"
  BY DEF BridgeInv, Services
<1>3. notices[v] \in {0, 1} /\ (notices[v] = 1 => call[v] = "ok" /\ v \notin listed)
  BY DEF Reported
<1>4. CASE notices'[v] = notices[v] /\ (v \in listed' => v \in listed)
  BY <1>1, <1>3, <1>4
<1>5. CASE v \in listed /\ v \notin listed' /\ notices'[v] = notices[v] + 1
  BY <1>1, <1>2, <1>3, <1>5
<1>6. CASE /\ call[v] = "waiting" /\ call'[v] = "ok"
           /\ \/ notices'[v] = notices[v] + 1 /\ listed' = listed
              \/ notices'[v] = notices[v]
  <2>1. notices[v] = 0 /\ v \notin listed
    BY <1>2, <1>3, <1>6
  <2>2. CASE notices'[v] = notices[v] + 1 /\ listed' = listed
    BY <1>6, <2>1, <2>2
  <2>3. CASE notices'[v] = notices[v]
    BY <2>1, <2>3
  <2> QED
    BY <1>6, <2>2, <2>3
<1>7. \/ notices'[v] = notices[v] /\ (v \in listed' => v \in listed)
      \/ v \in listed /\ v \notin listed' /\ notices'[v] = notices[v] + 1
      \/ /\ call[v] = "waiting" /\ call'[v] = "ok"
         /\ \/ notices'[v] = notices[v] + 1 /\ listed' = listed
            \/ notices'[v] = notices[v]
  BY ReportSteps DEF Counters
<1> QED
  BY <1>4, <1>5, <1>6, <1>7

\* The end of a background service is told at most once, whichever comes first:
\* the line of its exit, the pid that lists it, or the end of the sidecar that
\* ran it (native.mjs: reportExit, pendingExits and the disconnected handler).
THEOREM ReportedOnce == Spec => []ExitReportedOnce
<1>1. Init => Counters /\ Reported
  BY BridgeAssumption DEF Init, Counters, Reported
<1>2. BridgeInv /\ Counters /\ Reported => ExitReportedOnce
  BY DEF Counters, Reported, ExitReportedOnce
<1> QED
  BY <1>1, <1>2, BridgeInit, BridgeNext, CountersNext, ReportedNext, PTL DEF Spec
============================================================================
