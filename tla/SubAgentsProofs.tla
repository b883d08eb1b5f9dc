-------------------------- MODULE SubAgentsProofs --------------------------
(***************************************************************************)
(* What holds of the delegations of a turn for every number of jobs,       *)
(* slots, keys and callers: bodies within slots, one delivery of each      *)
(* outcome, final outcomes, complete joins, and nothing that starts once   *)
(* the turn is closed.                                                     *)
(***************************************************************************)
EXTENDS SubAgents, TLAPS, FiniteSetTheorems

USE SubAgentsAssumption

Before == {"new", "waiting", "holding"}
Within == {"admitted", "watching", "grace"}
After == {"settled", "leaving", "gone"}
Holding == {"holding", "settled", "leaving"} \cup Within

\* Where a job's task is, what the table says of it, and its body.
JobOK(j) ==
  /\ j <= issued <=> launch[j] # "none"
  /\ j <= issued <=> state[j] # "Absent"
  /\ launch[j] \in Before => state[j] \in {"Queued", "Cancelled"}
  /\ launch[j] \in Within => state[j] = "Running"
  /\ launch[j] \in After => IsSettled(state[j])
  /\ body[j] \in {"live", "ok", "err"} <=> launch[j] \in {"watching", "grace"}
  /\ launch[j] = "grace" => cancelled
  /\ body[j] = "aborted" => launch[j] \in After /\ cancelled
  /\ closed => state[j] # "Queued"
  /\ delivered[j] => IsSettled(state[j])

\* Those who wait for a slot, each once.
QueueOK ==
  /\ \A i \in 1 .. Len(waiters) : launch[waiters[i]] = "waiting"
  /\ \A i, k \in 1 .. Len(waiters) : waiters[i] = waiters[k] => i = k

\* A join that claims to be complete has seen all of its jobs settled.
CallOK(c) == call[c].pc = "collecting" /\ Completes(c) => \A j \in call[c].targets : IsSettled(state[j])

JobInv == (\A j \in Job : JobOK(j)) /\ QueueOK

-----------------------------------------------------------------------------
(***************************************************************************)
(* Types.                                                                  *)
(***************************************************************************)
CallType ==
  [pc : {"idle", "checking", "checked", "waiting", "collecting"}, targets : SUBSET Job,
   mode : {"all", "any"}, block : BOOLEAN, signalled : BOOLEAN, timedOut : BOOLEAN]

Calls == [Caller -> CallType]

\* All that a step of a join or a signal may do to the calls.
LEMMA SetCall ==
  ASSUME call \in Calls, NEW c \in Caller, NEW f \in CallType, call' = [call EXCEPT ![c] = f]
  PROVE  call' \in Calls /\ call'[c] = f /\ \A d \in Caller \ {c} : call'[d] = call[d]
BY DEF Calls

LEMMA NoCallType == NoCall \in CallType /\ NoCall.pc = "idle" /\ NoCall.timedOut = FALSE
BY DEF NoCall, CallType

LEMMA SignalledType ==
  ASSUME call \in Calls
  PROVE  /\ Signalled \in Calls
         /\ \A c \in Caller :
              /\ Signalled[c].pc = call[c].pc /\ Signalled[c].targets = call[c].targets
              /\ Signalled[c].mode = call[c].mode /\ Signalled[c].block = call[c].block
              /\ Signalled[c].timedOut = call[c].timedOut
<1>1. ASSUME NEW c \in Caller
      PROVE  /\ Signalled[c] \in CallType
             /\ Signalled[c].pc = call[c].pc /\ Signalled[c].targets = call[c].targets
             /\ Signalled[c].mode = call[c].mode /\ Signalled[c].block = call[c].block
             /\ Signalled[c].timedOut = call[c].timedOut
  <2>1. PICK k \in CallType : k = call[c]
    BY DEF Calls
  <2>2. Signalled[c] = k \/ Signalled[c] = [k EXCEPT !.signalled = TRUE]
    BY <2>1 DEF Signalled
  <2> QED
    BY <2>1, <2>2 DEF CallType
<1>2. Signalled \in Calls
  BY <1>1 DEF Signalled, Calls
<1> QED
  BY <1>1, <1>2

\* A join asks: the record it begins with.
LEMMA AskType ==
  ASSUME TypeOK, NEW c \in Caller, Ask(c)
  PROVE  \E f \in CallType :
           /\ call' = [call EXCEPT ![c] = f]
           /\ f.pc \in {"checking", "collecting"} /\ f.timedOut = FALSE
           /\ f.pc = "collecting" => ~f.block \/ f.targets = {}
<1>1. PICK ids \in Wanted, m \in {"all", "any"}, b \in BOOLEAN :
        call' = [call EXCEPT ![c] =
          [NoCall EXCEPT !.targets = Targets(ids), !.mode = m, !.block = b,
                         !.pc = IF b /\ Targets(ids) # {} THEN "checking" ELSE "collecting"]]
  BY DEF Ask
<1>2. PICK ts : ts = Targets(ids)
  OBVIOUS
<1>3. ts \in SUBSET Job
  BY <1>2 DEF Targets, Issued, TypeOK, Job
<1>4. PICK p \in {"checking", "collecting"} : p = IF b /\ ts # {} THEN "checking" ELSE "collecting"
  OBVIOUS
<1>5. PICK f : f = [NoCall EXCEPT !.targets = ts, !.mode = m, !.block = b, !.pc = p]
  OBVIOUS
<1>6. /\ f \in CallType /\ f.pc = p /\ f.targets = ts /\ f.block = b /\ f.timedOut = FALSE
  BY <1>3, <1>5 DEF NoCall, CallType
<1>7. call' = [call EXCEPT ![c] = f]
  BY <1>1, <1>2, <1>4, <1>5
<1> QED
  BY <1>4, <1>6, <1>7

\* Between its question and its answer a join only changes its place.
LEMMA JoinType ==
  ASSUME call \in Calls, NEW c \in Caller, Check(c) \/ Listen(c) \/ Wake(c) \/ TimeOut(c)
  PROVE  \E f \in CallType :
           /\ call' = [call EXCEPT ![c] = f]
           /\ f.targets = call[c].targets /\ f.mode = call[c].mode /\ f.block = call[c].block
           /\ f.pc = "collecting" => f.timedOut \/ Satisfied(c)
           /\ f.pc # "idle"
<1>1. PICK k \in CallType : k = call[c]
  BY DEF Calls
<1>2. CASE Check(c)
  <2>1. PICK p \in {"collecting", "checked"} : p = IF Satisfied(c) THEN "collecting" ELSE "checked"
    OBVIOUS
  <2>2. PICK f : f = [k EXCEPT !.pc = p]
    OBVIOUS
  <2>3. f \in CallType /\ f.pc = p /\ f.targets = k.targets /\ f.mode = k.mode /\ f.block = k.block
    BY <2>2 DEF CallType
  <2>4. call' = [call EXCEPT ![c] = f]
    BY <1>1, <1>2, <2>1, <2>2 DEF Check, Calls
  <2> QED
    BY <1>1, <2>1, <2>3, <2>4
<1>3. CASE Listen(c)
  <2>1. PICK f : f = [k EXCEPT !.pc = "waiting"]
    OBVIOUS
  <2>2. f \in CallType /\ f.pc = "waiting" /\ f.targets = k.targets /\ f.mode = k.mode /\ f.block = k.block
    BY <2>1 DEF CallType
  <2>3. call' = [call EXCEPT ![c] = f]
    BY <1>1, <1>3, <2>1 DEF Listen, Calls
  <2> QED
    BY <1>1, <2>2, <2>3
<1>4. CASE Wake(c)
  <2>1. PICK f : f = [k EXCEPT !.pc = "checking", !.signalled = FALSE]
    OBVIOUS
  <2>2. f \in CallType /\ f.pc = "checking" /\ f.targets = k.targets /\ f.mode = k.mode /\ f.block = k.block
    BY <2>1 DEF CallType
  <2>3. call' = [call EXCEPT ![c] = f]
    BY <1>1, <1>4, <2>1 DEF Wake, Calls
  <2> QED
    BY <1>1, <2>2, <2>3
<1>5. CASE TimeOut(c)
  <2>1. PICK f : f = [k EXCEPT !.pc = "collecting", !.timedOut = TRUE]
    OBVIOUS
  <2>2. f \in CallType /\ f.pc = "collecting" /\ f.timedOut /\ f.targets = k.targets /\ f.mode = k.mode /\ f.block = k.block
    BY <2>1 DEF CallType
  <2>3. call' = [call EXCEPT ![c] = f]
    BY <1>1, <1>5, <2>1 DEF TimeOut, Calls
  <2> QED
    BY <1>1, <2>2, <2>3
<1> QED
  BY <1>2, <1>3, <1>4, <1>5

\* A permit that is out is one that is not free.
Spare == \A j \in Job : launch[j] \in {"settled", "leaving"} => free < Slots

LEMMA TypeStep == ASSUME TypeOK, Spare, [Next]_vars PROVE TypeOK'
<1> USE DEF vars, jobVars, slotVars, callFrame, Goes, Record, Job, Issued
<1>1. call \in Calls
  BY DEF TypeOK, Calls, CallType
<1>2. ASSUME NEW k \in Key \cup {NoKey}, Spawn(k) PROVE TypeOK'
  BY <1>2 DEF Spawn, TypeOK
<1>3. ASSUME NEW j \in Issued, Acquire(j) PROVE TypeOK'
  <2>1. j \in Job /\ free \in 0 .. Slots /\ waiters \in Seq(Job)
    BY DEF TypeOK
  <2>2. CASE free > 0 /\ free' = free - 1 /\ Goes(j, "new", "holding") /\ UNCHANGED waiters
    <3>1. free' \in 0 .. Slots
      BY <2>1, <2>2
    <3> QED
      BY <1>3, <2>2, <3>1 DEF Acquire, TypeOK
  <2>3. CASE waiters' = Append(waiters, j) /\ Goes(j, "new", "waiting") /\ UNCHANGED free
    <3>1. waiters' \in Seq(Job)
      BY <2>1, <2>3
    <3> QED
      BY <1>3, <2>3, <3>1 DEF Acquire, TypeOK
  <2> QED
    BY <1>3, <2>2, <2>3 DEF Acquire
<1>4. ASSUME NEW j \in Issued, Admit(j) PROVE TypeOK'
  BY <1>4 DEF Admit, TypeOK
<1>5. ASSUME NEW j \in Issued, StartBody(j) \/ SeeCancelled(j) PROVE TypeOK'
  BY <1>5 DEF StartBody, SeeCancelled, TypeOK
<1>6. ASSUME NEW j \in Issued, Conclude(j) PROVE TypeOK'
  <2>1. PICK v \in {"Done", "Failed"} : state' = [state EXCEPT ![j] = v]
    BY <1>6 DEF Conclude, Verdict
  <2> QED
    BY <1>6, <2>1 DEF Conclude, TypeOK
<1>7. ASSUME NEW j \in Issued, Abandon(j) PROVE TypeOK'
  BY <1>7 DEF Abandon, TypeOK
<1>8. ASSUME NEW j \in Issued, BodyEnds(j) PROVE TypeOK'
  <2>1. PICK v \in {"ok", "err", "gone"} : body' = [body EXCEPT ![j] = v]
    BY <1>8 DEF BodyEnds
  <2>2. body' \in [Job -> {"none", "live", "ok", "err", "aborted", "gone"}]
    BY <2>1 DEF TypeOK
  <2> QED
    BY <1>8, <2>2 DEF BodyEnds, TypeOK
<1>9. ASSUME NEW j \in Issued, Leave(j) PROVE TypeOK'
  <2>1. call' \in Calls
    BY <1>1, <1>9, SignalledType DEF Leave, News
  <2>2. free \in 0 .. Slots /\ waiters \in Seq(Job) /\ j \in Job
    BY DEF TypeOK
  <2>3. waiters # <<>> => Head(waiters) \in Job /\ Tail(waiters) \in Seq(Job)
    BY <2>2
  <2>4. waiters' \in Seq(Job) /\ free' \in 0 .. Slots
    <3>1. free < Slots
      BY <1>9, <2>2 DEF Leave, Spare
    <3>2. CASE waiters = <<>>
      BY <1>9, <2>2, <3>1, <3>2 DEF Leave
    <3>3. CASE waiters # <<>>
      BY <1>9, <2>2, <2>3, <3>3 DEF Leave
    <3> QED
      BY <3>2, <3>3
  <2>5. launch' \in [Job -> {"none", "new", "waiting", "holding", "admitted", "watching", "grace",
                             "settled", "leaving", "gone"}]
    <3>1. CASE waiters = <<>>
      BY <1>9, <3>1 DEF Leave, TypeOK
    <3>2. PICK h \in Job : waiters # <<>> => h = Head(waiters)
      BY <2>2, <2>3
    <3>3. CASE waiters # <<>>
      <4>1. launch' = [launch EXCEPT ![j] = "gone", ![h] = "holding"]
        BY <1>9, <3>2, <3>3 DEF Leave
      <4> QED
        BY <4>1 DEF TypeOK
    <3> QED
      BY <3>1, <3>3
  <2> QED
    BY <1>9, <2>1, <2>4, <2>5 DEF Leave, TypeOK, Calls, CallType
<1>10. ASSUME NEW c \in Caller, Ask(c) \/ Check(c) \/ Listen(c) \/ Wake(c) \/ TimeOut(c) PROVE TypeOK'
  <2>1. call' \in Calls
    BY <1>1, <1>10, AskType, JoinType, SetCall
  <2> QED
    BY <1>10, <2>1 DEF Ask, Check, Listen, Wake, TimeOut, TypeOK, Calls, CallType
<1>11. ASSUME NEW c \in Caller, Collect(c) PROVE TypeOK'
  <2>1. call' \in Calls
    BY <1>1, <1>11, NoCallType, SetCall DEF Collect
  <2>2. Fresh(call[c].targets) \subseteq Job
    BY <1>1 DEF Fresh, Calls, CallType
  <2> QED
    BY <1>11, <2>1, <2>2 DEF Collect, HandOut, TypeOK, Calls, CallType
<1>12. CASE Drain
  BY <1>12 DEF Drain, HandOut, Fresh, TypeOK
<1>13. CASE CancelAll \/ CancelRoot \/ ParentCancels
  BY <1>13, ZenonT(30) DEF CancelAll, CancelRoot, ParentCancels, TypeOK
<1>14. CASE CancelBump
  BY <1>1, <1>14, SignalledType DEF CancelBump, TypeOK, Calls, CallType
<1>15. CASE UNCHANGED vars
  BY <1>15 DEF TypeOK
<1> QED
  BY <1>2, <1>3, <1>4, <1>5, <1>6, <1>7, <1>8, <1>9, <1>10, <1>11, <1>12, <1>13, <1>14, <1>15
  DEF Next, Launch, Joining

LEMMA TypeInit == Init => TypeOK
<1> SUFFICES ASSUME Init PROVE TypeOK
  OBVIOUS
<1>1. NoCall \in CallType
  BY NoCallType
<1>2. waiters \in Seq(Job) /\ free \in 0 .. Slots /\ issued \in 0 .. MaxJobs
  BY DEF Init
<1>3. call \in [Caller -> CallType]
  BY <1>1 DEF Init
<1> QED
  BY <1>2, <1>3 DEF Init, TypeOK, CallType

-----------------------------------------------------------------------------
(***************************************************************************)
(* Where a job's task is, what the table says of it and what its body does *)
(* go together.                                                            *)
(***************************************************************************)
\* A step that leaves all but one job alone, and the tokens.
LEMMA OneMoves ==
  ASSUME TypeOK, NEW j \in Job, \A i \in Job : JobOK(i), JobOK(j)',
         UNCHANGED <<issued, closed, cancelled, delivered>>,
         \A i \in Job \ {j} : launch'[i] = launch[i] /\ state'[i] = state[i] /\ body'[i] = body[i]
  PROVE  \A i \in Job : JobOK(i)'
<1> SUFFICES ASSUME NEW i \in Job, i # j PROVE JobOK(i)'
  OBVIOUS
<1>1. JobOK(i) /\ launch'[i] = launch[i] /\ state'[i] = state[i] /\ body'[i] = body[i]
  OBVIOUS
<1> QED
  BY <1>1 DEF JobOK

LEMMA QueueKeeps ==
  ASSUME TypeOK, QueueOK, waiters' = waiters,
         \A i \in Job : launch[i] = "waiting" => launch'[i] = "waiting"
  PROVE  QueueOK'
<1>1. waiters \in Seq(Job)
  BY DEF TypeOK
<1>2. \A i \in 1 .. Len(waiters) : waiters[i] \in Job
  BY <1>1
<1> QED
  BY <1>2 DEF QueueOK

LEMMA AcquireKeeps == ASSUME TypeOK, JobInv, NEW j \in Issued, Acquire(j) PROVE JobInv'
<1> USE DEF jobVars
<1>1. j \in Job /\ JobOK(j) /\ launch[j] = "new" /\ waiters \in Seq(Job)
  BY DEF Acquire, Goes, Issued, Job, TypeOK, JobInv
<1>2. PICK l \in {"holding", "waiting"} : launch' = [launch EXCEPT ![j] = l]
  BY DEF Acquire, Goes
<1>3. launch'[j] = l /\ \A i \in Job \ {j} : launch'[i] = launch[i]
  BY <1>1, <1>2 DEF TypeOK
<1>4. UNCHANGED <<issued, closed, cancelled, delivered, state, body>>
  BY DEF Acquire
<1>5. JobOK(j)'
  BY <1>1, <1>3, <1>4 DEF JobOK, Before, Within, After
<1>6. \A i \in Job : JobOK(i)'
  BY <1>1, <1>3, <1>4, <1>5, OneMoves DEF JobInv
<1>7. CASE waiters' = waiters
  BY <1>1, <1>3, <1>6, <1>7, QueueKeeps DEF JobInv
<1>8. CASE waiters' = Append(waiters, j) /\ launch'[j] = "waiting"
  <2>1. /\ Len(waiters') = Len(waiters) + 1 /\ waiters'[Len(waiters) + 1] = j
        /\ \A i \in 1 .. Len(waiters) : waiters'[i] = waiters[i] /\ waiters[i] \in Job
    BY <1>1, <1>8
  <2>2. \A i \in 1 .. Len(waiters) : launch[waiters[i]] = "waiting"
    BY DEF JobInv, QueueOK
  <2>3. \A i \in 1 .. Len(waiters) : waiters[i] # j
    BY <1>1, <2>2
  <2>4. Len(waiters) \in Nat
    BY <1>1
  <2>5. QueueOK'
    BY <1>3, <1>8, <2>1, <2>2, <2>3, <2>4 DEF JobInv, QueueOK
  <2> QED
    BY <1>6, <2>5 DEF JobInv
<1> QED
  BY <1>1, <1>7, <1>8, <1>2 DEF Acquire, Goes, TypeOK

LEMMA AdmitKeeps == ASSUME TypeOK, JobInv, NEW j \in Issued, Admit(j) PROVE JobInv'
<1>1. j \in Job /\ JobOK(j) /\ launch[j] = "holding"
  BY DEF Admit, Goes, Issued, Job, TypeOK, JobInv
<1>2. UNCHANGED <<issued, closed, cancelled, delivered, body, waiters>>
  BY DEF Admit, slotVars
<1>3. /\ \A i \in Job \ {j} : launch'[i] = launch[i] /\ state'[i] = state[i]
      /\ \/ IsSettled(state[j]) /\ launch'[j] = "leaving" /\ state'[j] = state[j]
         \/ launch'[j] = "settled" /\ state'[j] = "Cancelled"
         \/ ~IsSettled(state[j]) /\ ~cancelled /\ launch'[j] = "admitted" /\ state'[j] = "Running"
  BY <1>1 DEF Admit, Goes, Record, TypeOK
<1>4. JobOK(j)'
  BY <1>1, <1>2, <1>3 DEF JobOK, Before, Within, After, IsSettled
<1>5. \A i \in Job : JobOK(i)'
  BY <1>1, <1>2, <1>3, <1>4, OneMoves DEF JobInv
<1> QED
  BY <1>1, <1>2, <1>3, <1>5, QueueKeeps DEF JobInv

LEMMA BodyKeeps ==
  ASSUME TypeOK, JobInv, NEW j \in Issued, StartBody(j) \/ SeeCancelled(j) \/ BodyEnds(j)
  PROVE  JobInv'
<1>1. j \in Job /\ JobOK(j)
  BY DEF Issued, Job, TypeOK, JobInv
<1>2. UNCHANGED <<issued, closed, cancelled, delivered, state, waiters>>
  BY DEF StartBody, SeeCancelled, BodyEnds, slotVars, jobVars
<1>3. /\ \A i \in Job \ {j} : launch'[i] = launch[i] /\ body'[i] = body[i]
      /\ \/ launch[j] = "admitted" /\ launch'[j] = "watching" /\ body'[j] = "live"
         \/ launch[j] = "watching" /\ launch'[j] = "grace" /\ body'[j] = body[j] /\ cancelled
         \/ body[j] = "live" /\ launch'[j] = launch[j] /\ body'[j] \in {"ok", "err"}
         \/ body[j] = "aborted" /\ launch'[j] = launch[j] /\ body'[j] = "gone"
  BY <1>1 DEF StartBody, SeeCancelled, BodyEnds, Goes, TypeOK
<1>4. JobOK(j)'
  BY <1>1, <1>2, <1>3 DEF JobOK, Before, Within, After
<1>5. \A i \in Job : JobOK(i)'
  BY <1>1, <1>2, <1>3, <1>4, OneMoves DEF JobInv
<1> QED
  BY <1>1, <1>2, <1>3, <1>5, QueueKeeps DEF JobInv

LEMMA SettleKeeps == ASSUME TypeOK, JobInv, NEW j \in Issued, Conclude(j) \/ Abandon(j) PROVE JobInv'
<1>1. j \in Job /\ JobOK(j)
  BY DEF Issued, Job, TypeOK, JobInv
<1>2. UNCHANGED <<issued, closed, cancelled, delivered, waiters>>
  BY DEF Conclude, Abandon, slotVars
<1>3. /\ \A i \in Job \ {j} : launch'[i] = launch[i] /\ body'[i] = body[i] /\ state'[i] = state[i]
      /\ launch[j] \in {"watching", "grace"} /\ launch'[j] = "settled"
      /\ \/ body'[j] = "gone" /\ state'[j] \in {"Done", "Failed"}
         \/ launch[j] = "grace" /\ body'[j] = "aborted" /\ state'[j] = "Cancelled"
  BY <1>1 DEF Conclude, Abandon, Goes, Record, Verdict, TypeOK
<1>4. JobOK(j)'
  BY <1>1, <1>2, <1>3 DEF JobOK, Before, Within, After, IsSettled
<1>5. \A i \in Job : JobOK(i)'
  BY <1>1, <1>2, <1>3, <1>4, OneMoves DEF JobInv
<1> QED
  BY <1>1, <1>2, <1>3, <1>5, QueueKeeps DEF JobInv

\* The job that leaves, and the one that gets its slot.
LEMMA LeaveMoves ==
  ASSUME TypeOK, JobInv, NEW j \in Issued, Leave(j)
  PROVE  /\ j \in Job /\ launch[j] \in {"settled", "leaving"} /\ launch'[j] = "gone"
         /\ UNCHANGED <<issued, key, state, closed, cancelled, delivered, body, ending, repeated>>
         /\ \/ /\ waiters = <<>> /\ waiters' = waiters /\ free' = free + 1
               /\ \A i \in Job \ {j} : launch'[i] = launch[i]
            \/ /\ waiters # <<>> /\ waiters' = Tail(waiters) /\ free' = free
               /\ Head(waiters) \in Job \ {j}
               /\ launch[Head(waiters)] = "waiting" /\ launch'[Head(waiters)] = "holding"
               /\ \A i \in Job \ {j, Head(waiters)} : launch'[i] = launch[i]
<1>1. j \in Job /\ launch[j] \in {"settled", "leaving"} /\ waiters \in Seq(Job)
  BY DEF Leave, Issued, Job, TypeOK
<1>2. UNCHANGED <<issued, key, state, closed, cancelled, delivered, body, ending, repeated>>
  BY DEF Leave, jobVars
<1>3. CASE waiters = <<>>
  BY <1>1, <1>2, <1>3 DEF Leave, TypeOK
<1>4. CASE waiters # <<>>
  <2>1. PICK h \in Job : h = Head(waiters) /\ h = waiters[1] /\ 1 \in 1 .. Len(waiters)
    BY <1>1, <1>4
  <2>2. launch[h] = "waiting" /\ h # j
    BY <1>1, <2>1 DEF JobInv, QueueOK
  <2>3. launch' = [launch EXCEPT ![j] = "gone", ![h] = "holding"] /\ waiters' = Tail(waiters) /\ free' = free
    BY <1>4, <2>1 DEF Leave
  <2>4. launch'[j] = "gone" /\ launch'[h] = "holding" /\ \A i \in Job \ {j, h} : launch'[i] = launch[i]
    BY <1>1, <2>2, <2>3 DEF TypeOK
  <2> QED
    BY <1>1, <1>2, <1>4, <2>1, <2>2, <2>3, <2>4
<1> QED
  BY <1>3, <1>4

LEMMA LeaveKeeps == ASSUME TypeOK, JobInv, NEW j \in Issued, Leave(j) PROVE JobInv'
<1>1. PICK h : h = Head(waiters)
  OBVIOUS
<1>2. /\ j \in Job /\ launch[j] \in {"settled", "leaving"} /\ launch'[j] = "gone"
      /\ UNCHANGED <<issued, key, state, closed, cancelled, delivered, body, ending, repeated>>
      /\ \/ /\ waiters' = waiters /\ \A i \in Job \ {j} : launch'[i] = launch[i]
         \/ /\ waiters # <<>> /\ waiters' = Tail(waiters)
            /\ h \in Job \ {j} /\ launch[h] = "waiting" /\ launch'[h] = "holding"
            /\ \A i \in Job \ {j, h} : launch'[i] = launch[i]
  BY <1>1, LeaveMoves
<1>3. ASSUME NEW i \in Job PROVE JobOK(i)'
  <2>1. JobOK(i)
    BY DEF JobInv
  <2>2. \/ launch'[i] = launch[i]
        \/ launch[i] \in {"settled", "leaving"} /\ launch'[i] = "gone"
        \/ launch[i] = "waiting" /\ launch'[i] = "holding"
    BY <1>2
  <2> QED
    BY <1>2, <2>1, <2>2 DEF JobOK, Before, Within, After
<1>4. CASE waiters' = waiters /\ \A i \in Job \ {j} : launch'[i] = launch[i]
  BY <1>2, <1>3, <1>4, QueueKeeps DEF JobInv
<1>5. CASE /\ waiters # <<>> /\ waiters' = Tail(waiters)
           /\ h \in Job \ {j} /\ launch[h] = "waiting" /\ launch'[h] = "holding"
           /\ \A i \in Job \ {j, h} : launch'[i] = launch[i]
  <2>1. waiters \in Seq(Job) /\ h = waiters[1] /\ Len(waiters) \in Nat \ {0}
    BY <1>1, <1>5 DEF TypeOK
  <2>2. Len(waiters') = Len(waiters) - 1 /\ \A i \in 1 .. Len(waiters) - 1 : waiters'[i] = waiters[i + 1]
    BY <1>5, <2>1
  <2>3. \A i \in 1 .. Len(waiters) : waiters[i] \in Job /\ launch[waiters[i]] = "waiting"
    BY <2>1 DEF JobInv, QueueOK
  <2>4. \A i, k \in 1 .. Len(waiters) : waiters[i] = waiters[k] => i = k
    BY DEF JobInv, QueueOK
  <2>5. ASSUME NEW i \in 1 .. Len(waiters')
        PROVE  i + 1 \in 1 .. Len(waiters) /\ waiters'[i] = waiters[i + 1] /\ launch'[waiters'[i]] = "waiting"
    <3>1. i + 1 \in 1 .. Len(waiters) /\ waiters'[i] = waiters[i + 1] /\ 1 \in 1 .. Len(waiters) /\ i + 1 # 1
      BY <2>1, <2>2
    <3>2. waiters[i + 1] # h /\ waiters[i + 1] \in Job /\ launch[waiters[i + 1]] = "waiting"
      BY <2>1, <2>3, <2>4, <3>1
    <3> QED
      BY <1>2, <1>5, <3>1, <3>2
  <2>6. \A i, k \in 1 .. Len(waiters') : waiters'[i] = waiters'[k] => i = k
    BY <2>1, <2>2, <2>4, <2>5
  <2> QED
    BY <1>3, <2>5, <2>6 DEF JobInv, QueueOK
<1> QED
  BY <1>2, <1>4, <1>5

LEMMA SpawnKeeps == ASSUME TypeOK, JobInv, NEW k \in Key \cup {NoKey}, Spawn(k) PROVE JobInv'
<1>1. PICK n \in Job : n = issued + 1
  BY DEF Spawn, TypeOK, Job
<1>2. /\ issued' = n /\ launch' = [launch EXCEPT ![n] = "new"] /\ state' = [state EXCEPT ![n] = "Queued"]
      /\ UNCHANGED <<closed, cancelled, delivered, body, waiters>> /\ ~closed
  BY <1>1 DEF Spawn, Refusing, slotVars
<1>3. JobOK(n) /\ issued \in Nat
  BY DEF JobInv, TypeOK
<1>4. launch[n] = "none" /\ launch'[n] = "new" /\ state'[n] = "Queued"
  BY <1>1, <1>2, <1>3 DEF JobOK, TypeOK, Job
<1>5. ASSUME NEW i \in Job PROVE JobOK(i)'
  <2>1. CASE i = n
    BY <1>1, <1>2, <1>3, <1>4, <2>1 DEF JobOK, Before, Within, After, Job, IsSettled
  <2>2. CASE i # n
    <3>1. JobOK(i) /\ launch'[i] = launch[i] /\ state'[i] = state[i]
      BY <1>2, <2>2 DEF JobInv, TypeOK
    <3>2. i <= issued' <=> i <= issued
      BY <1>1, <1>2, <1>3, <2>2 DEF Job
    <3> QED
      BY <1>2, <3>1, <3>2 DEF JobOK
  <2> QED
    BY <2>1, <2>2
<1>6. \A i \in Job : launch[i] = "waiting" => launch'[i] = "waiting"
  BY <1>2, <1>4 DEF TypeOK
<1> QED
  BY <1>2, <1>5, <1>6, QueueKeeps DEF JobInv

\* What is handed out is settled.
LEMMA CollectKeeps ==
  ASSUME TypeOK, JobInv, NEW js, HandOut(Fresh(js)), UNCHANGED callFrame
  PROVE  JobInv'
<1>1. ASSUME NEW i \in Job PROVE JobOK(i)'
  <2>1. JobOK(i)
    BY DEF JobInv
  <2>2. delivered'[i] => delivered[i] \/ IsSettled(state[i])
    BY DEF HandOut, Fresh
  <2> QED
    BY <2>1, <2>2 DEF JobOK, callFrame, jobVars
<1> QED
  BY <1>1, QueueKeeps DEF JobInv, callFrame, slotVars

LEMMA CancelKeeps ==
  ASSUME TypeOK, JobInv, CancelAll \/ CancelRoot \/ CancelBump \/ ParentCancels
  PROVE  JobInv'
<1>1. UNCHANGED <<issued, delivered, launch, waiters, body>> /\ (cancelled => cancelled')
  BY DEF CancelAll, CancelRoot, CancelBump, ParentCancels, jobVars, slotVars
<1>2. ASSUME NEW i \in Job PROVE JobOK(i)'
  <2>1. JobOK(i)
    BY DEF JobInv
  <2>2. CASE CancelAll
    <3>1. state'[i] = IF state[i] = "Queued" THEN "Cancelled" ELSE state[i]
      BY <2>2 DEF CancelAll
    <3> QED
      BY <1>1, <2>1, <3>1 DEF JobOK, Before, Within, After, IsSettled
  <2>3. CASE CancelRoot \/ CancelBump \/ ParentCancels
    <3>1. UNCHANGED <<state, closed>>
      BY <2>3 DEF CancelRoot, CancelBump, ParentCancels, jobVars
    <3> QED
      BY <1>1, <2>1, <3>1 DEF JobOK
  <2> QED
    BY <2>2, <2>3
<1> QED
  BY <1>1, <1>2, QueueKeeps DEF JobInv

\* Nothing of a job changes.
LEMMA IdleKeeps ==
  ASSUME TypeOK, JobInv, UNCHANGED <<jobVars, delivered, cancelled, launch, slotVars, body>>
  PROVE  JobInv'
BY QueueKeeps DEF JobInv, JobOK, jobVars, slotVars

LEMMA JobStep == ASSUME TypeOK, JobInv, [Next]_vars PROVE JobInv'
<1>1. ASSUME NEW c \in Caller, Ask(c) \/ Joining(c) \/ TimeOut(c) PROVE JobInv'
  <2>1. CASE Collect(c)
    BY <2>1, CollectKeeps DEF Collect
  <2>2. CASE Ask(c) \/ Check(c) \/ Listen(c) \/ Wake(c) \/ TimeOut(c)
    BY <2>2, IdleKeeps DEF Ask, Check, Listen, Wake, TimeOut, callFrame
  <2> QED
    BY <1>1, <2>1, <2>2 DEF Joining
<1>2. ASSUME Drain PROVE JobInv'
  BY <1>2, CollectKeeps DEF Drain
<1>3. ASSUME UNCHANGED vars PROVE JobInv'
  BY <1>3, IdleKeeps DEF vars
<1> QED
  BY <1>1, <1>2, <1>3, SpawnKeeps, AcquireKeeps, AdmitKeeps, BodyKeeps, SettleKeeps, LeaveKeeps, CancelKeeps
  DEF Next, Launch

-----------------------------------------------------------------------------
(***************************************************************************)
(* The slots.                                                              *)
(***************************************************************************)
Holders == {j \in Job : launch[j] \in Holding}
Crowd == {j \in Job : launch[j] = "admitted" \/ body[j] \in {"live", "aborted"}}

\* Each slot is free or somebody's, and nobody starts a body without one;
\* an aborted body may outlast its job's permit.
Quota == Cardinality(Holders) + free = Slots /\ Cardinality(Crowd) <= Slots

LEMMA Counts ==
  /\ IsFiniteSet(Job)
  /\ IsFiniteSet(Holders) /\ IsFiniteSet(Holders') /\ IsFiniteSet(Crowd) /\ IsFiniteSet(Crowd')
  /\ Cardinality(Holders) \in Nat /\ Cardinality(Holders') \in Nat
  /\ Cardinality(Crowd) \in Nat /\ Cardinality(Crowd') \in Nat
<1>1. IsFiniteSet(Job)
  BY FS_Interval DEF Job
<1>2. Holders \subseteq Job /\ Holders' \subseteq Job /\ Crowd \subseteq Job /\ Crowd' \subseteq Job
  BY DEF Holders, Crowd
<1>3. IsFiniteSet(Holders) /\ IsFiniteSet(Holders') /\ IsFiniteSet(Crowd) /\ IsFiniteSet(Crowd')
  BY <1>1, <1>2, FS_Subset
<1> QED
  BY <1>1, <1>3, FS_CardinalityType

LEMMA SpareSlot == ASSUME TypeOK, Quota PROVE Spare
<1> SUFFICES ASSUME NEW j \in Job, launch[j] \in {"settled", "leaving"} PROVE free < Slots
  BY DEF Spare
<1>1. j \in Holders
  BY DEF Holders, Holding
<1>2. Cardinality(Holders) # 0
  BY <1>1, Counts, FS_EmptySet
<1> QED
  BY <1>2, Counts DEF Quota, TypeOK

\* The slots that are out, after each step.
LEMMA HoldersStep ==
  ASSUME TypeOK, JobInv, Quota, [Next]_vars
  PROVE  Cardinality(Holders') + free' = Slots
<1> USE DEF Goes, Issued, Job
<1>1. Cardinality(Holders) + free = Slots /\ free \in Nat /\ Slots \in Nat
  BY DEF Quota, TypeOK
<1>2. ASSUME Holders' = Holders, free' = free PROVE Cardinality(Holders') + free' = Slots
  BY <1>1, <1>2
<1>3. ASSUME NEW k \in Key \cup {NoKey}, Spawn(k) PROVE Cardinality(Holders') + free' = Slots
  <2>1. PICK n \in Job : n = issued + 1
    BY <1>3 DEF Spawn, TypeOK
  <2>2. JobOK(n) /\ launch' = [launch EXCEPT ![n] = "new"] /\ free' = free
    BY <1>3, <2>1 DEF Spawn, JobInv, slotVars
  <2>3. launch[n] = "none"
    BY <2>1, <2>2 DEF JobOK, TypeOK
  <2>4. Holders' = Holders
    BY <2>2, <2>3 DEF Holders, Holding, Within, TypeOK
  <2> QED
    BY <1>2, <2>2, <2>4
<1>4. ASSUME NEW j \in Issued, Acquire(j) PROVE Cardinality(Holders') + free' = Slots
  <2>1. j \in Job /\ j \notin Holders
    BY <1>4 DEF TypeOK, Acquire, Holders, Holding, Within
  <2>2. CASE launch' = [launch EXCEPT ![j] = "holding"] /\ free' = free - 1
    <3>1. Holders' = Holders \cup {j}
      BY <2>1, <2>2 DEF Holders, Holding, Within, TypeOK
    <3>2. Cardinality(Holders') = Cardinality(Holders) + 1
      BY <2>1, <3>1, Counts, FS_AddElement
    <3> QED
      BY <1>1, <2>2, <3>2, Counts
  <2>3. CASE launch' = [launch EXCEPT ![j] = "waiting"] /\ free' = free
    <3>1. Holders' = Holders
      BY <2>1, <2>3 DEF Holders, Holding, Within, TypeOK
    <3> QED
      BY <1>2, <2>3, <3>1
  <2> QED
    BY <1>4, <2>2, <2>3 DEF Acquire
<1>5. ASSUME NEW j \in Issued, Admit(j) \/ StartBody(j) \/ SeeCancelled(j) \/ Conclude(j) \/ Abandon(j)
      PROVE  Cardinality(Holders') + free' = Slots
  <2>1. PICK l \in Holding : launch' = [launch EXCEPT ![j] = l]
    BY <1>5 DEF Admit, StartBody, SeeCancelled, Conclude, Abandon, Holding, Within
  <2>2. j \in Job /\ launch[j] \in Holding /\ free' = free
    BY <1>5 DEF Admit, StartBody, SeeCancelled, Conclude, Abandon, Holding, Within, TypeOK, slotVars
  <2>3. Holders' = Holders
    BY <2>1, <2>2 DEF Holders, TypeOK
  <2> QED
    BY <1>2, <2>2, <2>3
<1>6. ASSUME NEW j \in Issued, Leave(j) PROVE Cardinality(Holders') + free' = Slots
  <2>1. PICK h : h = Head(waiters)
    OBVIOUS
  <2>2. /\ j \in Job /\ launch[j] \in {"settled", "leaving"} /\ launch'[j] = "gone"
        /\ \/ free' = free + 1 /\ \A i \in Job \ {j} : launch'[i] = launch[i]
           \/ /\ free' = free /\ h \in Job \ {j} /\ launch[h] = "waiting" /\ launch'[h] = "holding"
              /\ \A i \in Job \ {j, h} : launch'[i] = launch[i]
    BY <1>6, <2>1, LeaveMoves
  <2>3. j \in Holders
    BY <2>2 DEF Holders, Holding
  <2>4. PICK left : left = Holders \ {j}
    OBVIOUS
  <2>5. IsFiniteSet(left) /\ Cardinality(left) = Cardinality(Holders) - 1
    BY <2>3, <2>4, Counts, FS_RemoveElement
  <2>6. CASE free' = free + 1 /\ \A i \in Job \ {j} : launch'[i] = launch[i]
    <3>1. Holders' = left
      BY <2>2, <2>4, <2>6 DEF Holders, Holding, Within
    <3> QED
      BY <1>1, <2>5, <2>6, <3>1, Counts
  <2>7. CASE /\ free' = free /\ h \in Job \ {j} /\ launch[h] = "waiting" /\ launch'[h] = "holding"
             /\ \A i \in Job \ {j, h} : launch'[i] = launch[i]
    <3>1. Holders' = left \cup {h} /\ h \notin left
      BY <2>2, <2>4, <2>7 DEF Holders, Holding, Within
    <3>2. Cardinality(Holders') = Cardinality(left) + 1
      BY <2>5, <3>1, FS_AddElement
    <3> QED
      BY <1>1, <2>5, <2>7, <3>2, Counts
  <2> QED
    BY <2>2, <2>6, <2>7
<1>7. ASSUME UNCHANGED <<launch, free>> PROVE Cardinality(Holders') + free' = Slots
  <2>1. Holders' = Holders
    BY <1>7 DEF Holders
  <2> QED
    BY <1>2, <1>7, <2>1
<1>8. ASSUME NEW j \in Issued, BodyEnds(j) PROVE UNCHANGED <<launch, free>>
  BY <1>8 DEF BodyEnds, slotVars
<1>9. ASSUME NEW c \in Caller, Ask(c) \/ Joining(c) \/ TimeOut(c) PROVE UNCHANGED <<launch, free>>
  BY <1>9 DEF Ask, Joining, Check, Listen, Wake, TimeOut, Collect, callFrame, slotVars
<1>10. ASSUME Drain \/ CancelAll \/ CancelRoot \/ CancelBump \/ ParentCancels \/ UNCHANGED vars
       PROVE  UNCHANGED <<launch, free>>
  BY <1>10 DEF Drain, CancelAll, CancelRoot, CancelBump, ParentCancels, vars, callFrame, slotVars
<1> QED
  BY <1>3, <1>4, <1>5, <1>6, <1>7, <1>8, <1>9, <1>10 DEF Next, Launch

\* Only an admission adds to those who have or will have a body, and it
\* comes while every one of them still has its slot.
LEMMA CrowdStep ==
  ASSUME TypeOK, JobInv, Quota, [Next]_vars, Cardinality(Holders') + free' = Slots, TypeOK'
  PROVE  Cardinality(Crowd') <= Slots
<1> USE DEF Goes, Issued, Job
<1>1. Cardinality(Crowd) <= Slots /\ Slots \in Nat
  BY DEF Quota
<1>2. ASSUME Crowd' \subseteq Crowd PROVE Cardinality(Crowd') <= Slots
  <2>1. Cardinality(Crowd') <= Cardinality(Crowd)
    BY <1>2, Counts, FS_Subset
  <2> QED
    BY <1>1, <2>1, Counts
<1>3. ASSUME NEW j \in Issued, Admit(j) PROVE Cardinality(Crowd') <= Slots
  <2>1. j \in Job /\ body' = body
    BY <1>3 DEF TypeOK, Admit
  <2>2. CASE cancelled \/ IsSettled(state[j])
    <3>1. PICK l \in {"leaving", "settled"} : launch' = [launch EXCEPT ![j] = l]
      BY <1>3, <2>2 DEF Admit
    <3>2. Crowd' \subseteq Crowd
      BY <2>1, <3>1 DEF Crowd, TypeOK
    <3> QED
      BY <1>2, <3>2
  <2>3. CASE ~cancelled /\ ~IsSettled(state[j])
    <3>1. launch' = [launch EXCEPT ![j] = "admitted"]
      BY <1>3, <2>3 DEF Admit
    <3>2. ASSUME NEW i \in Crowd' PROVE i \in Holders'
      <4>1. JobOK(i) /\ i \in Job
        BY DEF JobInv, Crowd
      <4>2. launch'[i] = IF i = j THEN "admitted" ELSE launch[i]
        BY <2>1, <3>1, <4>1 DEF TypeOK
      <4>3. launch'[i] = "admitted" \/ body[i] \in {"live", "aborted"}
        BY <2>1 DEF Crowd
      <4> QED
        BY <2>3, <4>1, <4>2, <4>3 DEF JobOK, Holders, Holding, Within
    <3>3. Cardinality(Crowd') <= Cardinality(Holders')
      BY <3>2, Counts, FS_Subset
    <3>4. free' \in Nat
      BY DEF TypeOK
    <3> QED
      BY <1>1, <3>3, <3>4, Counts
  <2> QED
    BY <2>2, <2>3
<1>4. ASSUME NEW k \in Key \cup {NoKey}, Spawn(k) PROVE Cardinality(Crowd') <= Slots
  <2>1. PICK n \in Job : n = issued + 1
    BY <1>4 DEF Spawn, TypeOK
  <2>2. launch' = [launch EXCEPT ![n] = "new"] /\ body' = body
    BY <1>4, <2>1 DEF Spawn
  <2>3. Crowd' \subseteq Crowd
    BY <2>1, <2>2 DEF Crowd, TypeOK
  <2> QED
    BY <1>2, <2>3
<1>5. ASSUME NEW j \in Issued, Acquire(j) \/ SeeCancelled(j) PROVE Cardinality(Crowd') <= Slots
  <2>1. PICK l \in {"holding", "waiting", "grace"} : launch' = [launch EXCEPT ![j] = l]
    BY <1>5 DEF Acquire, SeeCancelled
  <2>2. body' = body
    BY <1>5 DEF Acquire, SeeCancelled
  <2>3. Crowd' \subseteq Crowd
    BY <2>1, <2>2 DEF Crowd, TypeOK
  <2> QED
    BY <1>2, <2>3
<1>6. ASSUME NEW j \in Issued, StartBody(j) \/ BodyEnds(j) \/ Conclude(j) \/ Abandon(j)
      PROVE  Cardinality(Crowd') <= Slots
  <2>1. j \in Job
    BY DEF TypeOK
  <2>2. /\ \A i \in Job \ {j} : launch'[i] = launch[i] /\ body'[i] = body[i]
        /\ launch'[j] # "admitted" \/ launch'[j] = launch[j]
        /\ launch[j] = "admitted" \/ body[j] = "live" \/ body'[j] \notin {"live", "aborted"}
    <3>1. CASE StartBody(j) \/ Conclude(j) \/ Abandon(j)
      BY <2>1, <3>1 DEF StartBody, Conclude, Abandon, TypeOK
    <3>2. CASE BodyEnds(j)
      <4>1. PICK v \in {"ok", "err", "gone"} : body' = [body EXCEPT ![j] = v] /\ launch' = launch
        BY <3>2 DEF BodyEnds
      <4> QED
        BY <2>1, <4>1 DEF TypeOK
    <3> QED
      BY <1>6, <3>1, <3>2
  <2>3. Crowd' \subseteq Crowd
    BY <2>1, <2>2 DEF Crowd
  <2> QED
    BY <1>2, <2>3
<1>7. ASSUME NEW j \in Issued, Leave(j) PROVE Cardinality(Crowd') <= Slots
  <2>1. \A i \in Job : launch'[i] \in {launch[i], "gone", "holding"} /\ body'[i] = body[i]
    BY <1>7, LeaveMoves
  <2>2. Crowd' \subseteq Crowd
    BY <2>1 DEF Crowd
  <2> QED
    BY <1>2, <2>2
<1>8. ASSUME UNCHANGED <<launch, body>> PROVE Cardinality(Crowd') <= Slots
  <2>1. Crowd' = Crowd
    BY <1>8 DEF Crowd
  <2> QED
    BY <1>2, <2>1
<1>9. ASSUME NEW c \in Caller, Ask(c) \/ Joining(c) \/ TimeOut(c) PROVE UNCHANGED <<launch, body>>
  BY <1>9 DEF Ask, Joining, Check, Listen, Wake, TimeOut, Collect, callFrame
<1>10. ASSUME Drain \/ CancelAll \/ CancelRoot \/ CancelBump \/ ParentCancels \/ UNCHANGED vars
       PROVE  UNCHANGED <<launch, body>>
  BY <1>10 DEF Drain, CancelAll, CancelRoot, CancelBump, ParentCancels, vars, callFrame
<1> QED
  BY <1>3, <1>4, <1>5, <1>6, <1>7, <1>8, <1>9, <1>10 DEF Next, Launch

-----------------------------------------------------------------------------
(***************************************************************************)
(* Outcomes and those who wait for them.                                   *)
(***************************************************************************)
\* No step touches what is settled.
LEMMA SettledStays ==
  ASSUME TypeOK, JobInv, [Next]_vars, NEW i \in Job, IsSettled(state[i])
  PROVE  state'[i] = state[i]
<1> USE DEF Issued, Job
<1>1. JobOK(i)
  BY DEF JobInv
<1>2. ASSUME NEW k \in Key \cup {NoKey}, Spawn(k) PROVE state'[i] = state[i]
  <2>1. PICK n \in Job : n = issued + 1
    BY <1>2 DEF Spawn, TypeOK
  <2>2. state' = [state EXCEPT ![n] = "Queued"]
    BY <1>2, <2>1 DEF Spawn
  <2>3. i # n
    BY <1>1, <2>1 DEF JobOK, TypeOK, IsSettled
  <2> QED
    BY <2>2, <2>3 DEF TypeOK
<1>3. ASSUME NEW j \in Issued, Launch(j) \/ BodyEnds(j) PROVE state'[i] = state[i]
  <2>1. CASE Admit(j)
    BY <2>1 DEF Admit, Record, TypeOK
  <2>2. CASE Conclude(j) \/ Abandon(j)
    <3>1. launch[j] \in Within /\ state' = [state EXCEPT ![j] = state'[j]]
      BY <2>2 DEF Conclude, Abandon, Goes, Record, Within, TypeOK
    <3>2. i # j
      BY <1>1, <3>1 DEF JobOK, IsSettled
    <3> QED
      BY <3>1, <3>2 DEF TypeOK
  <2>3. CASE Acquire(j) \/ StartBody(j) \/ SeeCancelled(j) \/ BodyEnds(j) \/ Leave(j)
    BY <2>3 DEF Acquire, StartBody, SeeCancelled, BodyEnds, Leave, jobVars
  <2> QED
    BY <1>3, <2>1, <2>2, <2>3 DEF Launch
<1>4. ASSUME NEW c \in Caller, Ask(c) \/ Joining(c) \/ TimeOut(c) PROVE state'[i] = state[i]
  BY <1>4 DEF Ask, Joining, Check, Listen, Wake, TimeOut, Collect, callFrame, jobVars
<1>5. ASSUME CancelAll PROVE state'[i] = state[i]
  BY <1>5 DEF CancelAll, IsSettled
<1>6. ASSUME Drain \/ CancelRoot \/ CancelBump \/ ParentCancels \/ UNCHANGED vars
      PROVE  state'[i] = state[i]
  BY <1>6 DEF Drain, CancelRoot, CancelBump, ParentCancels, vars, callFrame, jobVars
<1> QED
  BY <1>2, <1>3, <1>4, <1>5, <1>6 DEF Next

LEMMA CallStep ==
  ASSUME TypeOK, JobInv, [Next]_vars, \A c \in Caller : CallOK(c)
  PROVE  \A c \in Caller : CallOK(c)'
<1> SUFFICES ASSUME NEW c \in Caller PROVE CallOK(c)'
  OBVIOUS
<1>1. call \in Calls /\ \A i \in Job : IsSettled(state[i]) => IsSettled(state[i])'
  BY SettledStays DEF TypeOK, Calls, CallType
<1>2. call[c].targets \subseteq Job
  BY <1>1 DEF Calls, CallType
<1>3. ASSUME \/ call'[c] = call[c]
             \/ /\ call'[c].pc = call[c].pc /\ call'[c].targets = call[c].targets
                /\ call'[c].mode = call[c].mode /\ call'[c].block = call[c].block
                /\ call'[c].timedOut = call[c].timedOut
      PROVE  CallOK(c)'
  BY <1>1, <1>2, <1>3 DEF CallOK, Completes
<1>4. ASSUME NEW d \in Caller, Ask(d) PROVE CallOK(c)'
  <2>1. PICK f \in CallType : /\ call' = [call EXCEPT ![d] = f]
                              /\ f.pc \in {"checking", "collecting"}
                              /\ f.pc = "collecting" => ~f.block \/ f.targets = {}
    BY <1>4, AskType
  <2>2. call'[d] = f /\ \A e \in Caller \ {d} : call'[e] = call[e]
    BY <1>1, <2>1, SetCall
  <2>3. CASE c = d
    BY <2>1, <2>2, <2>3 DEF CallOK, Completes
  <2> QED
    BY <1>3, <2>2, <2>3
<1>5. ASSUME NEW d \in Caller, Check(d) \/ Listen(d) \/ Wake(d) \/ TimeOut(d) PROVE CallOK(c)'
  <2>1. PICK f \in CallType : /\ call' = [call EXCEPT ![d] = f]
                              /\ f.targets = call[d].targets /\ f.mode = call[d].mode
                              /\ f.pc = "collecting" => f.timedOut \/ Satisfied(d)
    BY <1>1, <1>5, JoinType
  <2>2. call'[d] = f /\ \A e \in Caller \ {d} : call'[e] = call[e]
    BY <1>1, <2>1, SetCall
  <2>3. CASE c = d
    <3>1. SUFFICES ASSUME f.pc = "collecting", ~f.timedOut, f.mode = "all"
                   PROVE  \A j \in f.targets : IsSettled(state[j])'
      BY <2>2, <2>3 DEF CallOK, Completes
    <3>2. \A j \in f.targets : IsSettled(state[j])
      BY <2>1, <3>1 DEF Satisfied
    <3> QED
      BY <1>1, <1>2, <2>1, <2>3, <3>2
  <2> QED
    BY <1>3, <2>2, <2>3
<1>6. ASSUME NEW d \in Caller, Collect(d) PROVE CallOK(c)'
  <2>1. call'[d] = NoCall /\ \A e \in Caller \ {d} : call'[e] = call[e]
    BY <1>1, <1>6, NoCallType, SetCall DEF Collect
  <2>2. CASE c = d
    BY <2>1, <2>2, NoCallType DEF CallOK
  <2> QED
    BY <1>3, <2>1, <2>2
<1>7. ASSUME call' \in {call, Signalled} PROVE CallOK(c)'
  BY <1>1, <1>3, <1>7, SignalledType
<1>8. ASSUME NEW j \in Issued, Leave(j) PROVE call' \in {call, Signalled}
  BY <1>8 DEF Leave, News
<1>9. ASSUME NEW j \in Issued, BodyEnds(j) \/ Launch(j) PROVE call' \in {call, Signalled}
  BY <1>8, <1>9 DEF BodyEnds, Launch, Acquire, Admit, StartBody, SeeCancelled, Conclude, Abandon
<1>10. ASSUME \/ \E k \in Key \cup {NoKey} : Spawn(k)
              \/ Drain \/ CancelAll \/ CancelRoot \/ CancelBump \/ ParentCancels \/ UNCHANGED vars
       PROVE  call' \in {call, Signalled}
  BY <1>10 DEF Spawn, Drain, CancelAll, CancelRoot, CancelBump, ParentCancels, vars
<1> QED
  BY <1>4, <1>5, <1>6, <1>7, <1>9, <1>10 DEF Next, Joining

LEMMA RepeatedStep == ASSUME TypeOK, DeliveredOnce, [Next]_vars PROVE DeliveredOnce'
<1>1. ASSUME NEW js, HandOut(Fresh(js)) PROVE DeliveredOnce'
  BY <1>1 DEF HandOut, Fresh, DeliveredOnce
<1>2. ASSUME repeated' = repeated PROVE DeliveredOnce'
  BY <1>2 DEF DeliveredOnce
<1>3. ASSUME NEW j \in Issued, Launch(j) \/ BodyEnds(j) PROVE repeated' = repeated
  BY <1>3 DEF Launch, Acquire, Admit, StartBody, SeeCancelled, Conclude, Abandon, Leave, BodyEnds
<1>4. ASSUME NEW c \in Caller, Ask(c) \/ Joining(c) \/ TimeOut(c) PROVE DeliveredOnce'
  BY <1>1, <1>2, <1>4 DEF Ask, Joining, Check, Listen, Wake, TimeOut, Collect
<1>5. ASSUME NEW k, Spawn(k) PROVE repeated' = repeated
  BY <1>5 DEF Spawn
<1>6. ASSUME CancelAll \/ CancelRoot \/ CancelBump \/ ParentCancels \/ UNCHANGED vars PROVE repeated' = repeated
  BY <1>6 DEF CancelAll, CancelRoot, CancelBump, ParentCancels, vars
<1> QED
  BY <1>1, <1>2, <1>3, <1>4, <1>5, <1>6 DEF Next, Drain

-----------------------------------------------------------------------------
(***************************************************************************)
(* The inductive invariant, and what follows from it.                      *)
(***************************************************************************)
IInv == TypeOK /\ JobInv /\ Quota /\ DeliveredOnce /\ \A c \in Caller : CallOK(c)

LEMMA Inductive == IInv /\ [Next]_vars => IInv'
<1> SUFFICES ASSUME IInv, [Next]_vars PROVE IInv'
  OBVIOUS
<1>1. TypeOK'
  BY SpareSlot, TypeStep DEF IInv
<1>2. Quota'
  BY <1>1, HoldersStep, CrowdStep DEF IInv, Quota
<1> QED
  BY <1>1, <1>2, JobStep, CallStep, RepeatedStep DEF IInv

LEMMA Beginning == Init => IInv
<1> SUFFICES ASSUME Init PROVE IInv
  OBVIOUS
<1>1. TypeOK /\ DeliveredOnce
  BY TypeInit DEF Init, DeliveredOnce
<1>2. JobInv
  BY DEF Init, JobInv, JobOK, QueueOK, Before, Within, After, Job, IsSettled
<1>3. \A c \in Caller : CallOK(c)
  BY NoCallType DEF Init, CallOK
<1>4. Holders = {} /\ Crowd = {}
  BY DEF Init, Holders, Crowd, Holding, Within
<1>5. Quota
  BY <1>4, FS_EmptySet DEF Quota, Init
<1> QED
  BY <1>1, <1>2, <1>3, <1>5 DEF IInv

LEMMA Always == Spec => []IInv
BY Beginning, Inductive, PTL DEF Spec

(* The types, whatever the numbers of jobs, slots and callers are: no slot *)
(* is ever given back that was not out.                                    *)
THEOREM TypeCorrect == Spec => []TypeOK
<1>1. IInv => TypeOK
  BY DEF IInv
<1> QED
  BY <1>1, Always, PTL

(* Never more bodies than slots, those that were aborted and have not gone *)
(* included: the semaphore alone would not give it, since an abandoned job *)
(* drops its permit before its body is gone; that nothing is admitted once *)
(* the token has fired does.                                               *)
THEOREM BoundedBodies == Spec => []BodiesWithinSlots
<1>1. ASSUME IInv PROVE BodiesWithinSlots
  <2>1. PICK bodies : bodies = {j \in Job : body[j] \in {"live", "aborted"}}
    OBVIOUS
  <2>2. bodies \subseteq Crowd
    BY <2>1 DEF Crowd
  <2>3. IsFiniteSet(bodies) /\ Cardinality(bodies) <= Cardinality(Crowd)
    BY <2>2, Counts, FS_Subset
  <2>4. Cardinality(bodies) \in Nat /\ Cardinality(Crowd) <= Slots
    BY <1>1, <2>3, FS_CardinalityType DEF IInv, Quota
  <2>5. Cardinality(bodies) <= Slots
    BY <2>3, <2>4, Counts
  <2> QED
    BY <2>1, <2>5 DEF BodiesWithinSlots
<1> QED
  BY <1>1, Always, PTL

(* However joins and drains overlap, no outcome is handed out twice.       *)
THEOREM OneDelivery == Spec => []DeliveredOnce
<1>1. IInv => DeliveredOnce
  BY DEF IInv
<1> QED
  BY <1>1, Always, PTL

(* What a join or a drain may have reported stays as it was reported: no   *)
(* late body, abandon or cancel_all settles a job again.                   *)
THEOREM FinalOutcome == Spec => OutcomeIsFinal
<1>1. ASSUME IInv, [Next]_vars PROVE [\A j \in Job : IsSettled(state[j]) => state'[j] = state[j]]_vars
  BY <1>1, SettledStays DEF IInv
<1> QED
  BY <1>1, Always, PTL DEF Spec, OutcomeIsFinal

(* A blocking join for all of its jobs that did not time out is complete,  *)
(* whatever else is handed out, settled or cancelled while it waits.       *)
THEOREM CompleteJoin == Spec => JoinIsComplete
<1> DEFINE A == \A c \in Caller :
                  call[c].pc = "collecting" /\ call'[c].pc = "idle" /\ Completes(c) =>
                    \A j \in call[c].targets : IsSettled(state[j]) /\ delivered'[j]
<1>1. ASSUME IInv, [Next]_vars PROVE [A]_vars
  <2> SUFFICES ASSUME NEW c \in Caller, call[c].pc = "collecting", call'[c].pc = "idle", Completes(c),
                      NEW j \in call[c].targets
               PROVE  IsSettled(state[j]) /\ delivered'[j]
    OBVIOUS
  <2>1. IsSettled(state[j])
    BY <1>1 DEF IInv, CallOK
  <2>2. call \in Calls /\ j \in Job
    BY <1>1 DEF IInv, TypeOK, Calls, CallType
  <2>3. ASSUME call'[c].pc = call[c].pc PROVE FALSE
    BY <2>3
  <2>4. Collect(c)
    <3>1. ASSUME NEW d \in Caller, d # c, Ask(d) \/ Check(d) \/ Listen(d) \/ Wake(d) \/ TimeOut(d) \/ Collect(d)
          PROVE  FALSE
      <4>1. \E f \in CallType : call' = [call EXCEPT ![d] = f]
        BY <1>1, <2>2, <3>1, AskType, JoinType, NoCallType DEF IInv, Collect
      <4> QED
        BY <2>2, <2>3, <3>1, <4>1, SetCall
    <3>2. ~(Ask(c) \/ Check(c) \/ Listen(c) \/ Wake(c) \/ TimeOut(c))
      BY DEF Ask, Check, Listen, Wake, TimeOut
    <3>3. call' \notin {call, Signalled}
      BY <2>2, <2>3, SignalledType
    <3>4. ASSUME NEW i \in Issued, Launch(i) \/ BodyEnds(i) PROVE FALSE
      BY <3>3, <3>4 DEF Launch, Acquire, Admit, StartBody, SeeCancelled, Conclude, Abandon, Leave, News, BodyEnds
    <3>5. ~(\E k \in Key \cup {NoKey} : Spawn(k)) /\ ~UNCHANGED vars
      BY <3>3 DEF Spawn, vars
    <3>6. ~(Drain \/ CancelAll \/ CancelRoot \/ CancelBump \/ ParentCancels)
      BY <3>3 DEF Drain, CancelAll, CancelRoot, CancelBump, ParentCancels
    <3> QED
      BY <1>1, <3>1, <3>2, <3>4, <3>5, <3>6 DEF Next, Joining
  <2>5. delivered'[j]
    BY <2>1, <2>2, <2>4 DEF Collect, HandOut, Fresh
  <2> QED
    BY <2>1, <2>5
<1> QED
  BY <1>1, Always, PTL DEF Spec, JoinIsComplete

(* Once cancel_all has begun nothing gets to run: neither what was queued, *)
(* nor what a spawn or an admission under way at that moment might add.    *)
THEOREM NothingStartsLate == Spec => NoneAdmittedOnceClosed
<1> DEFINE A == \A j \in Job : closed /\ state[j] # "Running" => state'[j] # "Running"
<1>1. ASSUME IInv, [Next]_vars PROVE [A]_vars
  <2> SUFFICES ASSUME NEW j \in Job, closed, state[j] # "Running" PROVE state'[j] # "Running"
    OBVIOUS
  <2>1. TypeOK /\ JobOK(j)
    BY <1>1 DEF IInv, JobInv
  <2>2. ASSUME NEW k \in Key \cup {NoKey}, Spawn(k) PROVE FALSE
    BY <2>2 DEF Spawn, Refusing
  <2>3. ASSUME NEW i \in Issued, Launch(i) \/ BodyEnds(i) PROVE state'[j] # "Running"
    <3>1. CASE Admit(i)
      <4>1. CASE j = i /\ ~IsSettled(state[i])
        <5>1. launch[j] = "holding"
          BY <3>1, <4>1 DEF Admit, Goes
        <5> QED
          BY <2>1, <4>1, <5>1 DEF JobOK, Before, IsSettled
      <4> QED
        BY <2>1, <3>1, <4>1 DEF Admit, Record, TypeOK
    <3>2. CASE Conclude(i) \/ Abandon(i)
      <4>1. PICK v \in {"Done", "Failed", "Cancelled"} : state' = [state EXCEPT ![i] = v]
        BY <3>2 DEF Conclude, Abandon, Record, Verdict
      <4> QED
        BY <2>1, <4>1 DEF TypeOK
    <3>3. CASE Acquire(i) \/ StartBody(i) \/ SeeCancelled(i) \/ BodyEnds(i) \/ Leave(i)
      BY <3>3 DEF Acquire, StartBody, SeeCancelled, BodyEnds, Leave, jobVars
    <3> QED
      BY <2>3, <3>1, <3>2, <3>3 DEF Launch
  <2>4. ASSUME NEW c \in Caller, Ask(c) \/ Joining(c) \/ TimeOut(c) PROVE state' = state
    BY <2>4 DEF Ask, Joining, Check, Listen, Wake, TimeOut, Collect, callFrame, jobVars
  <2>5. ASSUME CancelAll PROVE state'[j] # "Running"
    BY <2>5 DEF CancelAll
  <2>6. ASSUME Drain \/ CancelRoot \/ CancelBump \/ ParentCancels \/ UNCHANGED vars PROVE state' = state
    BY <2>6 DEF Drain, CancelRoot, CancelBump, ParentCancels, vars, callFrame, jobVars
  <2> QED
    BY <1>1, <2>2, <2>3, <2>4, <2>5, <2>6 DEF Next
<1> QED
  BY <1>1, Always, PTL DEF Spec, NoneAdmittedOnceClosed

LEMMA KeyStep == ASSUME IInv, OneJobPerKey, [Next]_vars PROVE OneJobPerKey'
<1>1. TypeOK /\ JobInv /\ \A j \in Job : JobOK(j)
  BY DEF IInv, JobInv
<1>2. ASSUME UNCHANGED <<issued, key>> PROVE OneJobPerKey'
  <2>1. Unsettled' \subseteq Unsettled
    BY <1>1, <1>2, SettledStays DEF Unsettled, Issued, TypeOK, Job
  <2> QED
    BY <1>2, <2>1 DEF OneJobPerKey
<1>3. ASSUME NEW k \in Key \cup {NoKey}, Spawn(k) PROVE OneJobPerKey'
  <2>1. PICK n \in Job : n = issued + 1
    BY <1>1, <1>3 DEF Spawn, TypeOK, Job
  <2>2. issued' = n /\ key' = [key EXCEPT ![n] = k] /\ (k = NoKey \/ Twins(k) = {})
    BY <1>3, <2>1 DEF Spawn
  <2>3. \A i \in Unsettled' \ {n} : i \in Unsettled
    BY <1>1, <1>3, <2>1, <2>2, SettledStays DEF Unsettled, Issued, TypeOK, Job
  <2>4. \A i \in Unsettled' \ {n} : i \in Job /\ key'[i] = key[i]
    BY <1>1, <2>2, <2>3 DEF Unsettled, Issued, TypeOK, Job
  <2>5. key'[n] = k
    BY <1>1, <2>2 DEF TypeOK
  <2>6. ASSUME NEW i \in Unsettled' \ {n} PROVE k = NoKey \/ key'[i] # k
    BY <2>2, <2>3, <2>4 DEF Twins
  <2>7. ASSUME NEW i \in Unsettled', NEW j \in Unsettled', i # j
        PROVE  key'[i] = NoKey \/ key'[i] # key'[j]
    BY <2>3, <2>4, <2>5, <2>6, <2>7 DEF OneJobPerKey
  <2> QED
    BY <2>7 DEF OneJobPerKey
<1>4. ASSUME NEW j \in Issued, Launch(j) \/ BodyEnds(j) PROVE UNCHANGED <<issued, key>>
  BY <1>4 DEF Launch, Acquire, Admit, StartBody, SeeCancelled, Conclude, Abandon, Leave, BodyEnds, jobVars
<1>5. ASSUME NEW c \in Caller, Ask(c) \/ Joining(c) \/ TimeOut(c) PROVE UNCHANGED <<issued, key>>
  BY <1>5 DEF Ask, Joining, Check, Listen, Wake, TimeOut, Collect, callFrame, jobVars
<1>6. ASSUME Drain \/ CancelAll \/ CancelRoot \/ CancelBump \/ ParentCancels \/ UNCHANGED vars
      PROVE  UNCHANGED <<issued, key>>
  BY <1>6 DEF Drain, CancelAll, CancelRoot, CancelBump, ParentCancels, vars, callFrame, jobVars
<1> QED
  BY <1>2, <1>3, <1>4, <1>5, <1>6 DEF Next

(* At no time do two unsettled delegations of a turn do the same work: a   *)
(* spawn looks for a twin under the mutex that it enters its own job under.*)
THEOREM Coalesced == Spec => []OneJobPerKey
<1>1. Init => OneJobPerKey
  BY DEF Init, OneJobPerKey, Unsettled, Issued
<1>2. IInv /\ OneJobPerKey /\ [Next]_vars => OneJobPerKey'
  BY KeyStep
<1> QED
  BY <1>1, <1>2, Always, PTL DEF Spec
============================================================================
