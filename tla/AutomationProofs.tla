-------------------------- MODULE AutomationProofs --------------------------
(***************************************************************************)
(* A run is executed once at a time, its budget holds, and the manager     *)
(* implements DurableSteps, for every number of runs, steps, retries,      *)
(* calls and crashes, when no gate lies behind an item that may be         *)
(* continued past.                                                         *)
(***************************************************************************)
EXTENDS AutomationProperties, TLAPS

Attempting == {"body", "usage", "failed", "cancelled", "retry", "backoff", "again"}
Pc == {"idle", "entry", "lapse", "loop"} \cup Attempting
Parked == {"idle", "body", "backoff"}
Verdict == {"RUNNING", "SUCCEEDED", "FAILED", "CANCELLED"}
Answer == {"NONE", "PENDING", "APPROVED", "REJECTED", "EXPIRED", "RECEIVED"}

CallState ==
  [run : Run \cup {None}, pc : Pc, step : Nat, try : Nat, done : SUBSET Step, tokens : Nat,
   aborted : BOOLEAN, deaf : BOOLEAN, logged : BOOLEAN]

TableTypes ==
  /\ state \in [Run -> RunState]
  /\ attempts \in [Run -> [Step -> Seq(Verdict)]]
  /\ approval \in [Run -> [Step -> Answer]] /\ wait \in [Run -> [Step -> Answer]]
  /\ spent \in [Run -> Nat]

CallTypes == call \in [Call -> CallState] /\ active \in [Run -> Call \cup {None}] /\ turn \in Call \cup {None}

\* Who holds the thread, and what a call that is nowhere looks like.
Thread ==
  /\ \A c \in Call : call[c].pc \notin Parked <=> turn = c
  /\ \A c \in Call : call[c].pc = "idle" <=> call[c].run = None
  /\ up = "down" => \A c \in Call : call[c].pc = "idle"

Alone == \A c, d \in Call : call[c].pc # "idle" /\ call[c].run = call[d].run => c = d

Tried(r, s) == attempts[r][s] # <<>>
Pending(r, s) == approval[r][s] = "PENDING" \/ wait[r][s] = "PENDING"
WaitPassed(r, s) == s \in Waits => wait[r][s] = "RECEIVED"
Cleared(r, s) == WaitPassed(r, s) /\ (s \in Gated => approval[r][s] = "APPROVED")

\* The run is past a step for good: nothing it rests on is ever taken back.
Behind(r, t) ==
  \/ t \in CompletedNodes(r)
  \/ t \in Lenient /\ approval[r][t] \in {"REJECTED", "EXPIRED"}
  \/ t \in Continuing /\ (wait[r][t] = "EXPIRED" \/ Tried(r, t))

RowOK(r, s) ==
  /\ Tried(r, s) => Cleared(r, s)
  /\ approval[r][s] # "NONE" => s \in Gated /\ WaitPassed(r, s)
  /\ wait[r][s] # "NONE" => s \in Waits
  /\ Pending(r, s) => \A t \in Step : t < s => Behind(r, t)
  /\ state[r] = "NONE" => ~Tried(r, s) /\ approval[r][s] = "NONE" /\ wait[r][s] = "NONE"

RunOK(r) == spent[r] <= MaxTokens /\ \A s \in Step : RowOK(r, s)

\* What a call remembers agrees with the tables of its run.
FitOf(k) ==
  /\ k.pc # "idle" => state[k.run] # "NONE"
  /\ k.pc \notin {"idle", "entry", "lapse"} =>
       /\ state[k.run] \in {"RUNNING", "AWAITING_RETRY"}
       /\ k.step >= 1 /\ \A t \in Step : t < k.step => Behind(k.run, t)
       /\ k.done \subseteq CompletedNodes(k.run)
       /\ \A t \in CompletedNodes(k.run) : t \in k.done \/ t < k.step
       /\ spent[k.run] = IF k.pc = "usage" THEN k.tokens + 1 ELSE k.tokens
  /\ k.pc \in Attempting =>
       k.step \in Step /\ Tried(k.run, k.step) /\ k.step \notin CompletedNodes(k.run)

IInv ==
  /\ TableTypes /\ CallTypes /\ Thread /\ Alone
  /\ \A r \in Run : RunOK(r)
  /\ \A c \in Call : FitOf(call[c])

USE RunsAssumption

-----------------------------------------------------------------------------
\* What a step does to the rows of other runs: nothing.
SameRow(q) ==
  /\ state'[q] = state[q] /\ attempts'[q] = attempts[q] /\ spent'[q] = spent[q]
  /\ approval'[q] = approval[q] /\ wait'[q] = wait[q]

LEMMA RunKeeps == ASSUME NEW q \in Run, RunOK(q), SameRow(q) PROVE RunOK(q)'
BY DEF RunOK, RowOK, Tried, Cleared, WaitPassed, Pending, Behind, CompletedNodes, SameRow

LEMMA FitKeeps == ASSUME NEW k, FitOf(k), k.pc # "idle" => SameRow(k.run) PROVE FitOf(k)'
BY DEF FitOf, Tried, Behind, CompletedNodes, SameRow, Attempting

LEMMA IdleState == Idle \in CallState /\ Idle.pc = "idle" /\ Idle.run = None
BY DEF Idle, CallState, Pc

LEMMA IdleFits == FitOf(Idle) /\ FitOf(Idle)'
BY DEF Idle, FitOf, Attempting

-----------------------------------------------------------------------------
(***************************************************************************)
(* The four ways in which a step touches the calls.  In each, the tables   *)
(* change for one run only.                                                *)
(***************************************************************************)
\* A call goes on: it keeps its run, and the thread or not.
Moves(c, f) ==
  /\ call[c].pc # "idle" /\ up' = up /\ active' \in [Run -> Call \cup {None}]
  /\ f \in CallState /\ f.run = call[c].run /\ f.pc # "idle"
  /\ At(c, f) /\ turn' = IF f.pc \in Parked THEN None ELSE c
  /\ turn \in {None, c}

Elsewhere(r) == TableTypes' /\ \A q \in Run \ {r} : SameRow(q)

LEMMA MoveKeeps ==
  ASSUME IInv, NEW c \in Call, NEW f, Moves(c, f), NEW r \in Run, r = call[c].run,
         Elsewhere(r), RunOK(r)', FitOf(f)'
  PROVE  IInv'
<1>1. call' \in [Call -> CallState] /\ call'[c] = f /\ \A d \in Call \ {c} : call'[d] = call[d]
  BY DEF Moves, At, IInv, CallTypes
<1>2. CallTypes' /\ TableTypes'
  BY <1>1 DEF Moves, CallTypes, Elsewhere
<1>3. Thread'
  <2>1. \A d \in Call : call'[d].pc \notin Parked <=> turn' = d
    BY <1>1 DEF Moves, Thread, IInv
  <2>2. \A d \in Call : call'[d].pc = "idle" <=> call'[d].run = None
    BY <1>1 DEF Moves, Thread, IInv
  <2> QED
    BY <1>1, <2>1, <2>2 DEF Moves, Thread, IInv
<1>4. Alone'
  BY <1>1 DEF Moves, Alone, IInv
<1>5. \A q \in Run : RunOK(q)'
  BY RunKeeps DEF Elsewhere, IInv
<1>6. \A d \in Call : FitOf(call[d])'
  <2> SUFFICES ASSUME NEW d \in Call PROVE FitOf(call[d])'
    OBVIOUS
  <2>1. CASE d = c
    BY <1>1, <2>1 DEF FitOf, Behind, Tried, CompletedNodes
  <2>2. CASE d # c
    <3>1. PICK k : k = call[d]
      OBVIOUS
    <3>2. k.pc # "idle" => k.run \in Run \ {r}
      BY <2>2, <3>1 DEF IInv, Alone, CallTypes, CallState, Thread, Moves
    <3>3. FitOf(k)
      BY <3>1 DEF IInv
    <3>4. FitOf(k)'
      BY <3>2, <3>3, FitKeeps DEF Elsewhere
    <3> QED
      BY <1>1, <2>2, <3>1, <3>4
  <2> QED
    BY <2>1, <2>2
<1> QED
  BY <1>2, <1>3, <1>4, <1>5, <1>6 DEF IInv

\* A call of executeRun is over.
LEMMA ReturnKeeps ==
  ASSUME IInv, NEW c \in Call, turn = c, Returns(c), up' = up, active' \in [Run -> Call \cup {None}],
         NEW r \in Run, r = call[c].run, Elsewhere(r), RunOK(r)'
  PROVE  IInv'
<1>1. /\ call' \in [Call -> CallState] /\ call'[c] = Idle /\ turn' = None
      /\ \A d \in Call \ {c} : call'[d] = call[d]
  BY IdleState DEF Returns, At, IInv, CallTypes
<1>2. CallTypes' /\ TableTypes'
  BY <1>1 DEF CallTypes, Elsewhere
<1>3. \A d \in Call : call'[d].pc \in Parked
  BY <1>1, IdleState DEF Thread, IInv, Parked
<1>4. Thread'
  <2>1. \A d \in Call : call'[d].pc = "idle" <=> call'[d].run = None
    BY <1>1, IdleState DEF Thread, IInv
  <2>2. up' = "down" => \A d \in Call : call'[d].pc = "idle"
    BY <1>1, IdleState DEF Thread, IInv
  <2> QED
    BY <1>1, <1>3, <2>1, <2>2 DEF Thread
<1>5. Alone'
  <2> SUFFICES ASSUME NEW d \in Call, NEW e \in Call, call'[d].pc # "idle", call'[d].run = call'[e].run
               PROVE  d = e
    BY DEF Alone
  <2>1. d # c /\ e # c
    BY <1>1, IdleState DEF Thread, IInv, CallTypes, CallState
  <2> QED
    BY <1>1, <2>1 DEF Alone, IInv
<1>6. \A q \in Run : RunOK(q)'
  BY RunKeeps DEF Elsewhere, IInv
<1>7. \A d \in Call : FitOf(call[d])'
  <2> SUFFICES ASSUME NEW d \in Call PROVE FitOf(call[d])'
    OBVIOUS
  <2>1. CASE d = c
    BY <1>1, <2>1, IdleState DEF FitOf, Attempting
  <2>2. CASE d # c
    <3>1. PICK k : k = call[d]
      OBVIOUS
    <3>2. k.pc # "idle" => k.run \in Run \ {r}
      BY <2>2, <3>1 DEF IInv, Alone, CallTypes, CallState, Thread, Parked
    <3>3. FitOf(k)
      BY <3>1 DEF IInv
    <3>4. FitOf(k)'
      BY <3>2, <3>3, FitKeeps DEF Elsewhere
    <3> QED
      BY <1>1, <2>2, <3>1, <3>4
  <2> QED
    BY <2>1, <2>2
<1> QED
  BY <1>2, <1>4, <1>5, <1>6, <1>7 DEF IInv

\* A call of executeRun begins, for a run that nobody executes.
LEMMA BeginKeeps ==
  ASSUME IInv, turn = None, up # "down", up' = up, active' = active,
         NEW r \in Run, NEW pc \in {"entry", "lapse"}, Calls(r, pc),
         ~Executing(r), Elsewhere(r), RunOK(r)', state'[r] # "NONE"
  PROVE  IInv'
<1>1. PICK f : f = [Idle EXCEPT !.run = r, !.pc = pc]
  OBVIOUS
<1>2. f \in CallState /\ f.run = r /\ f.pc = pc
  BY <1>1 DEF Idle, CallState, Pc
<1>3. PICK c \in Call : ~Busy(c) /\ call' = [call EXCEPT ![c] = f] /\ turn' = c
  BY <1>1 DEF Calls
<1>4. /\ call' \in [Call -> CallState] /\ call'[c] = f
      /\ \A d \in Call \ {c} : call'[d] = call[d]
  BY <1>2, <1>3 DEF IInv, CallTypes
<1>5. CallTypes' /\ TableTypes'
  BY <1>3, <1>4 DEF CallTypes, Elsewhere, IInv
<1>6. Thread'
  <2>1. \A d \in Call \ {c} : call[d].pc \in Parked
    BY DEF Thread, IInv
  <2>2. \A d \in Call : call'[d].pc \notin Parked <=> turn' = d
    BY <1>2, <1>3, <1>4, <2>1 DEF Parked
  <2>3. \A d \in Call : call'[d].pc = "idle" <=> call'[d].run = None
    BY <1>2, <1>4 DEF Thread, IInv
  <2> QED
    BY <2>2, <2>3 DEF Thread
<1>7. Alone'
  BY <1>2, <1>3, <1>4 DEF Alone, IInv, Executing, Busy
<1>8. \A q \in Run : RunOK(q)'
  BY RunKeeps DEF Elsewhere, IInv
<1>9. \A d \in Call : FitOf(call[d])'
  <2> SUFFICES ASSUME NEW d \in Call PROVE FitOf(call[d])'
    OBVIOUS
  <2>1. CASE d = c
    BY <1>2, <1>4, <2>1 DEF FitOf, Attempting
  <2>2. CASE d # c
    <3>1. PICK k : k = call[d]
      OBVIOUS
    <3>2. k.pc # "idle" => k.run \in Run \ {r}
      BY <3>1 DEF IInv, CallTypes, CallState, Thread, Executing
    <3>3. FitOf(k)
      BY <3>1 DEF IInv
    <3>4. FitOf(k)'
      BY <3>2, <3>3, FitKeeps DEF Elsewhere
    <3> QED
      BY <1>4, <2>2, <3>1, <3>4
  <2> QED
    BY <2>1, <2>2
<1> QED
  BY <1>5, <1>6, <1>7, <1>8, <1>9 DEF IInv

\* Nothing changes but what the proof does not look at.
SameCalls ==
  /\ call' \in [Call -> CallState] /\ active' \in [Run -> Call \cup {None}]
  /\ \A c \in Call : /\ call'[c].run = call[c].run /\ call'[c].pc = call[c].pc
                     /\ call'[c].step = call[c].step /\ call'[c].done = call[c].done
                     /\ call'[c].tokens = call[c].tokens

LEMMA GlanceKeeps ==
  ASSUME IInv, SameCalls, turn' = turn, up' = up \/ up' # "down",
         UNCHANGED <<state, attempts, approval, wait, spent>>
  PROVE  IInv'
<1>1. CallTypes' /\ TableTypes'
  BY DEF IInv, CallTypes, TableTypes, SameCalls
<1>2. Thread' /\ Alone'
  BY DEF IInv, Thread, Alone, SameCalls
<1>3. \A q \in Run : RunOK(q)'
  BY RunKeeps DEF IInv, SameRow
<1>4. ASSUME NEW c \in Call PROVE FitOf(call[c])'
  <2>1. FitOf(call[c])
    BY DEF IInv
  <2> QED
    BY <2>1 DEF FitOf, Behind, Tried, CompletedNodes, SameCalls
<1> QED
  BY <1>1, <1>2, <1>3, <1>4 DEF IInv

-----------------------------------------------------------------------------
(***************************************************************************)
(* What the writes do to the rows of their run.                            *)
(***************************************************************************)
LEMMA CompletedFacts ==
  ASSUME TableTypes, NEW r \in Run
  PROVE  CompletedNodes(r) \subseteq {s \in Step : Tried(r, s)}
BY DEF CompletedNodes, Tried, TableTypes

LEMMA StateRow ==
  ASSUME IInv, NEW r \in Run, NEW v \in RunState, v # "NONE", state' = [state EXCEPT ![r] = v],
         UNCHANGED <<attempts, approval, wait, spent>>
  PROVE  Elsewhere(r) /\ RunOK(r)' /\ state'[r] = v
<1>1. Elsewhere(r) /\ state'[r] = v
  BY DEF IInv, TableTypes, Elsewhere, SameRow
<1>2. RunOK(r)
  BY DEF IInv
<1>3. RunOK(r)'
  BY <1>1, <1>2 DEF RunOK, RowOK, Tried, Cleared, WaitPassed, Pending, Behind, CompletedNodes
<1> QED
  BY <1>1, <1>3

\* An answer to an approval, or to a wait, unlocks at most its own step.
LEMMA ApprovalRow ==
  ASSUME IInv, NEW r \in Run, NEW s \in Step, approval[r][s] = "PENDING",
         NEW v \in {"APPROVED", "REJECTED", "EXPIRED"}, approval' = [approval EXCEPT ![r][s] = v],
         UNCHANGED <<state, attempts, wait, spent>>
  PROVE  Elsewhere(r) /\ RunOK(r)' /\ state'[r] # "NONE"
<1>1. /\ Elsewhere(r) /\ approval'[r][s] = v
      /\ \A t \in Step \ {s} : approval'[r][t] = approval[r][t]
  BY DEF IInv, TableTypes, Elsewhere, SameRow, Answer
<1>2. RunOK(r)
  BY DEF IInv
<1>3. \A t \in Step : Behind(r, t) => Behind(r, t)'
  BY <1>1 DEF Behind, CompletedNodes, Tried
<1>4. RunOK(r)'
  <2> SUFFICES ASSUME NEW t \in Step PROVE RowOK(r, t)'
    BY <1>2 DEF RunOK
  <2>1. RowOK(r, t) /\ RowOK(r, s)
    BY <1>2 DEF RunOK
  <2> QED
    BY <1>1, <1>3, <2>1 DEF RowOK, Tried, Cleared, WaitPassed, Pending
<1> QED
  BY <1>1, <1>2, <1>4 DEF RunOK, RowOK

LEMMA WaitRow ==
  ASSUME IInv, NEW r \in Run, NEW s \in Step, wait[r][s] = "PENDING",
         NEW v \in {"RECEIVED", "EXPIRED"}, wait' = [wait EXCEPT ![r][s] = v],
         UNCHANGED <<state, attempts, approval, spent>>
  PROVE  Elsewhere(r) /\ RunOK(r)' /\ state'[r] # "NONE"
<1>1. /\ Elsewhere(r) /\ wait'[r][s] = v
      /\ \A t \in Step \ {s} : wait'[r][t] = wait[r][t]
  BY DEF IInv, TableTypes, Elsewhere, SameRow, Answer
<1>2. RunOK(r)
  BY DEF IInv
<1>3. \A t \in Step : Behind(r, t) => Behind(r, t)'
  BY <1>1 DEF Behind, CompletedNodes, Tried
<1>4. RunOK(r)'
  <2> SUFFICES ASSUME NEW t \in Step PROVE RowOK(r, t)'
    BY <1>2 DEF RunOK
  <2>1. RowOK(r, t) /\ RowOK(r, s)
    BY <1>2 DEF RunOK
  <2> QED
    BY <1>1, <1>3, <2>1 DEF RowOK, Tried, Cleared, WaitPassed, Pending
<1> QED
  BY <1>1, <1>2, <1>4 DEF RunOK, RowOK

\* A question is asked at a step only when all before it is behind the run.
LEMMA AskRow ==
  ASSUME IInv, NEW r \in Run, NEW s \in Step, state[r] # "NONE",
         \A t \in Step : t < s => Behind(r, t),
         \/ /\ s \in Waits /\ wait[r][s] = "NONE"
            /\ wait' = [wait EXCEPT ![r][s] = "PENDING"] /\ approval' = approval
         \/ /\ s \in Gated /\ approval[r][s] = "NONE" /\ WaitPassed(r, s)
            /\ approval' = [approval EXCEPT ![r][s] = "PENDING"] /\ wait' = wait,
         UNCHANGED <<state, attempts, spent>>
  PROVE  Elsewhere(r) /\ RunOK(r)' /\ \A t \in Step : Behind(r, t) => Behind(r, t)'
<1>1. /\ Elsewhere(r)
      /\ approval'[r][s] = approval[r][s] \/ (approval[r][s] = "NONE" /\ approval'[r][s] = "PENDING")
      /\ wait'[r][s] = wait[r][s] \/ (wait[r][s] = "NONE" /\ wait'[r][s] = "PENDING")
      /\ \A t \in Step \ {s} : approval'[r][t] = approval[r][t] /\ wait'[r][t] = wait[r][t]
  <2>1. CASE wait' = [wait EXCEPT ![r][s] = "PENDING"] /\ approval' = approval /\ wait[r][s] = "NONE"
    BY <2>1 DEF IInv, TableTypes, Elsewhere, SameRow, Answer
  <2>2. CASE approval' = [approval EXCEPT ![r][s] = "PENDING"] /\ wait' = wait /\ approval[r][s] = "NONE"
    BY <2>2 DEF IInv, TableTypes, Elsewhere, SameRow, Answer
  <2> QED
    BY <2>1, <2>2
<1>2. RunOK(r)
  BY DEF IInv
<1>3. \A t \in Step : Behind(r, t) => Behind(r, t)'
  BY <1>1 DEF Behind, CompletedNodes, Tried
<1>4. RunOK(r)'
  <2> SUFFICES ASSUME NEW t \in Step PROVE RowOK(r, t)'
    BY <1>2 DEF RunOK
  <2>1. RowOK(r, t) /\ RowOK(r, s)
    BY <1>2 DEF RunOK
  <2>2. CASE t = s
    <3>1. wait[r][s] = wait'[r][s] \/ approval[r][s] = approval'[r][s]
      OBVIOUS
    <3> QED
      BY <1>1, <1>3, <2>1, <2>2, <3>1 DEF RowOK, Tried, Cleared, WaitPassed, Pending
  <2>3. CASE t # s
    BY <1>1, <1>3, <2>1, <2>3 DEF RowOK, Tried, Cleared, WaitPassed, Pending
  <2> QED
    BY <2>2, <2>3
<1> QED
  BY <1>1, <1>3, <1>4

\* A new attempt, and the verdict on one that had none.
LEMMA AttemptRow ==
  ASSUME IInv, NEW r \in Run, NEW s \in Step, Cleared(r, s), state[r] # "NONE",
         attempts' = [attempts EXCEPT ![r][s] = Append(@, "RUNNING")],
         UNCHANGED <<state, approval, wait, spent>>
  PROVE  /\ Elsewhere(r) /\ RunOK(r)' /\ Tried(r, s)'
         /\ Len(attempts'[r][s]) = Len(attempts[r][s]) + 1
         /\ \A t \in Step \ {s} : attempts'[r][t] = attempts[r][t]
         /\ CompletedNodes(r)' = CompletedNodes(r)
         /\ \A t \in Step : Behind(r, t) => Behind(r, t)'
<1>1. PICK a \in Seq(Verdict) : a = attempts[r][s]
  BY DEF IInv, TableTypes
<1>2. /\ Append(a, "RUNNING") \in Seq(Verdict) /\ Append(a, "RUNNING") # <<>>
      /\ Len(Append(a, "RUNNING")) = Len(a) + 1
      /\ \A i \in 1 .. Len(a) : Append(a, "RUNNING")[i] = a[i]
      /\ Append(a, "RUNNING")[Len(a) + 1] = "RUNNING"
  BY DEF Verdict
<1>3. /\ attempts' \in [Run -> [Step -> Seq(Verdict)]] /\ attempts'[r][s] = Append(a, "RUNNING")
      /\ \A t \in Step \ {s} : attempts'[r][t] = attempts[r][t]
      /\ \A q \in Run \ {r} : attempts'[q] = attempts[q]
  BY <1>1, <1>2 DEF IInv, TableTypes
<1>4. Elsewhere(r)
  BY <1>3 DEF Elsewhere, TableTypes, SameRow, IInv
<1>5. (\E i \in DOMAIN attempts'[r][s] : attempts'[r][s][i] = "SUCCEEDED")
        <=> \E i \in DOMAIN attempts[r][s] : attempts[r][s][i] = "SUCCEEDED"
  <2>1. PICK b : b = Append(a, "RUNNING")
    OBVIOUS
  <2>2. DOMAIN a = 1 .. Len(a) /\ DOMAIN b = 1 .. Len(a) + 1 /\ Len(a) \in Nat
    BY <2>1
  <2>3. (\A i \in 1 .. Len(a) : b[i] = a[i]) /\ b[Len(a) + 1] = "RUNNING"
    BY <1>2, <2>1
  <2> QED
    BY <1>1, <1>3, <2>1, <2>2, <2>3
<1>6. CompletedNodes(r)' = CompletedNodes(r)
  BY <1>3, <1>5 DEF CompletedNodes
<1>7. \A t \in Step : Tried(r, t) => Tried(r, t)'
  BY <1>2, <1>3 DEF Tried
<1>8. \A t \in Step : Behind(r, t) => Behind(r, t)'
  BY <1>6, <1>7 DEF Behind
<1>9. RunOK(r)'
  <2>1. RunOK(r)
    BY DEF IInv
  <2>2. ASSUME NEW t \in Step PROVE RowOK(r, t)'
    BY <1>3, <1>8, <2>1 DEF RunOK, RowOK, Tried, Cleared, WaitPassed, Pending
  <2> QED
    BY <2>1, <2>2 DEF RunOK
<1> QED
  BY <1>1, <1>2, <1>3, <1>4, <1>6, <1>8, <1>9 DEF Tried

Judged(r, s, v) ==
  /\ attempts' = [attempts EXCEPT ![r][s] = [@ EXCEPT ![Len(@)] = v]]
  /\ UNCHANGED <<state, approval, wait, spent>>

LEMMA VerdictRow ==
  ASSUME IInv, NEW r \in Run, NEW s \in Step, Tried(r, s), s \notin CompletedNodes(r),
         NEW v \in Verdict, Judged(r, s, v)
  PROVE  /\ Elsewhere(r) /\ RunOK(r)' /\ Tried(r, s)'
         /\ Len(attempts'[r][s]) = Len(attempts[r][s])
         /\ \A t \in Step \ {s} : attempts'[r][t] = attempts[r][t]
         /\ CompletedNodes(r)' = CompletedNodes(r) \cup (IF v = "SUCCEEDED" THEN {s} ELSE {})
         /\ \A t \in Step : Behind(r, t) => Behind(r, t)'
<1>1. PICK a \in Seq(Verdict) : a = attempts[r][s] /\ a # <<>>
  BY DEF IInv, TableTypes, Tried
<1>2. PICK b : b = [a EXCEPT ![Len(a)] = v]
  OBVIOUS
<1>3. /\ b \in Seq(Verdict) /\ b # <<>> /\ Len(b) = Len(a) /\ Len(a) \in DOMAIN a
      /\ DOMAIN b = DOMAIN a
      /\ b[Len(a)] = v /\ \A i \in DOMAIN a \ {Len(a)} : b[i] = a[i]
  BY <1>1, <1>2
<1>4. /\ attempts' \in [Run -> [Step -> Seq(Verdict)]] /\ attempts'[r][s] = b
      /\ \A t \in Step \ {s} : attempts'[r][t] = attempts[r][t]
      /\ \A q \in Run \ {r} : attempts'[q] = attempts[q]
  BY <1>1, <1>2, <1>3 DEF IInv, TableTypes, Judged
<1>5. Elsewhere(r)
  BY <1>4 DEF Elsewhere, TableTypes, SameRow, IInv, Judged
<1>6. (\E i \in DOMAIN attempts'[r][s] : attempts'[r][s][i] = "SUCCEEDED") <=> v = "SUCCEEDED"
  <2>1. \A i \in DOMAIN a : a[i] # "SUCCEEDED"
    BY <1>1 DEF CompletedNodes
  <2> QED
    BY <1>3, <1>4, <2>1
<1>7. CompletedNodes(r)' = CompletedNodes(r) \cup (IF v = "SUCCEEDED" THEN {s} ELSE {})
  BY <1>4, <1>6 DEF CompletedNodes
<1>8. \A t \in Step : Tried(r, t) <=> Tried(r, t)'
  BY <1>3, <1>4 DEF Tried
<1>9. \A t \in Step : Behind(r, t) => Behind(r, t)'
  BY <1>7, <1>8 DEF Behind, Judged
<1>10. RunOK(r)'
  <2>1. RunOK(r)
    BY DEF IInv
  <2>2. ASSUME NEW t \in Step PROVE RowOK(r, t)'
    BY <1>8, <1>9, <2>1 DEF RunOK, RowOK, Cleared, WaitPassed, Pending, Judged
  <2> QED
    BY <2>1, <2>2 DEF RunOK, Judged
<1> QED
  BY <1>1, <1>3, <1>4, <1>5, <1>7, <1>8, <1>9, <1>10

-----------------------------------------------------------------------------
\* No gate lies behind an item that may be continued past.
GatesComeFirst == \A s \in Continuing, t \in Waits \cup Gated : t <= s

\* While a question of a run is open, nobody executes the run: a call in an
\* attempt, or past it, can only be there with the answer.
LEMMA NobodyExecutes ==
  ASSUME IInv, GatesComeFirst, turn = None, NEW r \in Run, NEW s \in Step, Pending(r, s)
  PROVE  ~Executing(r)
<1> SUFFICES ASSUME NEW c \in Call, call[c].run = r PROVE FALSE
  BY DEF Executing
<1>1. PICK k : k = call[c]
  OBVIOUS
<1>2. k \in CallState /\ k.run = r /\ k.pc \in {"body", "backoff"}
  BY <1>1 DEF IInv, CallTypes, CallState, Thread, Parked
<1>3. FitOf(k)
  BY <1>1 DEF IInv
<1>4. /\ k.step \in Step /\ Tried(r, k.step) /\ k.step \notin CompletedNodes(r)
      /\ \A t \in Step : t < k.step => Behind(r, t)
  BY <1>2, <1>3 DEF FitOf, Attempting
<1>5. \A t \in Step : RowOK(r, t)
  BY DEF IInv, RunOK
<1>6. \A t \in Step : Tried(r, t) => Cleared(r, t)
  BY <1>5 DEF RowOK
<1>7. s \in Waits \cup Gated /\ ~Cleared(r, s)
  BY <1>5 DEF RowOK, Pending, Cleared, WaitPassed
<1>8. k.step \in Nat /\ s \in Nat
  BY <1>4 DEF Step
<1>9. CASE k.step < s
  <2>1. Behind(r, k.step)
    BY <1>4, <1>5, <1>9 DEF RowOK
  <2>2. k.step \notin Continuing
    BY <1>7, <1>8, <1>9 DEF GatesComeFirst
  <2>3. approval[r][k.step] = "APPROVED" \/ approval[r][k.step] = "NONE"
    BY <1>4, <1>5, <1>6 DEF RowOK, Cleared
  <2> QED
    BY <1>4, <2>1, <2>2, <2>3 DEF Behind
<1>10. CASE k.step = s
  BY <1>4, <1>6, <1>7, <1>10
<1>11. CASE s < k.step
  <2>1. Behind(r, s) /\ ~Tried(r, s)
    BY <1>4, <1>6, <1>7, <1>11
  <2>2. s \notin CompletedNodes(r)
    BY <2>1, CompletedFacts DEF IInv
  <2>3. RowOK(r, s)
    BY <1>5
  <2> QED
    BY <2>1, <2>2, <2>3 DEF Behind, RowOK, Pending, WaitPassed
<1> QED
  BY <1>8, <1>9, <1>10, <1>11

LEMMA RequestKeeps == ASSUME IInv, GatesComeFirst, Request PROVE IInv'
<1> USE DEF gates, tables, world
<1>1. ASSUME NEW r \in Run, CreateRun(r) PROVE IInv'
  <2>1. ~Executing(r)
    <3> SUFFICES ASSUME NEW c \in Call, call[c].run = r PROVE FALSE
      BY DEF Executing
    <3>1. call[c].pc # "idle" /\ FitOf(call[c])
      BY DEF IInv, Thread
    <3> QED
      BY <1>1, <3>1 DEF FitOf, CreateRun
  <2>2. Elsewhere(r) /\ RunOK(r)' /\ state'[r] = "QUEUED"
    BY <1>1, StateRow DEF CreateRun, RunState
  <2> QED
    BY <1>1, <2>1, <2>2, BeginKeeps DEF CreateRun
<1>2. ASSUME NEW r \in Run, Resume(r) PROVE IInv'
  <2>1. Elsewhere(r) /\ RunOK(r)'
    BY <1>2, RunKeeps DEF IInv, Elsewhere, TableTypes, SameRow, Resume
  <2> QED
    BY <1>2, <2>1, BeginKeeps DEF Resume
<1>3. ASSUME NEW r \in Run, Cancel(r) PROVE IInv'
  <2>1. SameCalls
    <3>1. PICK c \in Call : call' = [call EXCEPT ![c].aborted = TRUE]
      BY <1>3 DEF Cancel, IInv, CallTypes
    <3>2. PICK f : f = [call[c] EXCEPT !.aborted = TRUE]
      OBVIOUS
    <3>3. /\ f \in CallState /\ f.run = call[c].run /\ f.pc = call[c].pc
          /\ f.step = call[c].step /\ f.done = call[c].done /\ f.tokens = call[c].tokens
      BY <3>2, ZenonT(30) DEF IInv, CallTypes, CallState
    <3>4. call' = [call EXCEPT ![c] = f]
      BY <3>1, <3>2
    <3> QED
      BY <1>3, <3>3, <3>4 DEF Cancel, SameCalls, IInv, CallTypes
  <2> QED
    BY <1>3, <2>1, GlanceKeeps DEF Cancel
<1>4. ASSUME NEW r \in Run, NEW s \in Step, NEW v \in {"APPROVED", "REJECTED"}, DecideApproval(r, s, v)
      PROVE  IInv'
  <2>1. ~Executing(r)
    BY <1>4, NobodyExecutes DEF DecideApproval, Pending
  <2>2. Elsewhere(r) /\ RunOK(r)' /\ state'[r] # "NONE"
    BY <1>4, ApprovalRow DEF DecideApproval
  <2> QED
    BY <1>4, <2>1, <2>2, BeginKeeps DEF DecideApproval
<1>5. ASSUME NEW r \in Run, NEW s \in Step, DeliverEvent(r, s) PROVE IInv'
  <2>1. ~Executing(r)
    BY <1>5, NobodyExecutes DEF DeliverEvent, Pending
  <2>2. Elsewhere(r) /\ RunOK(r)' /\ state'[r] # "NONE"
    BY <1>5, WaitRow DEF DeliverEvent
  <2> QED
    BY <1>5, <2>1, <2>2, BeginKeeps DEF DeliverEvent
<1>6. ASSUME NEW r \in Run, NEW s \in Step, ExpireApproval(r, s) PROVE IInv'
  <2>1. ~Executing(r)
    BY <1>6, NobodyExecutes DEF ExpireApproval, Pending, Quiet
  <2>2. PICK v \in {"APPROVED", "EXPIRED"}, pc \in {"entry", "lapse"} :
          approval' = [approval EXCEPT ![r][s] = v] /\ Calls(r, pc)
    BY <1>6 DEF ExpireApproval
  <2>3. Elsewhere(r) /\ RunOK(r)' /\ state'[r] # "NONE"
    BY <1>6, <2>2, ApprovalRow DEF ExpireApproval
  <2> QED
    BY <1>6, <2>1, <2>2, <2>3, BeginKeeps DEF ExpireApproval, Quiet
<1>7. ASSUME NEW r \in Run, NEW s \in Step, ExpireWait(r, s) PROVE IInv'
  <2>1. ~Executing(r)
    BY <1>7, NobodyExecutes DEF ExpireWait, Pending
  <2>2. Elsewhere(r) /\ RunOK(r)' /\ state'[r] # "NONE"
    BY <1>7, WaitRow DEF ExpireWait
  <2> QED
    BY <1>7, <2>1, <2>2, BeginKeeps DEF ExpireWait
<1> QED
  BY <1>1, <1>2, <1>3, <1>4, <1>5, <1>6, <1>7 DEF Request

-----------------------------------------------------------------------------
(***************************************************************************)
(* The statements of executeRun, one lemma for each kind.                  *)
(***************************************************************************)
LEMMA CallFacts ==
  ASSUME IInv, NEW c \in Call, call[c].pc # "idle"
  PROVE  /\ call[c] \in CallState /\ call[c].run \in Run /\ up # "down"
         /\ FitOf(call[c]) /\ state[call[c].run] # "NONE" /\ RunOK(call[c].run)
<1>1. call[c] \in CallState /\ call[c].run \in Run /\ up # "down" /\ FitOf(call[c])
  BY DEF IInv, CallTypes, CallState, Thread
<1> QED
  BY <1>1 DEF FitOf, IInv

LEMMA EndsKeeps ==
  ASSUME IInv, NEW c \in Call, turn = c, NEW v \in Terminal \cup Suspended, Ends(c, v)
  PROVE  IInv' /\ state' = [state EXCEPT ![call[c].run] = v]
<1> USE DEF gates, tables, world
<1>1. call[c].pc # "idle"
  BY DEF IInv, Thread, Parked
<1>2. PICK r \in Run : r = call[c].run
  BY <1>1, CallFacts
<1>3. v \in RunState /\ v # "NONE"
  BY DEF Terminal, Suspended, RunState
<1>4. Elsewhere(r) /\ RunOK(r)'
  BY <1>2, <1>3, StateRow DEF Ends
<1>5. active' \in [Run -> Call \cup {None}]
  BY DEF Ends, IInv, CallTypes
<1> QED
  BY <1>2, <1>4, <1>5, ReturnKeeps DEF Ends

\* The loop goes to the next step when this one is behind the run.
LEMMA AdvanceKeeps ==
  ASSUME IInv, NEW c \in Call, turn = c, Advance(c),
         call[c].pc \in {"loop", "failed"}, call[c].step \in Step,
         Behind(call[c].run, call[c].step)
  PROVE  IInv'
<1> USE DEF gates, tables, world
<1>1. PICK r \in Run : r = call[c].run
  BY CallFacts
<1>2. PICK k : k = call[c]
  OBVIOUS
<1>3. k \in CallState /\ FitOf(k) /\ RunOK(r)
  BY <1>1, <1>2, CallFacts
<1>4. PICK f : f = [k EXCEPT !.pc = "loop", !.step = k.step + 1, !.try = 0]
  OBVIOUS
<1>5. /\ f \in CallState /\ f.run = r /\ f.pc = "loop" /\ f.step = k.step + 1
      /\ f.done = k.done /\ f.tokens = k.tokens
  <2>1. k.run = r /\ k.step + 1 \in Nat
    BY <1>1, <1>2, <1>3 DEF CallState
  <2> QED
    BY <1>3, <1>4, <2>1 DEF CallState, Pc
<1>6. Moves(c, f)
  BY <1>1, <1>2, <1>4, <1>5, CallFacts DEF Moves, Advance, At, Parked, IInv, CallTypes
<1>7. Elsewhere(r) /\ RunOK(r)'
  BY <1>3, RunKeeps DEF IInv, Elsewhere, TableTypes, SameRow, Advance
<1>8. FitOf(f)
  <2>1. \A t \in Step : t < f.step => t < k.step \/ t = k.step
    BY <1>2, <1>5 DEF Step
  <2>2. \A t \in CompletedNodes(r) : t < k.step => t < f.step
    BY <1>2, <1>5 DEF Step, CompletedNodes
  <2> QED
    BY <1>1, <1>2, <1>3, <1>5, <2>1, <2>2 DEF FitOf, Attempting, Step
<1>9. FitOf(f)'
  BY <1>8, FitKeeps, <1>5 DEF SameRow, Advance
<1> QED
  BY <1>1, <1>6, <1>7, <1>9, MoveKeeps

\* A step that is asked about, or attempted, next.
LEMMA AtStep ==
  ASSUME IInv, NEW c \in Call, Holds(c, "loop"), call[c].step <= Length
  PROVE  call[c].step \in Step
BY CallFacts DEF Holds, FitOf, Attempting, CallState, Step

LEMMA EntryKeeps ==
  ASSUME IInv, NEW c \in Call, Refuse(c) \/ Orphaned(c) \/ Lapse(c)
  PROVE  IInv'
<1> USE DEF gates, tables, world
<1>1. CASE Refuse(c)
  <2>1. PICK r \in Run : r = call[c].run
    BY <1>1, CallFacts DEF Refuse, Holds
  <2>2. Elsewhere(r) /\ RunOK(r)'
    BY <1>1, RunKeeps DEF IInv, Elsewhere, TableTypes, SameRow, Refuse
  <2>3. active' \in [Run -> Call \cup {None}]
    BY <1>1 DEF Refuse, IInv, CallTypes
  <2> QED
    BY <1>1, <2>1, <2>2, <2>3, ReturnKeeps DEF Refuse, Holds
<1>2. CASE Orphaned(c)
  BY <1>2, EndsKeeps DEF Orphaned, Holds, Terminal
<1>3. CASE Lapse(c)
  <2>1. PICK r \in Run : r = call[c].run
    BY <1>3, CallFacts DEF Lapse, Holds
  <2>2. Elsewhere(r) /\ RunOK(r)'
    BY <1>3, <2>1, StateRow DEF Lapse, RunState, Terminal
  <2>3. active' \in [Run -> Call \cup {None}]
    BY <1>3 DEF Lapse, IInv, CallTypes
  <2> QED
    BY <1>3, <2>1, <2>2, <2>3, ReturnKeeps DEF Lapse, Holds
<1> QED
  BY <1>1, <1>2, <1>3

LEMMA EnterKeeps == ASSUME IInv, NEW c \in Call, Enter(c) PROVE IInv'
<1> USE DEF gates, tables, world
<1>1. PICK r \in Run : r = call[c].run
  BY CallFacts DEF Enter, Holds
<1>2. PICK k : k = call[c]
  OBVIOUS
<1>3. k \in CallState
  BY <1>2, CallFacts DEF Enter, Holds
<1>4. PICK f : f = [k EXCEPT !.pc = "loop", !.step = 1, !.done = CompletedNodes(r), !.tokens = Seed(r)]
  OBVIOUS
<1>5. CompletedNodes(r) \in SUBSET Step /\ Seed(r) = spent[r] /\ Seed(r) \in Nat
  BY DEF CompletedNodes, Seed, IInv, TableTypes
<1>6. /\ f \in CallState /\ f.run = r /\ f.pc = "loop" /\ f.step = 1
      /\ f.done = CompletedNodes(r) /\ f.tokens = spent[r]
  BY <1>1, <1>2, <1>3, <1>4, <1>5 DEF CallState, Pc
<1>7. active' \in [Run -> Call \cup {None}]
  BY DEF Enter, IInv, CallTypes
<1>8. At(c, f) /\ up' = up /\ turn = c /\ turn' = turn /\ call[c].pc # "idle"
  BY <1>1, <1>2, <1>4 DEF Enter, At, Holds
<1>9. Moves(c, f)
  BY <1>1, <1>6, <1>7, <1>8 DEF Moves, Parked
<1>10. Elsewhere(r) /\ RunOK(r)' /\ state'[r] = "RUNNING"
  BY <1>1, StateRow DEF Enter, RunState
<1>11. FitOf(f)'
  <2>1. CompletedNodes(r)' = CompletedNodes(r) /\ spent' = spent
    BY DEF Enter, CompletedNodes
  <2>2. \A t \in Step : ~(t < 1)
    BY DEF Step
  <2> QED
    BY <1>6, <1>10, <2>1, <2>2 DEF FitOf, Attempting
<1> QED
  BY <1>1, <1>9, <1>10, <1>11, MoveKeeps

LEMMA LoopKeeps ==
  ASSUME IInv, NEW c \in Call,
         AllDone(c) \/ SeeAbort(c) \/ Skip(c) \/ Suspend(c) \/ DropItem(c) \/ GateFails(c)
  PROVE  IInv'
<1>1. CASE AllDone(c) \/ SeeAbort(c) \/ Suspend(c) \/ GateFails(c)
  BY <1>1, EndsKeeps DEF AllDone, SeeAbort, Suspend, GateFails, AtGate, PastWait, Holds, Terminal, Suspended
<1>2. CASE Skip(c)
  <2>1. call[c].step \in Step
    BY <1>2, AtStep DEF Skip
  <2>2. Behind(call[c].run, call[c].step)
    BY <1>2, CallFacts DEF Skip, Skips, Holds, FitOf, Behind
  <2> QED
    BY <1>2, <2>1, <2>2, AdvanceKeeps DEF Skip, Holds
<1>3. CASE DropItem(c)
  <2>1. call[c].step \in Step
    BY <1>3, AtStep DEF DropItem, AtGate, PastWait
  <2>2. Behind(call[c].run, call[c].step)
    BY <1>3 DEF DropItem, AtGate, PastWait, WaitOf, ApprovalOf, Behind
  <2> QED
    BY <1>3, <2>1, <2>2, AdvanceKeeps DEF DropItem, AtGate, PastWait, Holds
<1> QED
  BY <1>1, <1>2, <1>3

LEMMA AskKeeps == ASSUME IInv, NEW c \in Call, RequestWait(c) \/ RequestApproval(c) PROVE IInv'
<1> USE DEF gates, tables, world
<1>1. Holds(c, "loop") /\ call[c].step <= Length /\ call[c].pc # "idle"
  BY DEF RequestWait, RequestApproval, PastWait, AtGate, Holds
<1>2. PICK r \in Run, k \in CallState, s \in Step : k = call[c] /\ r = k.run /\ s = k.step
  BY <1>1, CallFacts, AtStep
<1>3. FitOf(k) /\ state[r] # "NONE" /\ k.pc = "loop"
  BY <1>1, <1>2, CallFacts DEF Holds
<1>4. \A t \in Step : t < s => Behind(r, t)
  BY <1>2, <1>3 DEF FitOf
<1>5. /\ Elsewhere(r) /\ RunOK(r)' /\ \A t \in Step : Behind(r, t) => Behind(r, t)'
      /\ UNCHANGED <<state, attempts, spent, up, call, active, turn>>
  <2>1. CASE RequestWait(c)
    <3>1. s \in Waits /\ wait[r][s] = "NONE"
      BY <2>1, <1>2 DEF RequestWait, WaitOf
    <3> QED
      BY <2>1, <3>1, <1>2, <1>3, <1>4, AskRow DEF RequestWait
  <2>2. CASE RequestApproval(c)
    <3>1. s \in Gated /\ approval[r][s] = "NONE" /\ WaitPassed(r, s)
      BY <2>2, <1>2 DEF RequestApproval, PastWait, WaitOf, ApprovalOf, WaitPassed
    <3> QED
      BY <2>2, <3>1, <1>2, <1>3, <1>4, AskRow DEF RequestApproval
  <2> QED
    BY <2>1, <2>2
<1>6. call' = [call EXCEPT ![c] = k]
  BY <1>2, <1>5 DEF IInv, CallTypes
<1>7. Moves(c, k)
  BY <1>1, <1>2, <1>3, <1>5, <1>6 DEF Moves, At, Holds, Parked, IInv, CallTypes
<1>8. FitOf(k)'
  BY <1>2, <1>3, <1>5 DEF FitOf, CompletedNodes, Attempting
<1> QED
  BY <1>2, <1>5, <1>7, <1>8, MoveKeeps

\* An attempt begins only where the gates have been passed.
LEMMA AttemptFacts ==
  ASSUME IInv, NEW c \in Call, StartAttempt(c), NEW r \in Run, NEW k \in CallState, k = call[c], r = k.run
  PROVE  k.step \in Step /\ Cleared(r, k.step) /\ k.step \notin CompletedNodes(r)
<1>1. call[c].pc \in {"loop", "again"} /\ FitOf(k) /\ RunOK(r)
  BY CallFacts DEF StartAttempt, PastWait, AtGate, Holds
<1>2. CASE Holds(c, "again")
  BY <1>1, <1>2 DEF FitOf, Attempting, Holds, RunOK, RowOK
<1>3. CASE PastWait(c) /\ ApprovalOf(c) = "APPROVED"
  <2>1. k.step \in Step /\ k.pc = "loop" /\ k.step \notin k.done
    BY <1>3, AtStep DEF PastWait, AtGate, Holds, Skips
  <2>2. ~(k.step < k.step)
    BY <2>1 DEF Step
  <2>3. k.step \notin CompletedNodes(r)
    BY <1>1, <2>1, <2>2 DEF FitOf
  <2> QED
    BY <1>3, <2>1, <2>3 DEF PastWait, WaitOf, ApprovalOf, Cleared, WaitPassed
<1> QED
  BY <1>2, <1>3 DEF StartAttempt

LEMMA AttemptKeeps == ASSUME IInv, NEW c \in Call, StartAttempt(c) PROVE IInv'
<1> USE DEF gates, tables, world
<1>1. turn = c /\ call[c].pc \in {"loop", "again"}
  BY DEF StartAttempt, PastWait, AtGate, Holds
<1>2. PICK r \in Run, k \in CallState : k = call[c] /\ r = k.run
  BY <1>1, CallFacts
<1>3. FitOf(k) /\ state[r] # "NONE"
  BY <1>1, <1>2, CallFacts
<1>4. k.step \in Step /\ Cleared(r, k.step) /\ k.step \notin CompletedNodes(r)
  BY <1>2, AttemptFacts
<1>5. /\ Elsewhere(r) /\ RunOK(r)' /\ Tried(r, k.step)'
      /\ CompletedNodes(r)' = CompletedNodes(r)
      /\ \A t \in Step : Behind(r, t) => Behind(r, t)'
  BY <1>2, <1>3, <1>4, AttemptRow DEF StartAttempt
<1>6. PICK f : f = [k EXCEPT !.pc = "body", !.try = k.try + 1, !.logged = FALSE, !.deaf = k.aborted]
  OBVIOUS
<1>7. /\ f \in CallState /\ f.run = r /\ f.pc = "body" /\ f.step = k.step
      /\ f.done = k.done /\ f.tokens = k.tokens
  <2>1. k.try + 1 \in Nat /\ k.aborted \in BOOLEAN
    BY DEF CallState
  <2> QED
    BY <1>2, <1>6, <2>1 DEF CallState, Pc, Attempting
<1>8. At(c, f) /\ up' = up /\ turn' = None /\ active' = active
  BY <1>2, <1>6 DEF StartAttempt, At
<1>9. Moves(c, f)
  BY <1>1, <1>2, <1>7, <1>8 DEF Moves, Parked, IInv, CallTypes
<1>10. FitOf(f)'
  BY <1>1, <1>2, <1>3, <1>4, <1>5, <1>7 DEF FitOf, StartAttempt, Attempting
<1> QED
  BY <1>2, <1>5, <1>9, <1>10, MoveKeeps

\* Steps that only change where the call is, and the word for its run.
LEMMA PauseKeeps == ASSUME IInv, NEW c \in Call, AwaitRetry(c) \/ Retry(c) PROVE IInv'
<1> USE DEF gates, tables, world
<1>1. PICK from \in {"retry", "backoff"}, to \in {"backoff", "again"}, v \in {"AWAITING_RETRY", "RUNNING"} :
        /\ call[c].pc = from /\ turn \in {None, c} /\ turn' = (IF to \in Parked THEN None ELSE c)
        /\ state' = [state EXCEPT ![call[c].run] = v]
        /\ At(c, [call[c] EXCEPT !.pc = to])
        /\ UNCHANGED <<attempts, approval, wait, spent, up, active>>
  BY DEF AwaitRetry, Retry, Holds, Parked
<1>2. PICK r \in Run, k \in CallState : k = call[c] /\ r = k.run
  BY <1>1, CallFacts
<1>3. FitOf(k)
  BY <1>1, <1>2, CallFacts
<1>4. PICK f : f = [k EXCEPT !.pc = to]
  OBVIOUS
<1>5. /\ f \in CallState /\ f.run = r /\ f.pc = to /\ f.step = k.step
      /\ f.done = k.done /\ f.tokens = k.tokens
  BY <1>2, <1>4 DEF CallState, Pc, Attempting
<1>6. Elsewhere(r) /\ RunOK(r)' /\ state'[r] = v
  BY <1>1, <1>2, StateRow DEF RunState
<1>7. Moves(c, f)
  BY <1>1, <1>2, <1>4, <1>5 DEF Moves, At, IInv, CallTypes
<1>8. FitOf(f)'
  <2>1. /\ CompletedNodes(r)' = CompletedNodes(r) /\ spent'[r] = spent[r]
        /\ \A t \in Step : (Tried(r, t)' <=> Tried(r, t)) /\ (Behind(r, t)' <=> Behind(r, t))
    BY <1>1 DEF Behind, Tried, CompletedNodes
  <2>2. k.pc \in {"retry", "backoff"} /\ k.run = r /\ v \in {"AWAITING_RETRY", "RUNNING"}
    BY <1>1, <1>2
  <2>3. to # "usage" /\ to \notin {"idle", "entry", "lapse"} /\ to \in Attempting
    BY DEF Attempting
  <2>4. /\ state[r] # "NONE" /\ k.step >= 1 /\ \A t \in Step : t < k.step => Behind(r, t)
        /\ k.done \subseteq CompletedNodes(r)
        /\ \A t \in CompletedNodes(r) : t \in k.done \/ t < k.step
        /\ spent[r] = k.tokens
        /\ k.step \in Step /\ Tried(r, k.step) /\ k.step \notin CompletedNodes(r)
    BY <1>3, <2>2 DEF FitOf, Attempting
  <2> QED
    BY <1>5, <1>6, <2>1, <2>2, <2>3, <2>4 DEF FitOf
<1> QED
  BY <1>2, <1>6, <1>7, <1>8, MoveKeeps

LEMMA UsageKeeps == ASSUME IInv, NEW c \in Call, AddRunUsage(c) \/ NoteUsage(c) PROVE IInv'
<1> USE DEF gates, tables, world
<1>1. PICK r \in Run, k \in CallState : k = call[c] /\ r = k.run
  BY CallFacts DEF AddRunUsage, InBody, NoteUsage, Holds
<1>2. FitOf(k) /\ RunOK(r) /\ spent[r] \in Nat /\ k.tokens \in Nat /\ k.pc \in {"body", "usage"}
  BY <1>1, CallFacts DEF AddRunUsage, InBody, NoteUsage, Holds, IInv, TableTypes, CallState
<1>3. CASE AddRunUsage(c)
  <2>1. PICK f : f = [k EXCEPT !.pc = "usage"]
    OBVIOUS
  <2>2. /\ f \in CallState /\ f.run = r /\ f.pc = "usage" /\ f.step = k.step
        /\ f.done = k.done /\ f.tokens = k.tokens
    BY <1>1, <2>1 DEF CallState, Pc, Attempting
  <2>3. At(c, f) /\ turn' = c /\ turn = None /\ up' = up /\ active' = active /\ k.pc = "body"
    BY <1>1, <1>3, <2>1 DEF AddRunUsage, InBody, At
  <2>4. spent[r] = k.tokens /\ k.tokens < MaxTokens
    BY <1>1, <1>2, <1>3, <2>3 DEF FitOf, AddRunUsage, Funded
  <2>5. spent' \in [Run -> Nat] /\ spent'[r] = spent[r] + 1 /\ \A q \in Run \ {r} : spent'[q] = spent[q]
    BY <1>1, <1>2, <1>3 DEF AddRunUsage, IInv, TableTypes
  <2>6. Elsewhere(r)
    BY <1>3, <2>5 DEF AddRunUsage, Elsewhere, TableTypes, SameRow, IInv
  <2>7. RunOK(r)'
    <3>1. \A s \in Step : RowOK(r, s)'
      BY <1>2, <1>3 DEF RunOK, RowOK, Tried, Cleared, WaitPassed, Pending, Behind, CompletedNodes, AddRunUsage
    <3>2. spent'[r] <= MaxTokens
      BY <1>2, <2>4, <2>5
    <3> QED
      BY <3>1, <3>2 DEF RunOK
  <2>8. Moves(c, f)
    BY <1>1, <2>2, <2>3 DEF Moves, Parked, IInv, CallTypes
  <2>9. FitOf(f)'
    <3>1. /\ CompletedNodes(r)' = CompletedNodes(r) /\ state' = state
          /\ \A t \in Step : Behind(r, t)' = Behind(r, t) /\ Tried(r, t)' = Tried(r, t)
      BY <1>3 DEF AddRunUsage, CompletedNodes, Behind, Tried
    <3>2. spent'[r] = f.tokens + 1
      BY <2>2, <2>4, <2>5
    <3> QED
      BY <1>1, <1>2, <2>2, <2>3, <3>1, <3>2 DEF FitOf, Attempting
  <2> QED
    BY <1>1, <2>6, <2>7, <2>8, <2>9, MoveKeeps
<1>4. CASE NoteUsage(c)
  <2>1. PICK f : f = [k EXCEPT !.pc = "body", !.tokens = k.tokens + 1]
    OBVIOUS
  <2>2. /\ f \in CallState /\ f.run = r /\ f.pc = "body" /\ f.step = k.step
        /\ f.done = k.done /\ f.tokens = k.tokens + 1
    <3>1. k.tokens + 1 \in Nat
      BY <1>2
    <3> QED
      BY <1>1, <2>1, <3>1 DEF CallState, Pc, Attempting
  <2>3. At(c, f) /\ turn' = None /\ turn = c /\ up' = up /\ active' = active /\ k.pc = "usage"
    BY <1>1, <1>4, <2>1 DEF NoteUsage, Holds, At
  <2>4. Elsewhere(r) /\ RunOK(r)'
    BY <1>2, <1>4, RunKeeps DEF IInv, Elsewhere, TableTypes, SameRow, NoteUsage
  <2>5. Moves(c, f)
    BY <1>1, <2>2, <2>3 DEF Moves, Parked, IInv, CallTypes
  <2>6. FitOf(f)
    BY <1>1, <1>2, <2>2, <2>3 DEF FitOf, Attempting
  <2>7. FitOf(f)'
    BY <1>4, <2>6, FitKeeps DEF SameRow, NoteUsage
  <2> QED
    BY <1>1, <2>4, <2>5, <2>7, MoveKeeps
<1> QED
  BY <1>3, <1>4

LEMMA FailKeeps == ASSUME IInv, NEW c \in Call, Cancelled(c) \/ StepFails(c) PROVE IInv'
<1>1. CASE Cancelled(c)
  BY <1>1, EndsKeeps DEF Cancelled, Holds, Terminal
<1>2. CASE StepFails(c) /\ call[c].step \in Continuing
  <2>1. call[c].step \in Step /\ Behind(call[c].run, call[c].step)
    BY <1>2, CallFacts DEF StepFails, Holds, FitOf, Attempting, Behind
  <2> QED
    BY <1>2, <2>1, AdvanceKeeps DEF StepFails, Holds
<1>3. CASE StepFails(c) /\ call[c].step \notin Continuing
  BY <1>3, EndsKeeps DEF StepFails, Holds, Terminal
<1> QED
  BY <1>1, <1>2, <1>3

\* The end of an attempt: the row gets its verdict, the call goes where the
\* verdict leads.
LEMMA VerdictFacts ==
  ASSUME IInv, NEW c \in Call, InBody(c), NEW v \in Verdict, FinishAttempt(c, v),
         NEW r \in Run, r = call[c].run, NEW s \in Step, s = call[c].step
  PROVE  /\ Elsewhere(r) /\ RunOK(r)' /\ Tried(r, s)' /\ s \notin CompletedNodes(r)
         /\ CompletedNodes(r)' = CompletedNodes(r) \cup (IF v = "SUCCEEDED" THEN {s} ELSE {})
         /\ \A t \in Step : Behind(r, t) => Behind(r, t)'
<1>1. Tried(r, s) /\ s \notin CompletedNodes(r)
  BY CallFacts DEF InBody, FitOf, Attempting
<1>2. Judged(r, s, v)
  BY DEF FinishAttempt, gates, Judged
<1> QED
  BY <1>1, <1>2, VerdictRow

LEMMA BodyKeeps == ASSUME IInv, NEW c \in Call, BodySucceeds(c) \/ BodyFails(c) PROVE IInv'
<1> USE DEF gates, tables, world
<1>1. InBody(c)
  BY DEF BodySucceeds, BodyFails
<1>2. PICK r \in Run, k \in CallState : k = call[c] /\ r = k.run
  BY <1>1, CallFacts DEF InBody
<1>3. FitOf(k) /\ k.pc = "body" /\ k.step \in Step
  BY <1>1, <1>2, CallFacts DEF InBody, FitOf, Attempting
<1>4. CASE BodySucceeds(c)
  <2>1. /\ Elsewhere(r) /\ RunOK(r)' /\ CompletedNodes(r)' = CompletedNodes(r) \cup {k.step}
        /\ \A t \in Step : Behind(r, t) => Behind(r, t)'
    BY <1>1, <1>2, <1>3, <1>4, VerdictFacts DEF BodySucceeds, Verdict
  <2>2. PICK f : f = [k EXCEPT !.pc = "loop", !.step = k.step + 1, !.try = 0]
    OBVIOUS
  <2>3. /\ f \in CallState /\ f.run = r /\ f.pc = "loop" /\ f.step = k.step + 1
        /\ f.done = k.done /\ f.tokens = k.tokens
    <3>1. k.step + 1 \in Nat
      BY <1>3 DEF Step
    <3> QED
      BY <1>2, <2>2, <3>1 DEF CallState, Pc
  <2>4. At(c, f) /\ turn' = c /\ turn = None /\ up' = up /\ active' = active
    BY <1>2, <1>4, <2>2 DEF BodySucceeds, FinishAttempt, InBody, At
  <2>5. Moves(c, f)
    BY <1>2, <1>3, <2>3, <2>4 DEF Moves, Parked, IInv, CallTypes
  <2>6. FitOf(f)'
    <3>1. state' = state /\ spent' = spent
      BY <1>4 DEF BodySucceeds, FinishAttempt
    <3>2. \A t \in Step : t < f.step => t < k.step \/ t = k.step
      BY <1>3, <2>3 DEF Step
    <3>3. \A t \in Step : t < k.step => t < f.step
      BY <1>3, <2>3 DEF Step
    <3>4. f.step >= 1 /\ k.step < f.step
      BY <1>3, <2>3 DEF Step
    <3>5. \A t \in Step : t < f.step => Behind(r, t)'
      BY <1>2, <1>3, <2>1, <3>2 DEF FitOf, Behind
    <3>6. \A t \in CompletedNodes(r)' : t \in f.done \/ t < f.step
      BY <1>2, <1>3, <2>1, <2>3, <3>3, <3>4 DEF FitOf, CompletedNodes
    <3> QED
      BY <1>2, <1>3, <2>1, <2>3, <3>1, <3>4, <3>5, <3>6 DEF FitOf, Attempting
  <2> QED
    BY <1>2, <2>1, <2>5, <2>6, MoveKeeps
<1>5. CASE BodyFails(c)
  <2>1. PICK v \in {"CANCELLED", "FAILED"}, to \in {"cancelled", "retry", "failed"} :
          FinishAttempt(c, v) /\ At(c, [call[c] EXCEPT !.pc = to])
    BY <1>5 DEF BodyFails
  <2>2. /\ Elsewhere(r) /\ RunOK(r)' /\ Tried(r, k.step)' /\ CompletedNodes(r)' = CompletedNodes(r)
        /\ k.step \notin CompletedNodes(r)
        /\ \A t \in Step : Behind(r, t) => Behind(r, t)'
    BY <1>1, <1>2, <1>3, <2>1, VerdictFacts DEF Verdict
  <2>3. PICK f : f = [k EXCEPT !.pc = to]
    OBVIOUS
  <2>4. /\ f \in CallState /\ f.run = r /\ f.pc = to /\ f.step = k.step
        /\ f.done = k.done /\ f.tokens = k.tokens
    BY <1>2, <2>3 DEF CallState, Pc, Attempting
  <2>5. At(c, f) /\ turn' = c /\ turn = None /\ up' = up /\ active' = active /\ state' = state /\ spent' = spent
    BY <1>1, <1>2, <2>1, <2>3 DEF FinishAttempt, InBody
  <2>6. Moves(c, f)
    BY <1>2, <1>3, <2>4, <2>5 DEF Moves, Parked, IInv, CallTypes
  <2>7. FitOf(f)'
    BY <1>2, <1>3, <2>2, <2>4, <2>5 DEF FitOf, Attempting
  <2> QED
    BY <1>2, <2>2, <2>6, <2>7, MoveKeeps
<1> QED
  BY <1>4, <1>5

\* What happens to children, outputs and definitions is not looked at.
LEMMA AsideKeeps ==
  ASSUME IInv, DeleteWorkflow \/ Started \/ \E c \in Call : Spawn(c) \/ RecordProcess(c)
  PROVE  IInv'
<1> USE DEF gates, tables, world
<1>1. UNCHANGED <<state, attempts, approval, wait, spent, call, active, turn>> /\ (up' = up \/ up' # "down")
  BY DEF DeleteWorkflow, Started, Spawn, RecordProcess
<1>2. SameCalls
  BY <1>1 DEF SameCalls, IInv, CallTypes
<1> QED
  BY <1>1, <1>2, GlanceKeeps

LEMMA EmitKeeps == ASSUME IInv, NEW c \in Call, EmitOutput(c) PROVE IInv'
<1> USE DEF gates, tables, world
<1>1. PICK f : f = [call[c] EXCEPT !.logged = TRUE]
  OBVIOUS
<1>2. /\ f \in CallState /\ f.run = call[c].run /\ f.pc = call[c].pc
      /\ f.step = call[c].step /\ f.done = call[c].done /\ f.tokens = call[c].tokens
  BY <1>1, ZenonT(30) DEF IInv, CallTypes, CallState
<1>3. call' = [call EXCEPT ![c] = f]
  BY <1>1 DEF EmitOutput, At
<1>4. SameCalls
  BY <1>2, <1>3 DEF SameCalls, IInv, CallTypes, EmitOutput
<1> QED
  BY <1>4, GlanceKeeps DEF EmitOutput

LEMMA ShutdownKeeps == ASSUME IInv, Shutdown PROVE IInv'
<1> USE DEF gates, tables, world
<1>1. ASSUME NEW c \in Call
      PROVE  /\ call'[c] \in CallState /\ call'[c].run = call[c].run /\ call'[c].pc = call[c].pc
             /\ call'[c].step = call[c].step /\ call'[c].done = call[c].done
             /\ call'[c].tokens = call[c].tokens
  <2>1. PICK b \in BOOLEAN : b = (call[c].aborted \/ \E r \in Run : active[r] = c)
    OBVIOUS
  <2>2. call'[c] = [call[c] EXCEPT !.aborted = b]
    BY <2>1 DEF Shutdown
  <2> QED
    BY <2>2 DEF IInv, CallTypes, CallState
<1>2. call' \in [Call -> CallState]
  BY <1>1 DEF Shutdown
<1>3. SameCalls
  BY <1>1, <1>2 DEF SameCalls, Shutdown
<1> QED
  BY <1>3, GlanceKeeps DEF Shutdown

LEMMA CrashKeeps == ASSUME IInv, Crash PROVE IInv'
<1> USE DEF gates, tables, world
<1>1. UNCHANGED <<state, attempts, approval, wait, spent>> /\ turn' = None /\ up' = "down"
  BY DEF Crash
<1>2. \A c \in Call : call'[c] = Idle
  BY DEF Crash
<1>3. call' \in [Call -> CallState] /\ active' \in [Run -> Call \cup {None}]
  BY IdleState DEF Crash
<1>4. CallTypes' /\ TableTypes'
  BY <1>1, <1>3 DEF IInv, CallTypes, TableTypes
<1>5. Thread' /\ Alone'
  BY <1>1, <1>2, IdleState DEF Thread, Alone, Parked
<1>6. \A q \in Run : RunOK(q)'
  BY <1>1, RunKeeps DEF IInv, SameRow
<1>7. \A c \in Call : FitOf(call[c])'
  BY <1>2, IdleState DEF FitOf, Attempting
<1> QED
  BY <1>4, <1>5, <1>6, <1>7 DEF IInv

LEMMA RecoverKeeps == ASSUME IInv, RecoverInterrupted PROVE IInv'
<1> USE DEF gates, tables, world
<1>1. UNCHANGED <<attempts, approval, wait, spent, call, active, turn>> /\ up' = "starting"
  BY DEF RecoverInterrupted
<1>2. \A c \in Call : call[c].pc = "idle"
  BY DEF RecoverInterrupted, IInv, Thread
<1>3. state' \in [Run -> RunState] /\ \A q \in Run : state'[q] = "NONE" => state[q] = "NONE"
  BY DEF RecoverInterrupted, IInv, TableTypes, RunState
<1>4. CallTypes' /\ TableTypes'
  BY <1>1, <1>3 DEF IInv, CallTypes, TableTypes
<1>5. Thread' /\ Alone'
  BY <1>1 DEF Thread, Alone, IInv
<1>6. ASSUME NEW q \in Run PROVE RunOK(q)'
  <2>1. RunOK(q)
    BY DEF IInv
  <2> QED
    BY <1>1, <1>3, <2>1 DEF RunOK, RowOK, Tried, Cleared, WaitPassed, Pending, Behind, CompletedNodes
<1>7. \A c \in Call : FitOf(call[c])'
  BY <1>1, <1>2 DEF FitOf, Attempting
<1> QED
  BY <1>4, <1>5, <1>6, <1>7 DEF IInv

-----------------------------------------------------------------------------
LEMMA Starts == Init => IInv
<1> SUFFICES ASSUME Init PROVE IInv
  OBVIOUS
<1>1. TableTypes
  BY DEF Init, TableTypes, RunState, Answer
<1>2. CallTypes /\ Thread /\ Alone
  BY IdleState DEF Init, CallTypes, Thread, Alone, Parked
<1>3. \A r \in Run : RunOK(r)
  BY DEF Init, RunOK, RowOK, Tried, Pending, WaitPassed
<1>4. \A c \in Call : FitOf(call[c])
  BY IdleState DEF Init, FitOf, Attempting
<1> QED
  BY <1>1, <1>2, <1>3, <1>4 DEF IInv

LEMMA ProceedKeeps == ASSUME IInv, NEW c \in Call, Proceed(c) PROVE IInv'
BY EntryKeeps, EnterKeeps, LoopKeeps, AskKeeps, AttemptKeeps, UsageKeeps, FailKeeps, PauseKeeps DEF Proceed

LEMMA Stays == IInv /\ GatesComeFirst /\ [Next]_vars => IInv'
<1> SUFFICES ASSUME IInv, GatesComeFirst, [Next]_vars PROVE IInv'
  OBVIOUS
<1>1. CASE Request
  BY <1>1, RequestKeeps
<1>2. CASE \E c \in Call : Proceed(c)
  BY <1>2, ProceedKeeps
<1>3. CASE \E c \in Call : Retry(c)
  BY <1>3, PauseKeeps
<1>4. CASE \E c \in Call : Body(c)
  BY <1>4, AsideKeeps, UsageKeeps, EmitKeeps, BodyKeeps DEF Body
<1>5. CASE DeleteWorkflow \/ Shutdown \/ Crash \/ RecoverInterrupted \/ Started
  BY <1>5, AsideKeeps, ShutdownKeeps, CrashKeeps, RecoverKeeps
<1>6. CASE UNCHANGED vars
  <2>1. SameCalls
    BY <1>6 DEF vars, SameCalls, IInv, CallTypes
  <2> QED
    BY <1>6, <2>1, GlanceKeeps DEF vars, tables, gates, world
<1> QED
  BY <1>1, <1>2, <1>3, <1>4, <1>5, <1>6 DEF Next

\* The tables and the calls agree, always.
LEMMA Always == ASSUME GatesComeFirst PROVE Spec => []IInv
<1>1. Init => IInv
  BY Starts
<1>2. IInv /\ [Next]_vars => IInv'
  BY Stays
<1> QED
  BY <1>1, <1>2, PTL DEF Spec

\* A run is executed by one call at a time, and by none while one of its
\* questions is open: for every number of calls, and with no lock.
THEOREM ExecutedOnce == ASSUME GatesComeFirst PROVE Spec => []OneExecution
<1>1. IInv => OneExecution
  <2> SUFFICES ASSUME IInv PROVE OneExecution
    OBVIOUS
  <2>1. \A c, d \in Call : Busy(c) /\ call[c].run = call[d].run => c = d
    BY DEF IInv, Alone, Busy
  <2>2. ASSUME turn = None, NEW r \in Run, Executing(r), NEW s \in Step
        PROVE  approval[r][s] # "PENDING" /\ wait[r][s] # "PENDING"
    BY <2>2, NobodyExecutes DEF Pending
  <2> QED
    BY <2>1, <2>2 DEF OneExecution
<1> QED
  BY <1>1, Always, PTL

\* No history of crashes, retries and resumes lets a run report past its ceiling.
THEOREM CeilingHolds == ASSUME GatesComeFirst PROVE Spec => []BudgetHolds
<1>1. IInv => BudgetHolds
  BY DEF IInv, RunOK, BudgetHolds
<1> QED
  BY <1>1, Always, PTL

-----------------------------------------------------------------------------
(***************************************************************************)
(* The manager implements DurableSteps.  Each of its steps is one step of  *)
(* the promise for the run that it writes, or none.                        *)
(***************************************************************************)
Durably == Durable!Next \/ UNCHANGED Durable!vars

\* What DurableSteps sees of a run.
SameView(q) ==
  /\ Phase(q)' = Phase(q) /\ Opened(q)' = Opened(q) /\ CompletedNodes(q)' = CompletedNodes(q)
  /\ \A s \in Step : Len(attempts'[q][s]) = Len(attempts[q][s])

LEMMA ViewKeeps == ASSUME NEW q \in Run, SameRow(q) PROVE SameView(q)
BY DEF SameRow, SameView, Phase, Opened, CompletedNodes

LEMMA Stutter == ASSUME \A q \in Run : SameView(q) PROVE Durably
BY DEF Durably, Durable!vars, SameView

LEMMA StartsDurably == Init => Durable!Init
<1> SUFFICES ASSUME Init PROVE Durable!Init
  OBVIOUS
<1>1. ASSUME NEW r \in Run
      PROVE  /\ Phase(r) = "absent" /\ Opened(r) = {} /\ CompletedNodes(r) = {}
             /\ \A s \in Step : Len(attempts[r][s]) = 0
  <2>1. state[r] = "NONE" /\ \A s \in Step : attempts[r][s] = <<>>
    BY DEF Init
  <2>2. Opened(r) = {}
    BY DEF Init, Opened
  <2>3. CompletedNodes(r) = {}
    BY <2>1 DEF CompletedNodes
  <2>4. Phase(r) = "absent"
    BY <2>1 DEF Phase, Terminal
  <2> QED
    BY <2>1, <2>2, <2>3, <2>4
<1> QED
  BY <1>1 DEF Durable!Init

\* A run begins, ends, or is given another word for being alive.
LEMMA StateStep ==
  ASSUME IInv, NEW r \in Run, NEW v \in RunState, v # "NONE", state' = [state EXCEPT ![r] = v],
         UNCHANGED <<attempts, approval, wait, spent>>,
         state[r] = "NONE" => v \notin Terminal, state[r] \in Terminal => v \in Terminal
  PROVE  Durably
<1>1. \A q \in Run \ {r} : SameView(q)
  BY ViewKeeps, StateRow DEF Elsewhere
<1>2. /\ Opened(r)' = Opened(r) /\ CompletedNodes(r)' = CompletedNodes(r) /\ state'[r] = v
      /\ \A s \in Step : Len(attempts'[r][s]) = Len(attempts[r][s])
  BY StateRow DEF Opened, CompletedNodes
<1>3. CASE state[r] = "NONE"
  <2>1. Phase(r) = "absent" /\ Phase(r)' = "live"
    BY <1>2, <1>3 DEF Phase, Terminal
  <2>2. Durable!Begin(r)
    BY <1>1, <1>2, <2>1 DEF Durable!Begin, SameView
  <2> QED
    BY <2>2 DEF Durably, Durable!Next
<1>4. CASE state[r] # "NONE" /\ state[r] \notin Terminal /\ v \in Terminal
  <2>1. Phase(r) = "live" /\ Phase(r)' = "over"
    BY <1>2, <1>4 DEF Phase, Terminal
  <2>2. Durable!End(r)
    BY <1>1, <1>2, <2>1 DEF Durable!End, SameView
  <2> QED
    BY <2>2 DEF Durably, Durable!Next
<1>5. CASE state[r] # "NONE" /\ (state[r] \in Terminal <=> v \in Terminal)
  <2>1. Phase(r)' = Phase(r)
    BY <1>2, <1>5 DEF Phase, Terminal
  <2>2. SameView(r)
    BY <1>2, <2>1 DEF SameView
  <2> QED
    BY <1>1, <2>2, Stutter
<1> QED
  BY <1>3, <1>4, <1>5

LEMMA ApprovalStep ==
  ASSUME IInv, NEW r \in Run, NEW s \in Step, approval[r][s] = "PENDING",
         NEW v \in {"APPROVED", "REJECTED", "EXPIRED"}, approval' = [approval EXCEPT ![r][s] = v],
         UNCHANGED <<state, attempts, wait, spent>>
  PROVE  Durably
<1>1. \A q \in Run \ {r} : SameView(q)
  BY ViewKeeps, ApprovalRow DEF Elsewhere
<1>2. /\ Phase(r)' = Phase(r) /\ CompletedNodes(r)' = CompletedNodes(r)
      /\ \A t \in Step : Len(attempts'[r][t]) = Len(attempts[r][t])
  BY DEF Phase, CompletedNodes
<1>3. approval'[r][s] = v /\ \A t \in Step \ {s} : approval'[r][t] = approval[r][t]
  BY DEF IInv, TableTypes
<1>4. s \in Gated /\ state[r] # "NONE"
  BY DEF IInv, RunOK, RowOK
<1>5. CASE v = "APPROVED"
  <2>1. Opened(r)' = Opened(r) \cup {<<s, "approval">>} /\ <<s, "approval">> \notin Opened(r)
    BY <1>3, <1>4, <1>5 DEF Opened
  <2>2. Phase(r) # "absent"
    BY <1>4 DEF Phase
  <2>3. <<s, "approval">> \in Durable!Gates
    BY <1>4 DEF Durable!Gates, Gates
  <2>4. Durable!Open(r, <<s, "approval">>)
    BY <1>1, <1>2, <2>1, <2>2 DEF Durable!Open, SameView
  <2> QED
    BY <2>3, <2>4 DEF Durably, Durable!Next
<1>6. CASE v # "APPROVED"
  <2>1. Opened(r)' = Opened(r)
    BY <1>3, <1>6 DEF Opened
  <2>2. SameView(r)
    BY <1>2, <2>1 DEF SameView
  <2> QED
    BY <1>1, <2>2, Stutter
<1> QED
  BY <1>5, <1>6

LEMMA WaitStep ==
  ASSUME IInv, NEW r \in Run, NEW s \in Step, wait[r][s] = "PENDING",
         NEW v \in {"RECEIVED", "EXPIRED"}, wait' = [wait EXCEPT ![r][s] = v],
         UNCHANGED <<state, attempts, approval, spent>>
  PROVE  Durably
<1>1. \A q \in Run \ {r} : SameView(q)
  BY ViewKeeps, WaitRow DEF Elsewhere
<1>2. /\ Phase(r)' = Phase(r) /\ CompletedNodes(r)' = CompletedNodes(r)
      /\ \A t \in Step : Len(attempts'[r][t]) = Len(attempts[r][t])
  BY DEF Phase, CompletedNodes
<1>3. wait'[r][s] = v /\ \A t \in Step \ {s} : wait'[r][t] = wait[r][t]
  BY DEF IInv, TableTypes
<1>4. s \in Waits /\ state[r] # "NONE"
  BY DEF IInv, RunOK, RowOK
<1>5. CASE v = "RECEIVED"
  <2>1. Opened(r)' = Opened(r) \cup {<<s, "event">>} /\ <<s, "event">> \notin Opened(r)
    BY <1>3, <1>4, <1>5 DEF Opened
  <2>2. Phase(r) # "absent"
    BY <1>4 DEF Phase
  <2>3. <<s, "event">> \in Durable!Gates
    BY <1>4 DEF Durable!Gates, Gates
  <2>4. Durable!Open(r, <<s, "event">>)
    BY <1>1, <1>2, <2>1, <2>2 DEF Durable!Open, SameView
  <2> QED
    BY <2>3, <2>4 DEF Durably, Durable!Next
<1>6. CASE v # "RECEIVED"
  <2>1. Opened(r)' = Opened(r)
    BY <1>3, <1>6 DEF Opened
  <2>2. SameView(r)
    BY <1>2, <2>1 DEF SameView
  <2> QED
    BY <1>1, <2>2, Stutter
<1> QED
  BY <1>5, <1>6

\* A call can only be in the midst of a run that is alive.
LEMMA Live ==
  ASSUME IInv, NEW c \in Call, call[c].pc \notin {"idle", "entry", "lapse"}
  PROVE  state[call[c].run] \notin Terminal \cup {"NONE"} /\ Phase(call[c].run) = "live"
BY CallFacts DEF FitOf, Terminal, Phase

LEMMA RequestStep == ASSUME IInv, Request PROVE Durably
<1> USE DEF gates, tables, world
<1>1. ASSUME NEW r \in Run, CreateRun(r) PROVE Durably
  BY <1>1, StateStep DEF CreateRun, RunState, Terminal
<1>2. ASSUME NEW r \in Run, Resume(r) \/ Cancel(r) PROVE Durably
  BY <1>2, Stutter, ViewKeeps DEF SameRow, Resume, Cancel
<1>3. ASSUME NEW r \in Run, NEW s \in Step, NEW v \in {"APPROVED", "REJECTED"}, DecideApproval(r, s, v)
      PROVE  Durably
  BY <1>3, ApprovalStep DEF DecideApproval
<1>4. ASSUME NEW r \in Run, NEW s \in Step, DeliverEvent(r, s) PROVE Durably
  BY <1>4, WaitStep DEF DeliverEvent
<1>5. ASSUME NEW r \in Run, NEW s \in Step, ExpireApproval(r, s) PROVE Durably
  BY <1>5, ApprovalStep DEF ExpireApproval
<1>6. ASSUME NEW r \in Run, NEW s \in Step, ExpireWait(r, s) PROVE Durably
  BY <1>6, WaitStep DEF ExpireWait
<1> QED
  BY <1>1, <1>2, <1>3, <1>4, <1>5, <1>6 DEF Request

LEMMA EndsStep ==
  ASSUME IInv, NEW c \in Call, turn = c, NEW v \in Terminal \cup Suspended, Ends(c, v),
         state[call[c].run] \notin Terminal
  PROVE  Durably
<1>1. call[c].pc # "idle"
  BY DEF IInv, Thread, Parked
<1>2. PICK r \in Run : r = call[c].run /\ state[r] # "NONE"
  BY <1>1, CallFacts
<1>3. v \in RunState /\ v # "NONE"
  BY DEF Terminal, Suspended, RunState
<1> QED
  BY <1>2, <1>3, StateStep DEF Ends, gates

LEMMA SilentStep ==
  ASSUME UNCHANGED <<state, attempts, approval, wait, spent>>
  PROVE  Durably
BY Stutter, ViewKeeps DEF SameRow

LEMMA LoopStep ==
  ASSUME IInv, NEW c \in Call,
         \/ Refuse(c) \/ Orphaned(c) \/ Enter(c) \/ Lapse(c)
         \/ AllDone(c) \/ SeeAbort(c) \/ Skip(c) \/ Suspend(c) \/ DropItem(c) \/ GateFails(c)
         \/ Cancelled(c) \/ StepFails(c) \/ NoteUsage(c)
  PROVE  Durably
<1> USE DEF gates, tables, world
<1>1. CASE Refuse(c) \/ Skip(c) \/ DropItem(c) \/ NoteUsage(c)
  BY <1>1, SilentStep DEF Refuse, Skip, DropItem, NoteUsage, Advance
<1>2. CASE Orphaned(c)
  BY <1>2, EndsStep DEF Orphaned, Holds, Terminal
<1>3. CASE Enter(c)
  <2>1. PICK r \in Run : r = call[c].run /\ state[r] # "NONE"
    BY <1>3, CallFacts DEF Enter, Holds
  <2> QED
    BY <1>3, <2>1, StateStep DEF Enter, RunState, Terminal
<1>4. CASE Lapse(c)
  <2>1. PICK r \in Run : r = call[c].run /\ state[r] # "NONE"
    BY <1>4, CallFacts DEF Lapse, Holds
  <2> QED
    BY <1>4, <2>1, StateStep DEF Lapse, RunState, Terminal
<1>5. CASE AllDone(c) \/ SeeAbort(c) \/ Suspend(c) \/ GateFails(c) \/ Cancelled(c) \/ StepFails(c)
  <2>1. turn = c /\ call[c].pc \notin {"idle", "entry", "lapse"}
    BY <1>5 DEF AllDone, SeeAbort, Suspend, GateFails, Cancelled, StepFails, AtGate, PastWait, Holds
  <2>2. CASE \E v \in Terminal \cup Suspended : Ends(c, v)
    BY <2>1, <2>2, Live, EndsStep
  <2>3. CASE Advance(c)
    BY <2>3, SilentStep DEF Advance
  <2> QED
    BY <1>5, <2>2, <2>3 DEF AllDone, SeeAbort, Suspend, GateFails, Cancelled, StepFails, Terminal, Suspended
<1> QED
  BY <1>1, <1>2, <1>3, <1>4, <1>5

\* To ask a question opens nothing.
LEMMA AskStep == ASSUME IInv, NEW c \in Call, RequestWait(c) \/ RequestApproval(c) PROVE Durably
<1> USE DEF gates, tables, world
<1>1. PICK r \in Run, s \in Step : r = call[c].run /\ s = call[c].step
  BY CallFacts, AtStep DEF RequestWait, RequestApproval, PastWait, AtGate, Holds
<1>2. /\ UNCHANGED <<state, attempts, spent>>
      /\ \A q \in Run, t \in Step :
           /\ approval'[q][t] = approval[q][t] \/ (approval[q][t] = "NONE" /\ approval'[q][t] = "PENDING")
           /\ wait'[q][t] = wait[q][t] \/ (wait[q][t] = "NONE" /\ wait'[q][t] = "PENDING")
  <2>1. CASE RequestWait(c)
    <3>1. wait[r][s] = "NONE" /\ wait' = [wait EXCEPT ![r][s] = "PENDING"]
      BY <2>1, <1>1 DEF RequestWait, WaitOf
    <3>2. /\ wait'[r][s] = "PENDING" /\ \A q \in Run \ {r} : wait'[q] = wait[q]
          /\ \A t \in Step \ {s} : wait'[r][t] = wait[r][t]
      BY <3>1 DEF IInv, TableTypes
    <3> QED
      BY <2>1, <3>1, <3>2 DEF RequestWait
  <2>2. CASE RequestApproval(c)
    <3>1. approval[r][s] = "NONE" /\ approval' = [approval EXCEPT ![r][s] = "PENDING"]
      BY <2>2, <1>1 DEF RequestApproval, ApprovalOf
    <3>2. /\ approval'[r][s] = "PENDING" /\ \A q \in Run \ {r} : approval'[q] = approval[q]
          /\ \A t \in Step \ {s} : approval'[r][t] = approval[r][t]
      BY <3>1 DEF IInv, TableTypes
    <3> QED
      BY <2>2, <3>1, <3>2 DEF RequestApproval
  <2> QED
    BY <2>1, <2>2
<1>3. ASSUME NEW q \in Run PROVE SameView(q)
  <2>1. \A t \in Step : (approval'[q][t] = "APPROVED" <=> approval[q][t] = "APPROVED")
                        /\ (wait'[q][t] = "RECEIVED" <=> wait[q][t] = "RECEIVED")
    BY <1>2
  <2>2. Opened(q)' = Opened(q)
    BY <2>1 DEF Opened
  <2> QED
    BY <1>2, <2>2 DEF SameView, Phase, CompletedNodes
<1> QED
  BY <1>3, Stutter

\* An attempt is made in turn: what the call has passed is done or may be
\* missed, and what the step needs is open.
LEMMA AttemptStep == ASSUME IInv, NEW c \in Call, StartAttempt(c) PROVE Durably
<1> USE DEF gates, tables, world
<1>1. turn = c /\ call[c].pc \in {"loop", "again"}
  BY DEF StartAttempt, PastWait, AtGate, Holds
<1>2. PICK r \in Run, k \in CallState : k = call[c] /\ r = k.run
  BY <1>1, CallFacts
<1>3. FitOf(k) /\ state[r] # "NONE" /\ RunOK(r)
  BY <1>1, <1>2, CallFacts
<1>4. k.step \in Step /\ Cleared(r, k.step) /\ k.step \notin CompletedNodes(r)
  BY <1>2, AttemptFacts
<1>5. PICK s \in Step : s = k.step
  BY <1>4
<1>6. /\ Elsewhere(r) /\ CompletedNodes(r)' = CompletedNodes(r)
      /\ Len(attempts'[r][s]) = Len(attempts[r][s]) + 1
      /\ \A t \in Step \ {s} : attempts'[r][t] = attempts[r][t]
  BY <1>2, <1>3, <1>4, <1>5, AttemptRow, ZenonT(30) DEF StartAttempt
<1>7. \A q \in Run \ {r} : SameView(q)
  BY <1>6, ViewKeeps DEF Elsewhere
<1>8. Phase(r) = "live" /\ Phase(r)' = Phase(r) /\ Opened(r)' = Opened(r)
  BY <1>1, <1>2, Live DEF StartAttempt, Phase, Opened
<1>9. \A g \in Gates[s] : <<s, g>> \in Opened(r)
  BY <1>4, <1>5 DEF Gates, Opened, Cleared, WaitPassed
<1>10. \A t \in Step : t < s => t \in CompletedNodes(r) \cup Lenient
  BY <1>1, <1>2, <1>3, <1>5 DEF FitOf, Behind
<1>11. Durable!InTurn(r, s)
  BY <1>4, <1>5, <1>9, <1>10 DEF Durable!InTurn
<1>12. Durable!Attempt(r, s)
  <2> DEFINE Tries == [q \in Run |-> [t \in Step |-> Len(attempts[q][t])]]
  <2>1. \A q \in Run \ {r} : Tries'[q] = Tries[q]
    BY <1>7 DEF SameView
  <2>2. Tries'[r] = [Tries[r] EXCEPT ![s] = @ + 1]
    BY <1>6
  <2>3. Tries' = [Tries EXCEPT ![r] = [Tries[r] EXCEPT ![s] = @ + 1]]
    BY <2>1, <2>2
  <2>4. Tries' = [Tries EXCEPT ![r][s] = @ + 1]
    BY <2>3
  <2> HIDE DEF Tries
  <2>5. \A q \in Run : Phase(q)' = Phase(q) /\ Opened(q)' = Opened(q) /\ CompletedNodes(q)' = CompletedNodes(q)
    BY <1>6, <1>7, <1>8 DEF SameView
  <2> QED
    BY <1>8, <1>11, <2>4, <2>5 DEF Durable!Attempt, Tries
<1> QED
  BY <1>12 DEF Durably, Durable!Next

LEMMA BodyStep == ASSUME IInv, NEW c \in Call, BodySucceeds(c) \/ BodyFails(c) PROVE Durably
<1> USE DEF gates, tables, world
<1>1. PICK v \in Verdict : FinishAttempt(c, v) /\ InBody(c)
  <2>1. CASE BodySucceeds(c)
    BY <2>1 DEF BodySucceeds, Verdict
  <2>2. CASE BodyFails(c)
    <3>1. PICK v \in {"CANCELLED", "FAILED"} : FinishAttempt(c, v)
      BY <2>2 DEF BodyFails
    <3> QED
      BY <2>2, <3>1 DEF BodyFails, Verdict
  <2> QED
    BY <2>1, <2>2
<1>2. PICK r \in Run, s \in Step : r = call[c].run /\ s = call[c].step
  BY <1>1, CallFacts DEF InBody, FitOf, Attempting
<1>3. Tried(r, s) /\ s \notin CompletedNodes(r)
  BY <1>1, <1>2, CallFacts DEF InBody, FitOf, Attempting
<1>4. Judged(r, s, v)
  BY <1>1, <1>2 DEF FinishAttempt, Judged
<1>5. /\ Elsewhere(r)
      /\ Len(attempts'[r][s]) = Len(attempts[r][s])
      /\ \A t \in Step \ {s} : attempts'[r][t] = attempts[r][t]
      /\ CompletedNodes(r)' = CompletedNodes(r) \cup (IF v = "SUCCEEDED" THEN {s} ELSE {})
  BY <1>3, <1>4, VerdictRow
<1>6. \A q \in Run \ {r} : SameView(q)
  BY <1>5, ViewKeeps DEF Elsewhere
<1>7. Phase(r) = "live" /\ Phase(r)' = Phase(r) /\ Opened(r)' = Opened(r)
  BY <1>1, <1>2, <1>4, Live DEF InBody, Judged, Phase, Opened
<1>8. CASE v = "SUCCEEDED"
  <2>1. Len(attempts[r][s]) > 0
    BY <1>3 DEF Tried, IInv, TableTypes
  <2>2. Durable!Succeed(r, s)
    BY <1>3, <1>5, <1>6, <1>7, <1>8, <2>1 DEF Durable!Succeed, SameView
  <2> QED
    BY <2>2 DEF Durably, Durable!Next
<1>9. CASE v # "SUCCEEDED"
  <2>1. SameView(r)
    BY <1>5, <1>7, <1>9 DEF SameView
  <2> QED
    BY <1>6, <2>1, Stutter
<1> QED
  BY <1>8, <1>9

LEMMA UsageStep == ASSUME IInv, NEW c \in Call, AddRunUsage(c) PROVE Durably
<1>1. \A q \in Run : SameView(q)
  BY DEF AddRunUsage, SameView, Phase, Opened, CompletedNodes, gates
<1> QED
  BY <1>1, Stutter

LEMMA PauseStep == ASSUME IInv, NEW c \in Call, AwaitRetry(c) \/ Retry(c) PROVE Durably
<1>1. call[c].pc \notin {"idle", "entry", "lapse"}
  BY DEF AwaitRetry, Retry, Holds
<1>2. PICK r \in Run : r = call[c].run /\ state[r] \notin Terminal \cup {"NONE"}
  BY <1>1, CallFacts, Live
<1>3. PICK v \in {"AWAITING_RETRY", "RUNNING"} : state' = [state EXCEPT ![r] = v]
  BY <1>2 DEF AwaitRetry, Retry
<1> QED
  BY <1>2, <1>3, StateStep DEF AwaitRetry, Retry, RunState, Terminal, gates

LEMMA RecoverStep == ASSUME IInv, RecoverInterrupted PROVE Durably
<1>1. ASSUME NEW q \in Run PROVE SameView(q)
  <2>1. Phase(q)' = Phase(q)
    BY DEF RecoverInterrupted, UnfinishedRuns, Phase, Terminal
  <2> QED
    BY <2>1 DEF SameView, Opened, CompletedNodes, RecoverInterrupted, gates
<1> QED
  BY <1>1, Stutter

LEMMA StepsDurably == IInv /\ [Next]_vars => Durably
<1> SUFFICES ASSUME IInv, [Next]_vars PROVE Durably
  OBVIOUS
<1> USE DEF gates, tables, world
<1>1. CASE Request
  BY <1>1, RequestStep
<1>2. ASSUME NEW c \in Call, Proceed(c) PROVE Durably
  BY <1>2, LoopStep, AskStep, AttemptStep, PauseStep DEF Proceed
<1>3. ASSUME NEW c \in Call, Retry(c) PROVE Durably
  BY <1>3, PauseStep
<1>4. ASSUME NEW c \in Call, Body(c) PROVE Durably
  <2>1. CASE Spawn(c) \/ RecordProcess(c) \/ EmitOutput(c)
    BY <2>1, SilentStep DEF Spawn, RecordProcess, EmitOutput
  <2> QED
    BY <1>4, <2>1, UsageStep, BodyStep DEF Body
<1>5. CASE DeleteWorkflow \/ Shutdown \/ Crash \/ Started
  BY <1>5, SilentStep DEF DeleteWorkflow, Shutdown, Crash, Started
<1>6. CASE RecoverInterrupted
  BY <1>6, RecoverStep
<1>7. CASE UNCHANGED vars
  BY <1>7, SilentStep DEF vars
<1> QED
  BY <1>1, <1>2, <1>3, <1>4, <1>5, <1>6, <1>7 DEF Next

\* The steps of a run are attempted in order, none before its gates are open,
\* none twice once it has succeeded, and none when the run is over, through
\* any number of crashes and resumes.
THEOREM RunsAreDurable == ASSUME GatesComeFirst PROVE Spec => ImplementsDurableSteps
<1>1. Init => Durable!Init
  BY StartsDurably
<1>2. IInv /\ [Next]_vars => [Durable!Next]_(Durable!vars)
  BY StepsDurably DEF Durably
<1> QED
  BY <1>1, <1>2, Always, PTL DEF Spec, Durable!Spec, ImplementsDurableSteps

-----------------------------------------------------------------------------
(***************************************************************************)
(* Nobody is forgotten while the process lives, wherever the gates are.    *)
(* This needs only that calls are of the right type, and that a call is    *)
(* for a run exactly while it is somewhere.                                *)
(***************************************************************************)
Seated ==
  /\ state \in [Run -> RunState] /\ spent \in [Run -> Nat]
  /\ approval \in [Run -> [Step -> Answer]] /\ wait \in [Run -> [Step -> Answer]]
  /\ call \in [Call -> CallState] /\ \A c \in Call : call[c].pc = "idle" <=> call[c].run = None
  /\ crashes \in Nat /\ (crashes = 0 => up \in {"up", "closing"})

\* A call is somewhere else, for the same run.
GoesOn(c) ==
  /\ call' \in [Call -> CallState] /\ call'[c].run = call[c].run /\ call'[c].run \in Run
  /\ call'[c].pc # "idle" /\ \A d \in Call \ {c} : call'[d] = call[d]

LEMMA Goes ==
  ASSUME Seated, NEW c \in Call, call[c].pc # "idle",
         NEW f \in CallState, f.run = call[c].run, f.pc # "idle", At(c, f)
  PROVE  GoesOn(c)
BY DEF Seated, GoesOn, At, CallState

LEMMA OwnMove ==
  ASSUME Seated, NEW c \in Call,
         \/ Enter(c) \/ RequestWait(c) \/ RequestApproval(c)
         \/ Advance(c) /\ call[c].pc # "idle"
         \/ StartAttempt(c) \/ NoteUsage(c) \/ AwaitRetry(c) \/ Retry(c)
         \/ AddRunUsage(c) \/ EmitOutput(c) \/ BodySucceeds(c) \/ BodyFails(c)
         \/ Spawn(c) \/ RecordProcess(c)
  PROVE  GoesOn(c)
<1> USE DEF Holds, InBody
<1>1. call[c].pc # "idle"
  BY DEF Enter, RequestWait, RequestApproval, PastWait, AtGate, StartAttempt, NoteUsage, AwaitRetry, Retry,
         AddRunUsage, EmitOutput, BodySucceeds, BodyFails, Spawn, RecordProcess
<1>2. PICK k \in CallState : k = call[c]
  BY DEF Seated
<1>3. k.step + 1 \in Nat /\ k.try + 1 \in Nat /\ k.tokens + 1 \in Nat
  BY DEF CallState
<1>4. CASE Enter(c)
  <2>1. PICK ds, t : ds = CompletedNodes(k.run) /\ t = Seed(k.run)
    OBVIOUS
  <2>2. PICK f : f = [k EXCEPT !.pc = "loop", !.step = 1, !.done = ds, !.tokens = t]
    OBVIOUS
  <2>3. ds \in SUBSET Step /\ t \in Nat
    BY <1>1, <1>2, <2>1 DEF Seated, CallState, CompletedNodes, Seed
  <2>4. f \in CallState /\ f.run = k.run /\ f.pc = "loop"
    BY <2>2, <2>3 DEF CallState, Pc
  <2>5. At(c, f)
    BY <1>2, <1>4, <2>1, <2>2 DEF Enter, At
  <2> QED
    BY <1>1, <1>2, <2>4, <2>5, Goes
<1>5. CASE Advance(c) \/ BodySucceeds(c)
  <2>1. PICK f : f = [k EXCEPT !.pc = "loop", !.step = k.step + 1, !.try = 0]
    OBVIOUS
  <2>2. f \in CallState /\ f.run = k.run /\ f.pc = "loop"
    BY <1>3, <2>1 DEF CallState, Pc
  <2>3. At(c, f)
    BY <1>2, <1>5, <2>1 DEF Advance, BodySucceeds, At
  <2> QED
    BY <1>1, <1>2, <2>2, <2>3, Goes
<1>6. CASE StartAttempt(c)
  <2>1. PICK f : f = [k EXCEPT !.pc = "body", !.try = k.try + 1, !.logged = FALSE, !.deaf = k.aborted]
    OBVIOUS
  <2>2. f \in CallState /\ f.run = k.run /\ f.pc = "body"
    BY <1>3, <2>1 DEF CallState, Pc, Attempting
  <2>3. At(c, f)
    BY <1>2, <1>6, <2>1 DEF StartAttempt, At
  <2> QED
    BY <1>1, <1>2, <2>2, <2>3, Goes
<1>7. CASE NoteUsage(c)
  <2>1. PICK f : f = [k EXCEPT !.pc = "body", !.tokens = k.tokens + 1]
    OBVIOUS
  <2>2. f \in CallState /\ f.run = k.run /\ f.pc = "body"
    BY <1>3, <2>1 DEF CallState, Pc, Attempting
  <2>3. At(c, f)
    BY <1>2, <1>7, <2>1 DEF NoteUsage, At
  <2> QED
    BY <1>1, <1>2, <2>2, <2>3, Goes
<1>8. CASE AwaitRetry(c) \/ Retry(c) \/ AddRunUsage(c) \/ BodyFails(c)
  <2>1. PICK to \in {"backoff", "again", "usage", "cancelled", "retry", "failed"} :
          At(c, [call[c] EXCEPT !.pc = to])
    BY <1>8 DEF AwaitRetry, Retry, AddRunUsage, BodyFails
  <2>2. PICK f : f = [k EXCEPT !.pc = to]
    OBVIOUS
  <2>3. f \in CallState /\ f.run = k.run /\ f.pc # "idle"
    BY <2>2 DEF CallState, Pc, Attempting
  <2>4. At(c, f)
    BY <1>2, <2>1, <2>2
  <2> QED
    BY <1>1, <1>2, <2>3, <2>4, Goes
<1>9. CASE EmitOutput(c)
  <2>1. PICK f : f = [k EXCEPT !.logged = TRUE]
    OBVIOUS
  <2>2. f \in CallState /\ f.run = k.run /\ f.pc # "idle"
    BY <1>1, <1>2, <2>1 DEF CallState
  <2>3. At(c, f)
    BY <1>2, <1>9, <2>1 DEF EmitOutput, At
  <2> QED
    BY <1>1, <1>2, <2>2, <2>3, Goes
<1>10. CASE RequestWait(c) \/ RequestApproval(c) \/ Spawn(c) \/ RecordProcess(c)
  <2>1. call' = call
    BY <1>10 DEF RequestWait, RequestApproval, Spawn, RecordProcess
  <2> QED
    BY <1>1, <2>1 DEF Seated, GoesOn, CallState
<1> QED
  BY <1>4, <1>5, <1>6, <1>7, <1>8, <1>9, <1>10

\* What the tables say of the other runs, and what they may come to say.
OtherRows(r) ==
  /\ state' \in [Run -> RunState] /\ spent' \in [Run -> Nat]
  /\ approval' \in [Run -> [Step -> Answer]] /\ wait' \in [Run -> [Step -> Answer]]
  /\ \A q \in Run \ {r} : state'[q] = state[q] /\ approval'[q] = approval[q] /\ wait'[q] = wait[q]

Calm == crashes' = crashes /\ (up' = up \/ up' = "closing")
Everybody == \A r \in Run : Attended(r)
KeptUp == Seated' /\ crashes' = crashes /\ (Everybody => Everybody')

LEMMA SameAttention ==
  ASSUME NEW q \in Run, Attended(q), Executing(q) => Executing(q)',
         state'[q] = state[q], approval'[q] = approval[q], wait'[q] = wait[q]
  PROVE  Attended(q)'
BY DEF Attended

LEMMA WhileItGoesOn ==
  ASSUME Seated, NEW c \in Call, GoesOn(c), OtherRows(call[c].run), Calm
  PROVE  KeptUp
<1>1. PICK r \in Run : r = call[c].run
  BY DEF GoesOn
<1>2. Seated'
  BY <1>1, SMTT(30) DEF Seated, GoesOn, OtherRows, Calm
<1>3. \A q \in Run : Executing(q) => Executing(q)'
  BY DEF Executing, GoesOn
<1>4. Attended(r)'
  BY <1>1 DEF Attended, Executing, GoesOn
<1>5. ASSUME Everybody, NEW q \in Run \ {r} PROVE Attended(q)'
  BY <1>1, <1>3, <1>5, SameAttention DEF OtherRows, Everybody
<1> QED
  BY <1>2, <1>4, <1>5 DEF Everybody, KeptUp, Calm

LEMMA WhenItReturns ==
  ASSUME Seated, NEW c \in Call, call[c].pc # "idle", Returns(c), OtherRows(call[c].run), Calm,
         \/ state'[call[c].run] \in Terminal
         \/ state'[call[c].run] = "AWAITING_APPROVAL" /\ \E s \in Step : approval'[call[c].run][s] = "PENDING"
         \/ state'[call[c].run] = "AWAITING_EVENT" /\ \E s \in Step : wait'[call[c].run][s] = "PENDING"
  PROVE  KeptUp
<1>1. PICK r \in Run : r = call[c].run
  BY DEF Seated, CallState
<1>2. call' \in [Call -> CallState] /\ call'[c] = Idle /\ \A d \in Call \ {c} : call'[d] = call[d]
  BY IdleState DEF Seated, Returns, At
<1>3. Seated'
  <2>1. \A d \in Call : call'[d].pc = "idle" <=> call'[d].run = None
    BY <1>2, IdleState DEF Seated
  <2>2. crashes' \in Nat /\ (crashes' = 0 => up' \in {"up", "closing"})
    BY DEF Seated, Calm
  <2> QED
    BY <1>1, <1>2, <2>1, <2>2 DEF Seated, OtherRows
<1>4. \A q \in Run \ {r} : Executing(q) => Executing(q)'
  BY <1>1, <1>2 DEF Executing
<1>5. Attended(r)'
  BY <1>1 DEF Attended
<1>6. ASSUME Everybody, NEW q \in Run \ {r} PROVE Attended(q)'
  BY <1>1, <1>4, <1>6, SameAttention DEF OtherRows, Everybody
<1> QED
  BY <1>3, <1>5, <1>6 DEF Everybody, KeptUp, Calm

LEMMA WhenItIsCalled ==
  ASSUME Seated, NEW r \in Run, NEW pc \in {"entry", "lapse"}, Calls(r, pc), OtherRows(r), Calm
  PROVE  KeptUp
<1>1. PICK f : f = [Idle EXCEPT !.run = r, !.pc = pc]
  OBVIOUS
<1>2. f \in CallState /\ f.run = r /\ f.pc = pc
  BY <1>1 DEF Idle, CallState, Pc
<1>3. PICK c \in Call : ~Busy(c) /\ call' = [call EXCEPT ![c] = f]
  BY <1>1 DEF Calls
<1>4. call' \in [Call -> CallState] /\ call'[c] = f /\ \A d \in Call \ {c} : call'[d] = call[d]
  BY <1>2, <1>3 DEF Seated
<1>5. Seated'
  BY <1>2, <1>4, SMTT(30) DEF Seated, OtherRows, Calm
<1>6. \A q \in Run : Executing(q) => Executing(q)'
  BY <1>3, <1>4 DEF Executing, Busy, Seated
<1>7. Attended(r)'
  BY <1>2, <1>4 DEF Attended, Executing
<1>8. ASSUME Everybody, NEW q \in Run \ {r} PROVE Attended(q)'
  BY <1>6, <1>8, SameAttention DEF OtherRows, Everybody
<1> QED
  BY <1>5, <1>7, <1>8 DEF Everybody, KeptUp, Calm

LEMMA WhenNothingMoves ==
  ASSUME Seated, call' \in [Call -> CallState],
         \A c \in Call : call'[c].run = call[c].run /\ call'[c].pc = call[c].pc,
         UNCHANGED <<state, spent, approval, wait>>, Calm
  PROVE  KeptUp
<1>1. Seated'
  BY DEF Seated, Calm
<1>2. \A q \in Run : Executing(q) => Executing(q)'
  BY DEF Executing
<1> QED
  BY <1>1, <1>2, SameAttention DEF Everybody, KeptUp, Calm

\* The writes of a step to the tables.
LEMMA Writes ==
  ASSUME Seated, NEW r \in Run
  PROVE  /\ UNCHANGED <<state, spent, approval, wait>> => OtherRows(r)
         /\ UNCHANGED <<state, approval, wait>> /\ spent' = [spent EXCEPT ![r] = @ + 1] => OtherRows(r)
         /\ \A v \in RunState :
              UNCHANGED <<spent, approval, wait>> /\ state' = [state EXCEPT ![r] = v]
                => OtherRows(r) /\ state'[r] = v
         /\ \A s \in Step, v \in Answer :
              /\ UNCHANGED <<state, spent, wait>> /\ approval' = [approval EXCEPT ![r][s] = v] => OtherRows(r)
              /\ UNCHANGED <<state, spent, approval>> /\ wait' = [wait EXCEPT ![r][s] = v] => OtherRows(r)
<1>1. UNCHANGED <<state, spent, approval, wait>> => OtherRows(r)
  BY DEF Seated, OtherRows
<1>2. UNCHANGED <<state, approval, wait>> /\ spent' = [spent EXCEPT ![r] = @ + 1] => OtherRows(r)
  BY DEF Seated, OtherRows
<1>3. \A v \in RunState : UNCHANGED <<spent, approval, wait>> /\ state' = [state EXCEPT ![r] = v]
                            => OtherRows(r) /\ state'[r] = v
  BY DEF Seated, OtherRows
<1>4. ASSUME NEW s \in Step, NEW v \in Answer
      PROVE  /\ UNCHANGED <<state, spent, wait>> /\ approval' = [approval EXCEPT ![r][s] = v] => OtherRows(r)
             /\ UNCHANGED <<state, spent, approval>> /\ wait' = [wait EXCEPT ![r][s] = v] => OtherRows(r)
  <2>1. ASSUME UNCHANGED <<state, spent, wait>>, approval' = [approval EXCEPT ![r][s] = v] PROVE OtherRows(r)
    <3>1. approval' \in [Run -> [Step -> Answer]] /\ \A q \in Run \ {r} : approval'[q] = approval[q]
      BY <2>1 DEF Seated
    <3> QED
      BY <2>1, <3>1 DEF Seated, OtherRows
  <2>2. ASSUME UNCHANGED <<state, spent, approval>>, wait' = [wait EXCEPT ![r][s] = v] PROVE OtherRows(r)
    <3>1. wait' \in [Run -> [Step -> Answer]] /\ \A q \in Run \ {r} : wait'[q] = wait[q]
      BY <2>2 DEF Seated
    <3> QED
      BY <2>2, <3>1 DEF Seated, OtherRows
  <2> QED
    BY <2>1, <2>2
<1> QED
  BY <1>1, <1>2, <1>3, <1>4

LEMMA RequestAttends == ASSUME Seated, Request PROVE KeptUp
<1> USE DEF gates, tables, world, Answer
<1>1. ASSUME NEW r \in Run, CreateRun(r) PROVE KeptUp
  <2>1. OtherRows(r) /\ Calm
    BY <1>1, Writes DEF CreateRun, RunState, Calm
  <2> QED
    BY <1>1, <2>1, WhenItIsCalled DEF CreateRun
<1>2. ASSUME NEW r \in Run, Resume(r) PROVE KeptUp
  <2>1. OtherRows(r) /\ Calm
    BY <1>2, Writes DEF Resume, Calm
  <2> QED
    BY <1>2, <2>1, WhenItIsCalled DEF Resume
<1>3. ASSUME NEW r \in Run, Cancel(r) PROVE KeptUp
  <2>1. PICK b, c : b = active[r] /\ call' = [call EXCEPT ![b].aborted = TRUE] /\ c = b
    BY <1>3 DEF Cancel
  <2>2. ASSUME NEW d \in Call
        PROVE  call'[d] \in CallState /\ call'[d].run = call[d].run /\ call'[d].pc = call[d].pc
    <3>1. PICK k \in CallState : k = call[d]
      BY DEF Seated
    <3>2. call'[d] = k \/ call'[d] = [k EXCEPT !.aborted = TRUE]
      BY <2>1, <3>1 DEF Seated
    <3> QED
      BY <3>1, <3>2 DEF CallState
  <2>3. call' \in [Call -> CallState]
    BY <2>1, <2>2 DEF Seated
  <2> QED
    BY <1>3, <2>2, <2>3, WhenNothingMoves DEF Cancel, Calm
<1>4. ASSUME NEW r \in Run, NEW s \in Step, NEW v \in {"APPROVED", "REJECTED"}, DecideApproval(r, s, v)
      PROVE  KeptUp
  <2>1. OtherRows(r) /\ Calm
    BY <1>4, Writes DEF DecideApproval, Calm
  <2> QED
    BY <1>4, <2>1, WhenItIsCalled DEF DecideApproval
<1>5. ASSUME NEW r \in Run, NEW s \in Step, DeliverEvent(r, s) \/ ExpireWait(r, s)
      PROVE  KeptUp
  <2>1. OtherRows(r) /\ Calm
    BY <1>5, Writes DEF DeliverEvent, ExpireWait, Calm
  <2> QED
    BY <1>5, <2>1, WhenItIsCalled DEF DeliverEvent, ExpireWait
<1>6. ASSUME NEW r \in Run, NEW s \in Step, ExpireApproval(r, s) PROVE KeptUp
  <2>1. PICK v \in {"APPROVED", "EXPIRED"}, pc \in {"entry", "lapse"} :
          approval' = [approval EXCEPT ![r][s] = v] /\ Calls(r, pc)
    BY <1>6 DEF ExpireApproval
  <2>2. OtherRows(r) /\ Calm
    BY <1>6, <2>1, Writes DEF ExpireApproval, Calm
  <2> QED
    BY <2>1, <2>2, WhenItIsCalled
<1> QED
  BY <1>1, <1>2, <1>3, <1>4, <1>5, <1>6 DEF Request

LEMMA EndsAttends ==
  ASSUME Seated, NEW c \in Call, call[c].pc # "idle", NEW v \in Terminal \cup Suspended, Ends(c, v),
         v = "AWAITING_APPROVAL" => \E s \in Step : approval[call[c].run][s] = "PENDING",
         v = "AWAITING_EVENT" => \E s \in Step : wait[call[c].run][s] = "PENDING"
  PROVE  KeptUp
<1> USE DEF gates, tables, world
<1>1. PICK r \in Run : r = call[c].run
  BY DEF Seated, CallState
<1>2. OtherRows(r) /\ state'[r] = v
  BY <1>1, Writes DEF Ends, RunState, Terminal, Suspended
<1>3. Calm /\ UNCHANGED <<approval, wait>> /\ Returns(c)
  BY DEF Ends, Calm
<1>4. \/ state'[r] \in Terminal
      \/ state'[r] = "AWAITING_APPROVAL" /\ \E s \in Step : approval'[r][s] = "PENDING"
      \/ state'[r] = "AWAITING_EVENT" /\ \E s \in Step : wait'[r][s] = "PENDING"
  BY <1>1, <1>2, <1>3 DEF Terminal, Suspended
<1> QED
  BY <1>1, <1>2, <1>3, <1>4, WhenItReturns

LEMMA ProceedAttends == ASSUME Seated, NEW c \in Call, Proceed(c) \/ Retry(c) PROVE KeptUp
<1> USE DEF gates, tables, world
<1>1. call[c].pc # "idle"
  BY DEF Proceed, Retry, Refuse, Orphaned, Enter, Lapse, AllDone, SeeAbort, Skip, RequestWait, RequestApproval,
         Suspend, DropItem, GateFails, StartAttempt, NoteUsage, Cancelled, StepFails, AwaitRetry, PastWait,
         AtGate, Holds
<1>2. PICK r \in Run : r = call[c].run
  BY <1>1 DEF Seated, CallState
<1>3. CASE Refuse(c)
  BY <1>1, <1>2, <1>3, Writes, WhenItReturns DEF Refuse, Calm
<1>4. CASE Lapse(c)
  <2>1. OtherRows(r) /\ state'[r] = "CANCELLED" /\ Calm
    BY <1>2, <1>4, Writes DEF Lapse, RunState, Terminal, Calm
  <2> QED
    BY <1>1, <1>2, <1>4, <2>1, WhenItReturns DEF Lapse, Terminal
<1>5. CASE Orphaned(c) \/ AllDone(c) \/ SeeAbort(c) \/ GateFails(c) \/ Cancelled(c)
  <2>1. PICK v \in Terminal : Ends(c, v)
    BY <1>5 DEF Orphaned, AllDone, SeeAbort, GateFails, Cancelled, Terminal
  <2> QED
    BY <1>1, <2>1, EndsAttends DEF Terminal
<1>6. CASE Suspend(c)
  <2>1. call[c].step \in Step \/ Ends(c, "AWAITING_EVENT") \/ Ends(c, "AWAITING_APPROVAL")
    BY <1>6 DEF Suspend
  <2>2. CASE AtGate(c) /\ WaitOf(c) = "PENDING" /\ Ends(c, "AWAITING_EVENT")
    <3>1. call[c].step \in Waits /\ wait[call[c].run][call[c].step] = "PENDING"
      BY <2>2 DEF WaitOf
    <3> QED
      BY <1>1, <2>2, <3>1, EndsAttends DEF Suspended
  <2>3. CASE PastWait(c) /\ ApprovalOf(c) = "PENDING" /\ Ends(c, "AWAITING_APPROVAL")
    <3>1. call[c].step \in Gated /\ approval[call[c].run][call[c].step] = "PENDING"
      BY <2>3 DEF ApprovalOf
    <3> QED
      BY <1>1, <2>3, <3>1, EndsAttends DEF Suspended
  <2> QED
    BY <1>6, <2>2, <2>3 DEF Suspend
<1>7. CASE Enter(c) \/ AwaitRetry(c) \/ Retry(c)
  <2>1. PICK v \in {"RUNNING", "AWAITING_RETRY"} : state' = [state EXCEPT ![r] = v]
    BY <1>2, <1>7 DEF Enter, AwaitRetry, Retry
  <2>2. OtherRows(r) /\ Calm
    BY <1>7, <2>1, Writes DEF Enter, AwaitRetry, Retry, RunState, Calm
  <2>3. GoesOn(c)
    <3>1. CASE Enter(c)
      BY <3>1, OwnMove
    <3>2. CASE AwaitRetry(c)
      BY <3>2, OwnMove
    <3>3. CASE Retry(c)
      BY <3>3, OwnMove
    <3> QED
      BY <1>7, <3>1, <3>2, <3>3
  <2> QED
    BY <1>2, <2>2, <2>3, WhileItGoesOn
<1>8. CASE Advance(c)
  <2>1. OtherRows(r) /\ Calm
    BY <1>8, Writes DEF Advance, Calm
  <2> QED
    BY <1>1, <1>2, <1>8, <2>1, OwnMove, WhileItGoesOn
<1>9. CASE Skip(c) \/ DropItem(c)
  BY <1>8, <1>9 DEF Skip, DropItem
<1>10. CASE StepFails(c)
  <2>1. CASE Ends(c, "FAILED")
    BY <1>1, <2>1, EndsAttends DEF Terminal
  <2> QED
    BY <1>8, <1>10, <2>1 DEF StepFails
<1>11. CASE RequestWait(c) \/ RequestApproval(c)
  <2>1. PICK s : s = call[c].step
    OBVIOUS
  <2>2. s \in Step
    BY <1>11, <2>1 DEF RequestWait, RequestApproval, PastWait, AtGate, WaitOf, ApprovalOf
  <2>3. \/ UNCHANGED <<state, spent, wait>> /\ approval' = [approval EXCEPT ![r][s] = "PENDING"]
        \/ UNCHANGED <<state, spent, approval>> /\ wait' = [wait EXCEPT ![r][s] = "PENDING"]
    BY <1>2, <1>11, <2>1 DEF RequestWait, RequestApproval
  <2>4. OtherRows(r) /\ Calm
    BY <1>11, <2>2, <2>3, Writes DEF RequestWait, RequestApproval, Calm, Answer
  <2> QED
    BY <1>2, <1>11, <2>4, OwnMove, WhileItGoesOn
<1>12. CASE StartAttempt(c) \/ NoteUsage(c)
  <2>1. OtherRows(r) /\ Calm
    BY <1>12, Writes DEF StartAttempt, NoteUsage, Calm
  <2> QED
    BY <1>2, <1>12, <2>1, OwnMove, WhileItGoesOn
<1> QED
  BY <1>3, <1>4, <1>5, <1>6, <1>7, <1>9, <1>10, <1>11, <1>12 DEF Proceed

LEMMA BodyAttends == ASSUME Seated, NEW c \in Call, Body(c) PROVE KeptUp
<1> USE DEF gates, tables, world
<1>1. PICK r \in Run : r = call[c].run
  BY DEF Body, Spawn, RecordProcess, AddRunUsage, EmitOutput, BodySucceeds, BodyFails, InBody, Seated, CallState
<1>2. CASE AddRunUsage(c)
  <2>1. OtherRows(r) /\ Calm
    BY <1>1, <1>2, Writes DEF AddRunUsage, Calm
  <2> QED
    BY <1>1, <1>2, <2>1, OwnMove, WhileItGoesOn
<1>3. CASE Spawn(c) \/ RecordProcess(c) \/ EmitOutput(c)
  <2>1. OtherRows(r) /\ Calm
    BY <1>3, Writes DEF Spawn, RecordProcess, EmitOutput, Calm
  <2> QED
    BY <1>1, <1>3, <2>1, OwnMove, WhileItGoesOn
<1>4. CASE BodySucceeds(c) \/ BodyFails(c)
  <2>1. OtherRows(r) /\ Calm
    BY <1>4, Writes DEF BodySucceeds, BodyFails, FinishAttempt, Calm
  <2> QED
    BY <1>1, <1>4, <2>1, OwnMove, WhileItGoesOn
<1> QED
  BY <1>2, <1>3, <1>4 DEF Body

LEMMA ProcessAttends ==
  ASSUME Seated, DeleteWorkflow \/ Shutdown \/ Crash \/ RecoverInterrupted \/ Started \/ UNCHANGED vars
  PROVE  Seated' /\ (crashes' = 0 => crashes = 0 /\ (Everybody => Everybody'))
<1> USE DEF gates, tables, world
<1>1. CASE DeleteWorkflow \/ UNCHANGED vars
  BY <1>1, WhenNothingMoves DEF DeleteWorkflow, vars, Seated, Calm, KeptUp
<1>2. CASE Shutdown
  <2>1. ASSUME NEW c \in Call
        PROVE  call'[c] \in CallState /\ call'[c].run = call[c].run /\ call'[c].pc = call[c].pc
    <3>1. PICK b \in BOOLEAN : b = (call[c].aborted \/ \E r \in Run : active[r] = c)
      OBVIOUS
    <3>2. PICK k \in CallState : k = call[c]
      BY DEF Seated
    <3>3. call'[c] = [k EXCEPT !.aborted = b]
      BY <1>2, <3>1, <3>2 DEF Shutdown
    <3> QED
      BY <3>2, <3>3 DEF CallState
  <2>2. call' \in [Call -> CallState]
    BY <1>2, <2>1 DEF Shutdown
  <2> QED
    BY <1>2, <2>1, <2>2, WhenNothingMoves DEF Shutdown, Calm, KeptUp
<1>3. CASE Crash
  <2>1. /\ UNCHANGED <<state, spent, approval, wait>> /\ crashes' = crashes + 1
        /\ call' \in [Call -> CallState] /\ \A c \in Call : call'[c] = Idle
    BY <1>3, IdleState DEF Crash
  <2> QED
    BY <2>1, IdleState DEF Seated
<1>4. CASE RecoverInterrupted
  <2>1. crashes' # 0 /\ UNCHANGED <<spent, approval, wait, call, crashes>>
    BY <1>4 DEF RecoverInterrupted, Seated
  <2>2. state' \in [Run -> RunState]
    BY <1>4 DEF RecoverInterrupted, Seated, RunState
  <2> QED
    BY <2>1, <2>2 DEF Seated
<1>5. CASE Started
  <2>1. crashes # 0 /\ UNCHANGED <<state, spent, approval, wait, call, crashes>>
    BY <1>5 DEF Started, Seated
  <2> QED
    BY <2>1 DEF Seated
<1> QED
  BY <1>1, <1>2, <1>3, <1>4, <1>5

\* As long as the process lives, every run that is not over is executed by
\* somebody, or is parked at a question that can still be answered: no call
\* drops its run between two writes, and no answer is lost on one.
THEOREM NoRunForgotten == Spec => []NobodyForgotten
<1> DEFINE Kept == Seated /\ NobodyForgotten
<1>1. Init => Kept
  BY IdleState DEF Init, Seated, NobodyForgotten, Attended, RunState, Answer
<1>2. ASSUME Kept, [Next]_vars PROVE Kept'
  <2>1. Seated /\ (crashes = 0 => Everybody)
    BY <1>2 DEF NobodyForgotten, Everybody
  <2>2. Seated' /\ (crashes' = 0 => crashes = 0 /\ (Everybody => Everybody'))
    BY <1>2, RequestAttends, ProceedAttends, BodyAttends, ProcessAttends DEF Next, KeptUp
  <2> QED
    BY <2>1, <2>2 DEF NobodyForgotten, Everybody
<1>3. Kept => NobodyForgotten
  OBVIOUS
<1> HIDE DEF Kept
<1> QED
  BY <1>1, <1>2, <1>3, PTL DEF Spec

-----------------------------------------------------------------------------
(***************************************************************************)
(* Children.  A call that is in an attempt is the only one for its run, so *)
(* that what it has started is known by the run, the step and the attempt. *)
(***************************************************************************)
InAttempt(c) == call[c].pc \in {"body", "usage"}

\* While the process is down, what it had started is recorded, or a crash
\* prevented that; start-up has then killed all that was recorded.
Family ==
  IF up = "down" THEN child \subseteq process \cup unrecorded
  ELSE \A p \in child \ unrecorded : \E c \in Call : InAttempt(c) /\ Pid(c) = p

LEMMA FamilyKeeps ==
  ASSUME Family, up # "down", up' # "down", child' \subseteq child, unrecorded' = unrecorded,
         \A d \in Call : InAttempt(d) /\ Pid(d) \in child' => InAttempt(d)' /\ Pid(d)' = Pid(d)
  PROVE  Family'
<1> SUFFICES ASSUME NEW p \in child' \ unrecorded' PROVE \E c \in Call : InAttempt(c)' /\ Pid(c)' = p
  BY DEF Family
<1>1. PICK d \in Call : InAttempt(d) /\ Pid(d) = p
  BY DEF Family
<1> QED
  BY <1>1

\* A call that is in no attempt, or is none, moves.
LEMMA OutsideKeeps ==
  ASSUME IInv, Family, up # "down", up' # "down", NEW c \in Call, ~InAttempt(c), NEW f,
         call' = [call EXCEPT ![c] = f], UNCHANGED <<attempts, child, unrecorded>>
  PROVE  Family'
<1>1. ASSUME NEW d \in Call, InAttempt(d) PROVE InAttempt(d)' /\ Pid(d)' = Pid(d)
  <2>1. call'[d] = call[d]
    BY <1>1 DEF IInv, CallTypes
  <2> QED
    BY <1>1, <2>1 DEF InAttempt, Pid
<1> QED
  BY <1>1, FamilyKeeps

\* A call in an attempt stays in it.
LEMMA InsideKeeps ==
  ASSUME IInv, Family, up # "down", up' # "down", NEW c \in Call, NEW f,
         call' = [call EXCEPT ![c] = f],
         f.run = call[c].run, f.step = call[c].step, f.pc \in {"body", "usage"},
         UNCHANGED <<attempts, unrecorded>>, child' \subseteq child
  PROVE  Family'
<1>1. call'[c] = f /\ \A d \in Call \ {c} : call'[d] = call[d]
  BY DEF IInv, CallTypes
<1>2. ASSUME NEW d \in Call, InAttempt(d) PROVE InAttempt(d)' /\ Pid(d)' = Pid(d)
  <2>1. call'[d].run = call[d].run /\ call'[d].step = call[d].step /\ call'[d].pc \in {"body", "usage"}
    BY <1>1, <1>2 DEF InAttempt
  <2> QED
    BY <2>1 DEF InAttempt, Pid
<1> QED
  BY <1>2, FamilyKeeps

\* An attempt of another run is not touched.
LEMMA OthersKeep ==
  ASSUME IInv, NEW c \in Call, call[c].pc # "idle", NEW r \in Run, r = call[c].run,
         \A q \in Run \ {r} : attempts'[q] = attempts[q], NEW f, call' = [call EXCEPT ![c] = f],
         NEW d \in Call \ {c}, InAttempt(d)
  PROVE  InAttempt(d)' /\ Pid(d)' = Pid(d)
<1>1. call[d].pc # "idle" /\ call'[d] = call[d]
  BY DEF InAttempt, IInv, CallTypes
<1>2. call[d].run \in Run \ {r}
  BY <1>1, CallFacts DEF IInv, Alone
<1> QED
  BY <1>1, <1>2 DEF InAttempt, Pid

LEMMA RequestFamily == ASSUME IInv, Family, Request PROVE Family'
<1> USE DEF gates, tables, world
<1>1. ASSUME NEW r \in Run, Cancel(r) PROVE Family'
  <2>1. PICK b : call' = [call EXCEPT ![b].aborted = TRUE]
    BY <1>1 DEF Cancel
  <2>2. ASSUME NEW d \in Call
        PROVE  call'[d].run = call[d].run /\ call'[d].step = call[d].step /\ call'[d].pc = call[d].pc
    <3>1. PICK k \in CallState : k = call[d]
      BY DEF IInv, CallTypes
    <3>2. call'[d] = k \/ call'[d] = [k EXCEPT !.aborted = TRUE]
      BY <2>1, <3>1 DEF IInv, CallTypes
    <3> QED
      BY <3>1, <3>2 DEF CallState
  <2>3. \A d \in Call : InAttempt(d) => InAttempt(d)' /\ Pid(d)' = Pid(d)
    BY <1>1, <2>2 DEF Cancel, InAttempt, Pid
  <2> QED
    BY <1>1, <2>3, FamilyKeeps DEF Cancel
<1>2. ASSUME NEW r \in Run, NEW pc, Calls(r, pc), up # "down", up' = up, UNCHANGED <<attempts, child, unrecorded>>
      PROVE  Family'
  <2>1. PICK c \in Call : ~Busy(c) /\ call' = [call EXCEPT ![c] = [Idle EXCEPT !.run = r, !.pc = pc]]
    BY <1>2 DEF Calls
  <2>2. ~InAttempt(c)
    BY <2>1 DEF InAttempt, Busy
  <2> QED
    BY <1>2, <2>1, <2>2, OutsideKeeps
<1>3. ASSUME NEW r \in Run, NEW s \in Step, ExpireApproval(r, s) PROVE Family'
  <2>1. Calls(r, "entry") \/ Calls(r, "lapse")
    BY <1>3 DEF ExpireApproval
  <2> QED
    BY <1>2, <1>3, <2>1 DEF ExpireApproval, Quiet
<1>4. ASSUME NEW r \in Run, CreateRun(r) \/ Resume(r) PROVE Family'
  BY <1>2, <1>4 DEF CreateRun, Resume
<1>5. ASSUME NEW r \in Run, NEW s \in Step, NEW v, DecideApproval(r, s, v) PROVE Family'
  BY <1>2, <1>5 DEF DecideApproval
<1>6. ASSUME NEW r \in Run, NEW s \in Step, DeliverEvent(r, s) \/ ExpireWait(r, s) PROVE Family'
  BY <1>2, <1>6 DEF DeliverEvent, ExpireWait
<1> QED
  BY <1>1, <1>3, <1>4, <1>5, <1>6 DEF Request

LEMMA LoopFamily ==
  ASSUME IInv, Family, NEW c \in Call, Proceed(c) \/ Retry(c), ~StartAttempt(c), ~NoteUsage(c)
  PROVE  Family'
<1> USE DEF gates, tables, world
<1>1. call[c].pc # "idle" /\ ~InAttempt(c)
  BY DEF Proceed, Retry, Refuse, Orphaned, Enter, Lapse, AllDone, SeeAbort, Skip, RequestWait, RequestApproval,
         Suspend, DropItem, GateFails, Cancelled, StepFails, AwaitRetry, PastWait, AtGate, Holds, InAttempt
<1>2. up # "down"
  BY <1>1, CallFacts
<1>3. ASSUME NEW v, Ends(c, v) PROVE Family'
  BY <1>1, <1>2, <1>3, OutsideKeeps DEF Ends, Returns, At
<1>4. CASE Advance(c)
  BY <1>1, <1>2, <1>4, OutsideKeeps DEF Advance, At
<1>5. CASE Refuse(c) \/ Lapse(c)
  BY <1>1, <1>2, <1>5, OutsideKeeps DEF Refuse, Lapse, Returns, At
<1>6. CASE Enter(c) \/ AwaitRetry(c) \/ Retry(c)
  <2>1. PICK f : At(c, f)
    BY <1>6 DEF Enter, AwaitRetry, Retry
  <2>2. UNCHANGED <<attempts, child, unrecorded, up>>
    BY <1>6 DEF Enter, AwaitRetry, Retry
  <2> QED
    BY <1>1, <1>2, <2>1, <2>2, OutsideKeeps DEF At
<1>7. CASE RequestWait(c) \/ RequestApproval(c)
  BY <1>2, <1>7, FamilyKeeps DEF RequestWait, RequestApproval, InAttempt, Pid
<1> QED
  BY <1>3, <1>4, <1>5, <1>6, <1>7 DEF Proceed, Orphaned, AllDone, SeeAbort, Skip, Suspend, DropItem, GateFails,
                                      Cancelled, StepFails

LEMMA AttemptFamily == ASSUME IInv, Family, NEW c \in Call, StartAttempt(c) PROVE Family'
<1> USE DEF gates, tables, world
<1>1. call[c].pc \in {"loop", "again"}
  BY DEF StartAttempt, PastWait, AtGate, Holds
<1>2. PICK r \in Run : r = call[c].run
  BY <1>1, CallFacts
<1>3. \A q \in Run \ {r} : attempts'[q] = attempts[q]
  BY <1>2 DEF StartAttempt, IInv, TableTypes
<1>4. PICK f : call' = [call EXCEPT ![c] = f]
  BY DEF StartAttempt, At
<1>5. up # "down" /\ up' = up /\ child' = child /\ unrecorded' = unrecorded
  BY <1>1, CallFacts DEF StartAttempt
<1>6. ASSUME NEW d \in Call, InAttempt(d) PROVE InAttempt(d)' /\ Pid(d)' = Pid(d)
  BY <1>1, <1>2, <1>3, <1>4, <1>6, OthersKeep DEF InAttempt
<1> QED
  BY <1>5, <1>6, FamilyKeeps

LEMMA VerdictFamily == ASSUME IInv, Family, NEW c \in Call, BodySucceeds(c) \/ BodyFails(c) PROVE Family'
<1> USE DEF gates, tables, world
<1>1. PICK v : FinishAttempt(c, v) /\ InBody(c)
  BY DEF BodySucceeds, BodyFails
<1>2. PICK r \in Run : r = call[c].run /\ up # "down" /\ call[c].pc = "body"
  BY <1>1, CallFacts DEF InBody
<1>3. \A q \in Run \ {r} : attempts'[q] = attempts[q]
  BY <1>1, <1>2 DEF FinishAttempt, IInv, TableTypes
<1>4. PICK f : call' = [call EXCEPT ![c] = f]
  BY DEF BodySucceeds, BodyFails, At
<1>5. up' = up /\ child' = child \ {Pid(c)} /\ unrecorded' = unrecorded
  BY <1>1 DEF FinishAttempt
<1>6. ASSUME NEW d \in Call, InAttempt(d), Pid(d) \in child' PROVE InAttempt(d)' /\ Pid(d)' = Pid(d)
  <2>1. d # c
    BY <1>5, <1>6
  <2> QED
    BY <1>2, <1>3, <1>4, <1>6, <2>1, OthersKeep
<1> QED
  BY <1>2, <1>5, <1>6, FamilyKeeps

LEMMA InsideFamily ==
  ASSUME IInv, Family, NEW c \in Call,
         Spawn(c) \/ RecordProcess(c) \/ AddRunUsage(c) \/ EmitOutput(c) \/ NoteUsage(c)
  PROVE  Family'
<1> USE DEF gates, tables, world
<1>1. InAttempt(c) /\ call[c].pc # "idle"
  BY DEF Spawn, RecordProcess, AddRunUsage, EmitOutput, NoteUsage, InBody, Holds, InAttempt
<1>2. PICK k \in CallState : k = call[c] /\ up # "down"
  BY <1>1, CallFacts
<1>3. CASE Spawn(c)
  <2>1. up' = up /\ unrecorded' = unrecorded /\ child' = child \cup {Pid(c)}
    BY <1>3 DEF Spawn
  <2>2. \A d \in Call : InAttempt(d) => InAttempt(d)' /\ Pid(d)' = Pid(d)
    BY <1>3 DEF Spawn, InAttempt, Pid
  <2>3. ASSUME NEW p \in child' \ unrecorded' PROVE \E d \in Call : InAttempt(d)' /\ Pid(d)' = p
    <3>1. PICK d \in Call : InAttempt(d) /\ Pid(d) = p
      BY <1>1, <1>2, <2>1, <2>3 DEF Family
    <3> QED
      BY <2>2, <3>1
  <2> QED
    BY <1>2, <2>1, <2>3 DEF Family
<1>4. CASE RecordProcess(c)
  BY <1>2, <1>4, FamilyKeeps DEF RecordProcess, InAttempt, Pid
<1>5. CASE AddRunUsage(c) \/ NoteUsage(c) \/ EmitOutput(c)
  <2>1. PICK f : /\ call' = [call EXCEPT ![c] = f]
                 /\ \/ f = [k EXCEPT !.pc = "usage"]
                    \/ f = [k EXCEPT !.pc = "body", !.tokens = @ + 1]
                    \/ f = [k EXCEPT !.logged = TRUE]
    <3>1. CASE AddRunUsage(c)
      BY <1>2, <3>1 DEF AddRunUsage, At
    <3>2. CASE NoteUsage(c)
      BY <1>2, <3>2 DEF NoteUsage, At
    <3>3. CASE EmitOutput(c)
      BY <1>2, <3>3 DEF EmitOutput, At
    <3> QED
      BY <1>5, <3>1, <3>2, <3>3
  <2>2. f.run = k.run /\ f.step = k.step /\ f.pc \in {"body", "usage"}
    BY <1>1, <1>2, <2>1 DEF CallState, InAttempt
  <2>3. UNCHANGED <<attempts, unrecorded, up>> /\ child' \subseteq child
    BY <1>5 DEF AddRunUsage, NoteUsage, EmitOutput
  <2> QED
    BY <1>2, <2>1, <2>2, <2>3, InsideKeeps
<1> QED
  BY <1>3, <1>4, <1>5

LEMMA ProcessFamily ==
  ASSUME IInv, Family, DeleteWorkflow \/ Shutdown \/ Crash \/ RecoverInterrupted \/ Started \/ UNCHANGED vars
  PROVE  Family'
<1> USE DEF gates, tables, world
<1>1. CASE DeleteWorkflow \/ Started
  BY <1>1, FamilyKeeps DEF DeleteWorkflow, Started, InAttempt, Pid
<1>2. CASE UNCHANGED vars
  BY <1>2 DEF vars, Family, InAttempt, Pid
<1>3. CASE Shutdown
  <2>1. ASSUME NEW d \in Call
        PROVE  call'[d].run = call[d].run /\ call'[d].step = call[d].step /\ call'[d].pc = call[d].pc
    <3>1. PICK b \in BOOLEAN : b = (call[d].aborted \/ \E r \in Run : active[r] = d)
      OBVIOUS
    <3>2. PICK k \in CallState : k = call[d]
      BY DEF IInv, CallTypes
    <3>3. call'[d] = [k EXCEPT !.aborted = b]
      BY <1>3, <3>1, <3>2 DEF Shutdown
    <3> QED
      BY <3>2, <3>3 DEF CallState
  <2>2. \A d \in Call : InAttempt(d) => InAttempt(d)' /\ Pid(d)' = Pid(d)
    BY <1>3, <2>1 DEF Shutdown, InAttempt, Pid
  <2> QED
    BY <1>3, <2>2, FamilyKeeps DEF Shutdown
<1>4. CASE Crash
  BY <1>4 DEF Crash, Family
<1>5. CASE RecoverInterrupted
  BY <1>5 DEF RecoverInterrupted, Reaped, Family
<1> QED
  BY <1>1, <1>2, <1>3, <1>4, <1>5

\* No child outlives the attempt that started it, through shutdowns, crashes
\* and restarts, but one whose record a crash has prevented.
THEOREM NoOrphans == ASSUME GatesComeFirst PROVE Spec => []ChildrenAreOwned
<1>1. Init => Family
  BY DEF Init, Family
<1>2. IInv /\ Family /\ [Next]_vars => Family'
  <2> SUFFICES ASSUME IInv, Family, [Next]_vars PROVE Family'
    OBVIOUS
  <2>1. ASSUME NEW c \in Call, Proceed(c) \/ Retry(c) PROVE Family'
    BY <2>1, LoopFamily, AttemptFamily, InsideFamily
  <2>2. ASSUME NEW c \in Call, Body(c) PROVE Family'
    BY <2>2, InsideFamily, VerdictFamily DEF Body
  <2> QED
    BY <2>1, <2>2, RequestFamily, ProcessFamily DEF Next
<1>3. Family => ChildrenAreOwned
  BY DEF Family, ChildrenAreOwned, InAttempt
<1> QED
  BY <1>1, <1>2, <1>3, Always, PTL DEF Spec
=============================================================================
