------------------------- MODULE TaskJournalProofs -------------------------
(***************************************************************************)
(* Proofs about the task journal, for every number of tasks, attempts,     *)
(* crashes and faults: its types; that work which began is never offered   *)
(* for a second run; that it is found again while it is unsettled; and     *)
(* that the host is told of it once.                                       *)
(*                                                                         *)
(* The argument: a body is called after its Started was acknowledged.  If  *)
(* that line is readable, it lies in the synced part of the file and after *)
(* every line that submits the task, so every file a crash can leave has   *)
(* it there too.  Its submission is behind no line but starts, because a   *)
(* task in progress has sent no other.  What was told is gone from the     *)
(* file when the next life begins, unless the file could not be moved.     *)
(***************************************************************************)
EXTENDS TaskJournal, SequenceTheorems, TLAPS

\* The task's Started outlives any crash, and follows its submission.
Covered(t) ==
  \A i \in DOMAIN disk : disk[i] = Line("Submitted", t) =>
    \E j \in Whole(disk) : j > i /\ j <= synced /\ disk[j] = Line("Started", t)

NotComing(t) == \A k \in DOMAIN inbox : inbox[k] # Line("Submitted", t)

Recorded ==
  \A t \in Task \ unlogged : t \in begun \/ state[t] = "Logged" => Covered(t) /\ NotComing(t)

\* A Started in the channel belongs to the worker that waits for it, and
\* nothing behind it starts or submits the same task.
Ordered ==
  /\ \A k \in DOMAIN inbox :
       /\ inbox[k].event = "Started" => inbox[k].task \in Task /\ state[inbox[k].task] = "Logging"
       /\ inbox[k].event = "Submitted" => inbox[k].task \in Task /\ state[inbox[k].task] # "Absent"
  /\ \A k, m \in DOMAIN inbox :
       k < m /\ inbox[k].event = "Started" /\ inbox[m].event \in {"Started", "Submitted"} =>
         inbox[m].task # inbox[k].task

\* What is left of earlier lives is never live again.
Past ==
  /\ \A t \in begun : state[t] # "Absent"
  /\ \A i \in DOMAIN disk : disk[i].event = "Submitted" =>
       disk[i].task \in Task /\ state[disk[i].task] # "Absent"
  /\ \A t \in plan.resumable : state[t] \in {"Settled", "Gone"}
  /\ life = "down" => inbox = <<>> /\ \A t \in Task : state[t] \in {"Absent", "Settled", "Gone"}

PlanIsSafe == \A t \in begun \ unlogged : t \notin plan.resumable

JournalInv == Recorded /\ Ordered /\ Past /\ PlanIsSafe

-----------------------------------------------------------------------------
Message == [event : Event, task : Task \cup {NoTask}]
Stored == [event : Event \cup {"Fragment", "SplitChar"}, task : Task \cup {NoTask}]

\* What a crash leaves: what was synced, a prefix of the rest, and at most
\* one line that was cut short.
LEMMA ImageShape ==
  ASSUME TypeOK, NEW d \in Images
  PROVE  /\ d \in Seq(Stored)
         /\ \E n \in synced .. Len(disk) :
              /\ n <= Len(d)
              /\ \A i \in 1 .. n : d[i] = disk[i]
              /\ \A i \in DOMAIN d : i > n => d[i].event \notin Event
<1> DEFINE Shape(e, n) == /\ e \in Seq(Stored) /\ n <= Len(e)
                          /\ \A i \in 1 .. n : e[i] = disk[i]
                          /\ \A i \in DOMAIN e : i > n => e[i].event \notin Event
<1>1. disk \in Seq(Stored) /\ synced \in 0 .. Len(disk)
  BY DEF TypeOK, Stored
<1>2. \A n \in synced .. Len(disk) : /\ SubSeq(disk, 1, n) \in Seq(Stored) /\ Len(SubSeq(disk, 1, n)) = n
                                     /\ \A i \in 1 .. n : SubSeq(disk, 1, n)[i] = disk[i]
  BY <1>1
<1>3. ASSUME NEW k \in Tears PROVE Torn(k) \in Stored /\ Torn(k).event \notin Event
  BY <1>3, JournalAssumption DEF Torn, Stored, Event
<1>4. ASSUME NEW e \in Kept PROVE \E n \in synced .. Len(disk) : Shape(e, n) /\ n = Len(e)
  BY <1>2, <1>4 DEF Kept
<1>5. ASSUME NEW e \in Kept, NEW k \in Tears
      PROVE  \E n \in synced .. Len(disk) : Shape(Append(e, Torn(k)), n)
  <2>1. PICK n \in synced .. Len(disk) : Shape(e, n) /\ n = Len(e)
    BY <1>4
  <2>2. /\ Append(e, Torn(k)) \in Seq(Stored) /\ Len(Append(e, Torn(k))) = n + 1
        /\ \A i \in 1 .. n : Append(e, Torn(k))[i] = e[i]
        /\ Append(e, Torn(k))[n + 1] = Torn(k)
    BY <2>1, <1>3
  <2>3. n \in Nat
    BY <1>1
  <2> QED
    BY <2>1, <2>2, <2>3, <1>3
<1>6. d \in Kept \/ \E e \in Kept, k \in Tears : d = Append(e, Torn(k))
  BY DEF Images
<1>7. \E n \in synced .. Len(disk) : Shape(d, n)
  <2>1. CASE d \in Kept
    BY <2>1, <1>4
  <2>2. CASE \E e \in Kept, k \in Tears : d = Append(e, Torn(k))
    <3>1. PICK e \in Kept, k \in Tears : d = Append(e, Torn(k))
      BY <2>2
    <3> HIDE DEF Shape
    <3> QED
      BY <3>1, <1>5
  <2> QED
    BY <2>1, <2>2, <1>6
<1> QED
  BY <1>7

\* The state always has its type.
THEOREM TypeCorrect == Spec => []TypeOK
<1>1. Init => TypeOK
  <2> SUFFICES ASSUME Init PROVE TypeOK
    OBVIOUS
  <2>1. mishaps \in 0 .. MaxMishaps /\ attempt \in [Task -> 0 .. MaxAttempts]
    BY JournalAssumption DEF Init
  <2>2. /\ disk \in Seq(Stored) /\ inbox \in Seq(Message) /\ synced \in 0 .. Len(disk)
    BY DEF Init
  <2> QED
    BY <2>1, <2>2 DEF Init, TypeOK, NoPlan, Stored, Message
<1>2. TypeOK /\ [Next]_vars => TypeOK'
  <2> SUFFICES ASSUME TypeOK, [Next]_vars PROVE TypeOK'
    OBVIOUS
  <2> USE DEF TypeOK, history, fileVars
  <2>0. inbox \in Seq(Message) /\ disk \in Seq(Stored)
    BY DEF Message, Stored
  <2>1. ASSUME NEW t \in Task, Submit(t) \/ LogStart(t) \/ Settle(t) PROVE TypeOK'
    <3>1. \A e \in Event : Line(e, t) \in Message
      BY DEF Line, Message
    <3>2. \E e \in Event : inbox' = Append(inbox, Line(e, t))
      BY <2>1 DEF Submit, LogStart, Settle, Send, Event
    <3>3. inbox' \in Seq(Message)
      BY <2>0, <3>1, <3>2
    <3> QED
      BY <2>1, <3>3 DEF Submit, LogStart, Settle, driverFrame, Message
  <2>2. ASSUME NEW t \in Task, Spawn(t) \/ Retry(t) PROVE TypeOK'
    <3>1. attempt' \in [Task -> 0 .. MaxAttempts]
      <4>1. MaxAttempts \in Nat /\ attempt \in [Task -> 0 .. MaxAttempts]
        BY JournalAssumption
      <4>2. CASE Spawn(t)
        <5>1. attempt[t] + 1 \in 0 .. MaxAttempts
          BY <4>1, <4>2 DEF Spawn
        <5> QED
          BY <4>1, <4>2, <5>1 DEF Spawn
      <4>3. CASE Retry(t)
        BY <4>3 DEF Retry
      <4> QED
        BY <2>2, <4>2, <4>3
    <3> QED
      BY <2>2, <3>1 DEF Spawn, Retry, driverFrame
  <2>3. ASSUME NEW t \in Task, Begin(t) PROVE TypeOK'
    BY <2>3 DEF Begin
  <2>4. CASE Shutdown
    BY <2>4 DEF Shutdown
  <2>5. CASE Close
    <3>0. Line("ShutDown", NoTask) \in Message
      BY DEF Line, Message, Event
    <3>1. inbox' \in Seq(Message)
      BY <2>0, <2>5, <3>0 DEF Close, Send
    <3> QED
      BY <2>5, <3>1 DEF Close, Message
  <2>6. ASSUME Writer PROVE TypeOK'
    <3>1. inbox # <<>> /\ inbox' = Tail(inbox)
      BY <2>6 DEF Writer, Write, WriteFails, Discard
    <3>2. Head(inbox) \in Message /\ inbox' \in Seq(Message)
      BY <2>0, <3>1, HeadTailProperties
    <3>3. state' \in [Task -> {"Absent", "Queued", "Spawned", "Logging", "Logged", "Running",
                               "Settled", "Gone"}]
      BY <2>6 DEF Writer, Write, WriteFails, Discard, Acknowledge
    <3>4. unlogged' \subseteq Task
      BY <2>6 DEF Writer, Write, WriteFails, Discard
    <3>5. disk' \in Seq(Stored) /\ synced' \in 0 .. Len(disk')
      <4>2. CASE Write
        <5>1. Head(inbox) \in Stored
          BY <3>2 DEF Message, Stored
        <5> QED
          BY <2>0, <3>1, <4>2, <5>1, AppendProperties DEF Write
      <4>3. CASE WriteFails
        <5>1. \A k \in Tears : Torn(k) \in Stored
          BY JournalAssumption DEF Torn, Stored
        <5>2. disk' \in Seq(Stored) /\ synced' \in 0 .. Len(disk')
          <6>1. CASE disk' = disk
            BY <2>0, <4>3, <6>1 DEF WriteFails
          <6>2. ASSUME NEW k \in Tears, disk' = Append(disk, Torn(k)) PROVE disk' \in Seq(Stored) /\ Len(disk') = Len(disk) + 1
            BY <2>0, <5>1, <6>2, AppendProperties
          <6>3. synced' = synced /\ synced \in 0 .. Len(disk) /\ Len(disk) \in Nat
            BY <2>0, <4>3 DEF WriteFails
          <6> QED
            BY <4>3, <6>1, <6>2, <6>3 DEF WriteFails
        <5> QED
          BY <5>2
      <4>4. CASE Discard
        BY <2>0, <4>4 DEF Discard
      <4> QED
        BY <2>6, <4>2, <4>3, <4>4 DEF Writer
    <3>6. mishaps' \in 0 .. MaxMishaps
      BY <2>6, JournalAssumption DEF Writer, Write, WriteFails, Discard, Mishap
    <3> QED
      BY <2>6, <3>2, <3>3, <3>4, <3>5, <3>6
      DEF Writer, Write, WriteFails, Discard, writerFrame, Message, Stored
  <2>7. CASE Crash
    <3>1. disk' \in Seq(Stored) /\ synced' = Len(disk')
      <4>1. PICK d \in (IF logging THEN Images ELSE {disk}) : disk' = d /\ synced' = Len(d)
        BY <2>7 DEF Crash
      <4> QED
        BY <4>1, ImageShape DEF Stored
    <3>2. mishaps' \in 0 .. MaxMishaps
      BY <2>7, JournalAssumption DEF Crash, Mishap
    <3>3. inbox' \in Seq([event : Event, task : Task \cup {NoTask}])
      BY <2>7 DEF Crash
    <3> QED
      BY <2>7, <3>1, <3>2, <3>3 DEF Crash, NoPlan, Stored
  <2>8. CASE Restart
    <3>1. plan' \in [resumable : SUBSET Task, interrupted : SUBSET Task]
      BY <2>8 DEF Restart, Replay, NoPlan, Resumable, Interrupted
    <3>2. disk' \in Seq(Stored) /\ synced' \in 0 .. Len(disk')
      <4>1. <<>> \in Seq(Stored) /\ Len(<<>>) = 0
        OBVIOUS
      <4>2. CASE disk' = <<>> /\ synced' = 0
        BY <4>1, <4>2
      <4>3. CASE UNCHANGED fileVars
        BY <2>0, <4>3
      <4> QED
        BY <2>8, <4>2, <4>3 DEF Restart, Rotate
    <3>3. mishaps' \in 0 .. MaxMishaps
      BY <2>8, JournalAssumption DEF Restart, Rotate, Mishap
    <3>4. keptOld' \in BOOLEAN
      BY <2>8 DEF Restart, Rotate
    <3>5. logging' \in BOOLEAN
      BY <2>8, Zenon DEF Restart
    <3> QED
      BY <2>8, <3>1, <3>2, <3>3, <3>4, <3>5 DEF Restart, Stored
  <2>9. CASE Handshake
    BY <2>9 DEF Handshake
  <2>10. CASE UNCHANGED vars
    BY <2>10 DEF vars
  <2> QED
    BY <2>1, <2>2, <2>3, <2>4, <2>5, <2>6, <2>7, <2>8, <2>9, <2>10 DEF Next, Driver, Worker
<1> QED
  BY <1>1, <1>2, PTL DEF Spec

-----------------------------------------------------------------------------
LEMMA StoredFacts ==
  ASSUME TypeOK
  PROVE  /\ disk \in Seq(Stored) /\ inbox \in Seq(Message)
         /\ Len(disk) \in Nat /\ Len(inbox) \in Nat
         /\ DOMAIN disk = 1 .. Len(disk) /\ DOMAIN inbox = 1 .. Len(inbox)
         /\ synced \in 0 .. Len(disk)
BY DEF TypeOK, Stored, Message

\* A covered task is not resumable from anything a crash leaves, and is
\* still covered there.
LEMMA CoveredInImage ==
  ASSUME TypeOK, NEW d \in Images \cup {disk}, NEW t \in Task, Covered(t)
  PROVE  /\ t \notin Replay(d).resumable
         /\ disk' = d /\ synced' = Len(d) => Covered(t)'
<1>1. /\ d \in Seq(Stored)
      /\ \E n \in synced .. Len(disk) :
           /\ n <= Len(d)
           /\ \A i \in 1 .. n : d[i] = disk[i]
           /\ \A i \in DOMAIN d : i > n => d[i].event \notin Event
  <2>1. CASE d \in Images
    BY <2>1, ImageShape
  <2>2. CASE d = disk
    BY <2>2, StoredFacts
  <2> QED
    BY <2>1, <2>2
<1>2. PICK n \in synced .. Len(disk) :
        /\ n <= Len(d)
        /\ \A i \in 1 .. n : d[i] = disk[i]
        /\ \A i \in DOMAIN d : i > n => d[i].event \notin Event
  BY <1>1
<1>3. /\ DOMAIN d = 1 .. Len(d) /\ Len(d) \in Nat /\ n \in Nat
      /\ DOMAIN disk = 1 .. Len(disk) /\ Len(disk) \in Nat /\ synced \in Nat /\ synced <= n
  BY <1>1, <1>2, StoredFacts
<1>4. ASSUME NEW i \in DOMAIN d, d[i] = Line("Submitted", t)
      PROVE  \E j \in Whole(d) : j > i /\ j <= n /\ d[j] = Line("Started", t)
  <2>1. i <= n
    BY <1>2, <1>3, <1>4 DEF Line, Event
  <2>2. i \in DOMAIN disk /\ disk[i] = Line("Submitted", t)
    BY <1>2, <1>3, <1>4, <2>1
  <2>3. PICK j \in Whole(disk) : j > i /\ j <= synced /\ disk[j] = Line("Started", t)
    BY <2>2 DEF Covered
  <2>4. j \in 1 .. n /\ j - 1 \in 1 .. n
    BY <1>3, <2>3 DEF Whole
  <2>5. d[j] = disk[j] /\ d[j - 1] = disk[j - 1]
    BY <1>2, <2>4
  <2>6. disk[j].event \in Event /\ disk[j - 1].event \in Event
    BY <1>3, <2>3, <2>4 DEF Whole
  <2>7. j \in DOMAIN d
    BY <1>2, <1>3, <2>4
  <2>8. j \in Whole(d)
    BY <2>5, <2>6, <2>7 DEF Whole
  <2>9. j <= n
    BY <1>3, <2>4
  <2> QED
    BY <2>3, <2>5, <2>8, <2>9
<1>5. t \notin Resumable(d)
  <2> SUFFICES ASSUME NEW i \in Whole(d), d[i] = Line("Submitted", t) PROVE About(d, t, i) # {}
    BY DEF Resumable
  <2>1. PICK j \in Whole(d) : j > i /\ d[j] = Line("Started", t)
    BY <1>4 DEF Whole
  <2> QED
    BY <2>1 DEF About, Line
<1>6. t \notin Replay(d).resumable
  BY <1>5 DEF Replay, NoPlan
<1>7. ASSUME disk' = d, synced' = Len(d) PROVE Covered(t)'
  <2> SUFFICES ASSUME NEW i \in DOMAIN d, d[i] = Line("Submitted", t)
               PROVE  \E j \in Whole(d) : j > i /\ j <= Len(d) /\ d[j] = Line("Started", t)
    BY <1>7 DEF Covered, Whole, Line
  <2> QED
    BY <1>2, <1>3, <1>4 DEF Whole
<1> QED
  BY <1>6, <1>7

\* Appending a line that does not submit the task leaves it covered.
LEMMA CoveredAppend ==
  ASSUME TypeOK, NEW t \in Task, Covered(t), NEW x \in Stored, x # Line("Submitted", t),
         disk' = Append(disk, x), synced' \in Nat, synced' >= synced
  PROVE  Covered(t)'
<1>1. /\ DOMAIN disk' = 1 .. (Len(disk) + 1) /\ DOMAIN disk = 1 .. Len(disk) /\ Len(disk) \in Nat
      /\ \A i \in 1 .. Len(disk) : disk'[i] = disk[i]
      /\ disk'[Len(disk) + 1] = x
      /\ synced \in Nat
  BY StoredFacts, AppendProperties
<1>2. ASSUME NEW j \in Whole(disk) PROVE j \in Whole(disk') /\ disk'[j] = disk[j]
  <2>1. j \in 1 .. Len(disk) /\ disk[j].event \in Event /\ (j = 1 \/ disk[j - 1].event \in Event)
    BY <1>1 DEF Whole
  <2>2. j = 1 \/ disk'[j - 1] = disk[j - 1]
    BY <1>1, <2>1
  <2> QED
    BY <1>1, <2>1, <2>2 DEF Whole
<1> SUFFICES ASSUME NEW i \in DOMAIN disk', disk'[i] = Line("Submitted", t)
             PROVE  \E j \in Whole(disk') : j > i /\ j <= synced' /\ disk'[j] = Line("Started", t)
  BY DEF Covered, Whole, Line
<1>3. i \in DOMAIN disk /\ disk[i] = Line("Submitted", t)
  BY <1>1
<1>4. PICK j \in Whole(disk) : j > i /\ j <= synced /\ disk[j] = Line("Started", t)
  BY <1>3 DEF Covered
<1>5. j \in Nat /\ i \in Nat
  BY <1>1, <1>3, <1>4 DEF Whole
<1>6. j \in Whole(disk') /\ disk'[j] = Line("Started", t)
  BY <1>2, <1>4
<1>7. j <= synced'
  BY <1>1, <1>4, <1>5
<1> QED
  BY <1>4, <1>6, <1>7

\* A message behind the others keeps the channel in order.
LEMMA OrderedAppend ==
  ASSUME TypeOK, Ordered, NEW x \in Message, inbox' = Append(inbox, x),
         x.event = "Started" => x.task \in Task /\ state'[x.task] = "Logging",
         x.event = "Submitted" => x.task \in Task /\ state'[x.task] # "Absent",
         \A k \in DOMAIN inbox : inbox[k].event = "Started" =>
           state'[inbox[k].task] = "Logging" /\ (x.event \in {"Started", "Submitted"} => inbox[k].task # x.task),
         \A k \in DOMAIN inbox : inbox[k].event = "Submitted" => state'[inbox[k].task] # "Absent"
  PROVE  Ordered'
<1>1. /\ DOMAIN inbox' = 1 .. (Len(inbox) + 1) /\ DOMAIN inbox = 1 .. Len(inbox) /\ Len(inbox) \in Nat
      /\ \A i \in 1 .. Len(inbox) : inbox'[i] = inbox[i]
      /\ inbox'[Len(inbox) + 1] = x
  BY StoredFacts, AppendProperties
<1>2. ASSUME NEW k \in DOMAIN inbox'
      PROVE  \/ k \in DOMAIN inbox /\ inbox'[k] = inbox[k]
             \/ k = Len(inbox) + 1 /\ inbox'[k] = x
  BY <1>1
<1>3. ASSUME NEW k \in DOMAIN inbox'
      PROVE  /\ inbox'[k].event = "Started" => inbox'[k].task \in Task /\ state'[inbox'[k].task] = "Logging"
             /\ inbox'[k].event = "Submitted" => inbox'[k].task \in Task /\ state'[inbox'[k].task] # "Absent"
  BY <1>2 DEF Ordered
<1>4. ASSUME NEW k \in DOMAIN inbox', NEW m \in DOMAIN inbox', k < m, inbox'[k].event = "Started",
             inbox'[m].event \in {"Started", "Submitted"}
      PROVE  inbox'[m].task # inbox'[k].task
  <2>1. k \in DOMAIN inbox /\ inbox'[k] = inbox[k]
    BY <1>1, <1>4
  <2>2. CASE m \in DOMAIN inbox
    BY <1>1, <1>4, <2>1, <2>2 DEF Ordered
  <2>3. CASE inbox'[m] = x
    BY <1>4, <2>1, <2>3
  <2> QED
    BY <1>2, <2>2, <2>3
<1> QED
  BY <1>3, <1>4 DEF Ordered

\* So does taking the first message out, and acknowledging it.
LEMMA OrderedTail ==
  ASSUME TypeOK, Ordered, inbox # <<>>, inbox' = Tail(inbox), Acknowledge(Head(inbox))
  PROVE  /\ Ordered'
         /\ Head(inbox) \in Message /\ Head(inbox) = inbox[1] /\ 1 \in DOMAIN inbox
         /\ \A k \in DOMAIN inbox' : k + 1 \in DOMAIN inbox /\ k + 1 > 1 /\ inbox'[k] = inbox[k + 1]
         /\ Head(inbox).event = "Started" =>
              Head(inbox).task \in Task /\ state[Head(inbox).task] = "Logging"
<1>1. /\ Head(inbox) \in Message /\ Head(inbox) = inbox[1] /\ 1 \in DOMAIN inbox
      /\ \A k \in DOMAIN inbox' : k + 1 \in DOMAIN inbox /\ k > 0 /\ k \in Nat /\ inbox'[k] = inbox[k + 1]
  BY StoredFacts, HeadTailProperties
<1>2. Head(inbox).event = "Started" => Head(inbox).task \in Task /\ state[Head(inbox).task] = "Logging"
  BY <1>1 DEF Ordered
<1>3. ASSUME NEW k \in DOMAIN inbox'
      PROVE  /\ inbox'[k].event = "Started" => inbox'[k].task \in Task /\ state'[inbox'[k].task] = "Logging"
             /\ inbox'[k].event = "Submitted" => inbox'[k].task \in Task /\ state'[inbox'[k].task] # "Absent"
  <2>1. k + 1 \in DOMAIN inbox /\ 1 < k + 1 /\ inbox'[k] = inbox[k + 1]
    BY <1>1
  <2>2. inbox[1].event = "Started" /\ inbox[k + 1].event \in {"Started", "Submitted"} =>
          inbox[k + 1].task # inbox[1].task
    BY <1>1, <2>1 DEF Ordered
  <2>3. inbox[k + 1].event \in {"Started", "Submitted"} => state'[inbox[k + 1].task] = state[inbox[k + 1].task]
    BY <1>1, <2>2 DEF Acknowledge
  <2> QED
    BY <2>1, <2>3 DEF Ordered
<1>4. ASSUME NEW k \in DOMAIN inbox', NEW m \in DOMAIN inbox', k < m, inbox'[k].event = "Started",
             inbox'[m].event \in {"Started", "Submitted"}
      PROVE  inbox'[m].task # inbox'[k].task
  BY <1>1, <1>4 DEF Ordered
<1> QED
  BY <1>1, <1>2, <1>3, <1>4 DEF Ordered

-----------------------------------------------------------------------------
\* A covered task stays so while the file and the channel are not touched.
LEMMA SameFile ==
  ASSUME UNCHANGED fileVars, NEW t
  PROVE  Covered(t)' <=> Covered(t)
BY DEF Covered, Whole, fileVars, Line

\* The writer's three outcomes.
LEMMA WriterKeeps ==
  ASSUME TypeOK, JournalInv, Writer
  PROVE  JournalInv'
<1> DEFINE h == Head(inbox)
<1>1. /\ inbox # <<>> /\ inbox' = Tail(inbox) /\ Acknowledge(h) /\ Alive
      /\ UNCHANGED <<life, plan, begun>> /\ unlogged \subseteq unlogged'
  BY DEF Writer, Write, WriteFails, Discard, writerFrame
<1>2. /\ Ordered'
      /\ h \in Message /\ h = inbox[1] /\ 1 \in DOMAIN inbox
      /\ \A k \in DOMAIN inbox' : k + 1 \in DOMAIN inbox /\ k + 1 > 1 /\ inbox'[k] = inbox[k + 1]
      /\ h.event = "Started" => h.task \in Task /\ state[h.task] = "Logging"
  BY <1>1, OrderedTail DEF JournalInv
<1>3. \A t \in Task : \/ state'[t] = state[t]
                      \/ /\ h.event = "Started" /\ h.task = t
                         /\ state[t] = "Logging" /\ state'[t] = "Logged"
  BY <1>1, <1>2 DEF Acknowledge, TypeOK
<1>4. \A t \in Task : state[t] \in {"Settled", "Gone"} => state'[t] = state[t]
  BY <1>3
<1>5. \A t \in Task : state'[t] = "Absent" <=> state[t] = "Absent"
  BY <1>3
<1>6. \/ disk' = disk
      \/ /\ Write /\ disk' = Append(disk, h)
      \/ \E k \in Tears : disk' = Append(disk, Torn(k))
  BY DEF Writer, Write, WriteFails, Discard, fileVars
<1>7. h \in Stored /\ \A k \in Tears : Torn(k) \in Stored /\ Torn(k).event \notin Event
  BY <1>2, JournalAssumption DEF Message, Stored, Torn, Event
<1>8. synced' \in Nat /\ synced' >= synced
  <2>1. synced \in Nat /\ Len(disk) \in Nat /\ synced <= Len(disk)
    BY StoredFacts
  <2>2. CASE Write
    BY <2>1, <2>2, <1>7, StoredFacts, AppendProperties DEF Write
  <2>3. CASE WriteFails \/ Discard
    BY <2>1, <2>3 DEF WriteFails, Discard, fileVars
  <2> QED
    BY <2>2, <2>3 DEF Writer
<1>9. Recorded'
  <2> SUFFICES ASSUME NEW t \in Task \ unlogged', t \in begun \/ state'[t] = "Logged"
               PROVE  Covered(t)' /\ NotComing(t)'
    BY <1>1 DEF Recorded
  <2>1. CASE t \in begun \/ state[t] = "Logged"
    <3>1. Covered(t) /\ NotComing(t)
      BY <1>1, <2>1 DEF JournalInv, Recorded
    <3>2. NotComing(t)'
      BY <1>2, <3>1 DEF NotComing, Line
    <3>3. CASE disk' = disk
      BY <1>8, <3>1, <3>2, <3>3, StoredFacts DEF Covered, Whole, Line
    <3>4. CASE disk' = Append(disk, h)
      <4>1. h # Line("Submitted", t)
        BY <1>2, <3>1 DEF NotComing
      <4> QED
        BY <1>7, <1>8, <3>1, <3>2, <3>4, <4>1, CoveredAppend
    <3>5. CASE \E k \in Tears : disk' = Append(disk, Torn(k))
      <4>1. PICK k \in Tears : disk' = Append(disk, Torn(k))
        BY <3>5
      <4>2. Torn(k) # Line("Submitted", t)
        BY <1>7 DEF Line, Event
      <4> QED
        BY <1>7, <1>8, <3>1, <3>2, <4>1, <4>2, CoveredAppend
    <3> QED
      BY <1>6, <3>2, <3>3, <3>4, <3>5
  <2>2. CASE ~(t \in begun \/ state[t] = "Logged")
    <3>1. h.event = "Started" /\ h.task = t
      BY <1>3, <2>2
    <3>2. h = Line("Started", t)
      BY <1>2, <3>1 DEF Message, Line
    <3>3. NotComing(t)'
      <4> SUFFICES ASSUME NEW k \in DOMAIN inbox', inbox'[k] = Line("Submitted", t) PROVE FALSE
        BY DEF NotComing, Line
      <4>1. k + 1 \in DOMAIN inbox /\ 1 < k + 1 /\ inbox[k + 1].event = "Submitted" /\ inbox[k + 1].task = t
        BY <1>2, StoredFacts DEF Line
      <4> QED
        BY <1>2, <3>1, <4>1 DEF JournalInv, Ordered
    <3>4. Write /\ Len(disk') \in Whole(disk')
      <4>1. t \in {h.task} \cap Task
        BY <3>1
      <4> QED
        BY <4>1 DEF Writer, Write, WriteFails, Discard
    <3>5. /\ disk' = Append(disk, h) /\ synced' = Len(disk')
          /\ Len(disk') = Len(disk) + 1 /\ Len(disk) \in Nat
          /\ DOMAIN disk' = 1 .. Len(disk') /\ disk'[Len(disk')] = h
      BY <1>7, <3>1, <3>4, StoredFacts, AppendProperties DEF Write, IsDurable
    <3>6. Covered(t)'
      <4> SUFFICES ASSUME NEW i \in DOMAIN disk', disk'[i] = Line("Submitted", t)
                   PROVE  \E j \in Whole(disk') : j > i /\ j <= synced' /\ disk'[j] = Line("Started", t)
        BY DEF Covered, Whole, Line
      <4>1. i # Len(disk')
        BY <3>2, <3>5 DEF Line
      <4>2. Len(disk') > i /\ Len(disk') <= synced'
        BY <3>5, <4>1
      <4> QED
        BY <3>2, <3>4, <3>5, <4>2
    <3> QED
      BY <3>3, <3>6
  <2> QED
    BY <2>1, <2>2
<1>10. Past'
  <2>1. \A t \in begun' : state'[t] # "Absent"
    BY <1>1, <1>5 DEF JournalInv, Past, TypeOK
  <2>2. \A t \in plan'.resumable : state'[t] \in {"Settled", "Gone"}
    BY <1>1, <1>4 DEF JournalInv, Past, TypeOK
  <2>3. ASSUME NEW i \in DOMAIN disk', disk'[i].event = "Submitted"
        PROVE  disk'[i].task \in Task /\ state'[disk'[i].task] # "Absent"
    <3>1. (i \in DOMAIN disk /\ disk'[i] = disk[i]) \/ disk'[i] = h
      <4>1. CASE disk' = disk
        BY <4>1
      <4>2. ASSUME NEW x \in Stored, disk' = Append(disk, x), x = h \/ x.event \notin Event
            PROVE  (i \in DOMAIN disk /\ disk'[i] = disk[i]) \/ disk'[i] = h
        BY <2>3, <4>2, StoredFacts, AppendProperties DEF Event
      <4> QED
        BY <1>6, <1>7, <4>1, <4>2
    <3>2. CASE i \in DOMAIN disk /\ disk'[i] = disk[i]
      BY <1>5, <2>3, <3>2 DEF JournalInv, Past
    <3>3. CASE disk'[i] = h
      BY <1>2, <1>5, <2>3, <3>3 DEF JournalInv, Ordered
    <3> QED
      BY <3>1, <3>2, <3>3
  <2> QED
    BY <1>1, <2>1, <2>2, <2>3 DEF Past, Alive
<1>11. PlanIsSafe'
  BY <1>1 DEF JournalInv, PlanIsSafe
<1> QED
  BY <1>2, <1>9, <1>10, <1>11 DEF JournalInv

\* A message that does not submit the task.
LEMMA NotComingAppend ==
  ASSUME TypeOK, NEW t, NotComing(t), NEW x \in Message, x # Line("Submitted", t),
         inbox' = Append(inbox, x)
  PROVE  NotComing(t)'
BY StoredFacts, AppendProperties DEF NotComing, Line

LEMMA OrderedSame ==
  ASSUME Ordered, inbox' = inbox,
         \A t \in Task : state[t] = "Logging" => state'[t] = "Logging",
         \A t \in Task : state[t] # "Absent" => state'[t] # "Absent"
  PROVE  Ordered'
BY DEF Ordered

\* What a step of a living process owes the invariant if it leaves the file
\* alone.
LEMMA QuietStep ==
  ASSUME TypeOK, JournalInv, Ordered', UNCHANGED <<fileVars, plan, unlogged>>, life' # "down",
         begun' \subseteq Task,
         \A t \in Task : t \in begun' \/ state'[t] = "Logged" => t \in begun \/ state[t] = "Logged",
         \A t \in Task : state[t] # "Absent" => state'[t] # "Absent",
         \A t \in Task : state[t] \in {"Settled", "Gone"} => state'[t] \in {"Settled", "Gone"},
         \A t \in Task : (t \in begun \/ state[t] = "Logged") /\ NotComing(t) => NotComing(t)'
  PROVE  JournalInv'
<1>1. Recorded'
  <2> SUFFICES ASSUME NEW t \in Task \ unlogged', t \in begun' \/ state'[t] = "Logged"
               PROVE  Covered(t)' /\ NotComing(t)'
    BY DEF Recorded
  <2>1. (t \in begun \/ state[t] = "Logged") /\ t \in Task \ unlogged
    OBVIOUS
  <2>2. Covered(t) /\ NotComing(t)
    BY <2>1 DEF JournalInv, Recorded
  <2> QED
    BY <2>1, <2>2, SameFile
<1>2. Past'
  BY DEF JournalInv, Past, TypeOK, fileVars
<1>3. PlanIsSafe'
  <2> SUFFICES ASSUME NEW t \in begun', t \notin unlogged PROVE t \notin plan.resumable
    BY DEF PlanIsSafe
  <2>1. t \in begun \/ state[t] = "Logged"
    OBVIOUS
  <2> QED
    BY <2>1 DEF JournalInv, PlanIsSafe, Past
<1> QED
  BY <1>1, <1>2, <1>3 DEF JournalInv

\* The driver, the workers and the handshake.
LEMMA LivingKeeps ==
  ASSUME TypeOK, JournalInv, Driver \/ Worker \/ Handshake
  PROVE  JournalInv'
<1> USE DEF history, driverFrame, Serving, Alive
<1>0. Ordered /\ \A t \in begun : state[t] # "Absent"
  BY DEF JournalInv, Past
<1>1. ASSUME NEW t \in Task, Submit(t) PROVE JournalInv'
  <2>1. Line("Submitted", t) \in Message /\ inbox' = Append(inbox, Line("Submitted", t))
    BY <1>1 DEF Submit, Send, Line, Message, Event
  <2>2. state[t] = "Absent" /\ state' = [state EXCEPT ![t] = "Queued"]
    BY <1>1 DEF Submit
  <2>3. Ordered'
    <3>1. \A u \in Task : state'[u] = IF u = t THEN "Queued" ELSE state[u]
      BY <2>2 DEF TypeOK
    <3>2. \A k \in DOMAIN inbox : inbox[k].event \in {"Started", "Submitted"} =>
            inbox[k].task \in Task /\ inbox[k].task # t
      BY <1>0, <2>2 DEF Ordered
    <3>3. Line("Submitted", t).event = "Submitted" /\ Line("Submitted", t).task = t
      BY DEF Line
    <3> QED
      BY <1>0, <2>1, <3>1, <3>2, <3>3, OrderedAppend DEF Ordered
  <2>4. ASSUME NEW u \in Task, u \in begun \/ state[u] = "Logged", NotComing(u) PROVE NotComing(u)'
    <3>1. u # t
      BY <1>0, <2>2, <2>4
    <3>2. Line("Submitted", t) # Line("Submitted", u)
      BY <3>1 DEF Line
    <3> QED
      BY <2>1, <2>4, <3>2, NotComingAppend
  <2> QED
    BY <1>1, <2>3, <2>4, QuietStep DEF Submit, TypeOK
<1>2. ASSUME NEW t \in Task, LogStart(t) PROVE JournalInv'
  <2>1. Line("Started", t) \in Message /\ inbox' = Append(inbox, Line("Started", t))
    BY <1>2 DEF LogStart, Send, Line, Message, Event
  <2>2. state[t] = "Spawned" /\ \A u \in Task : state'[u] = IF u = t THEN "Logging" ELSE state[u]
    BY <1>2 DEF LogStart, TypeOK
  <2>3. Ordered'
    <3>1. Line("Started", t).event = "Started" /\ Line("Started", t).task = t
      BY DEF Line
    <3> QED
      BY <1>0, <2>1, <2>2, <3>1, OrderedAppend DEF Ordered
  <2>4. \A u \in Task : NotComing(u) => NotComing(u)'
    BY <2>1, NotComingAppend DEF Line
  <2> QED
    BY <1>2, <2>3, <2>4, QuietStep DEF LogStart, TypeOK
<1>3. ASSUME NEW t \in Task, Settle(t) PROVE JournalInv'
  <2>1. Line("Settled", t) \in Message /\ inbox' = Append(inbox, Line("Settled", t))
    BY <1>3 DEF Settle, Send, Line, Message, Event
  <2>2. /\ state[t] \in {"Running", "Queued"}
        /\ \A u \in Task : state'[u] = IF u = t THEN "Settled" ELSE state[u]
    BY <1>3 DEF Settle, TypeOK
  <2>3. Ordered'
    <3>1. Line("Settled", t).event = "Settled"
      BY DEF Line
    <3> QED
      BY <1>0, <2>1, <2>2, <3>1, OrderedAppend DEF Ordered
  <2>4. \A u \in Task : NotComing(u) => NotComing(u)'
    BY <2>1, NotComingAppend DEF Line
  <2>5. /\ life' # "down" /\ begun' = begun /\ UNCHANGED <<fileVars, plan, unlogged>>
    BY <1>3 DEF Settle
  <2> QED
    BY <2>2, <2>3, <2>4, <2>5, QuietStep DEF TypeOK
<1>4. ASSUME NEW t \in Task, Spawn(t) \/ Retry(t) \/ Begin(t) PROVE JournalInv'
  <2>1. /\ inbox' = inbox /\ life' # "down" /\ UNCHANGED <<fileVars, plan, unlogged>>
        /\ begun' = begun \/ (state[t] = "Logged" /\ begun' = begun \cup {t})
    BY <1>4 DEF Spawn, Retry, Begin
  <2>2. /\ state[t] \in {"Queued", "Running", "Logged"}
        /\ state'[t] \in {"Spawned", "Queued", "Running"}
        /\ \A u \in Task \ {t} : state'[u] = state[u]
    <3>1. PICK s \in {"Spawned", "Queued", "Running"} : state' = [state EXCEPT ![t] = s]
      BY <1>4 DEF Spawn, Retry, Begin
    <3>2. state[t] \in {"Queued", "Running", "Logged"}
      BY <1>4 DEF Spawn, Retry, Begin
    <3> QED
      BY <3>1, <3>2 DEF TypeOK
  <2>3. Ordered'
    BY <1>0, <2>1, <2>2, OrderedSame
  <2>4. \A u \in Task : NotComing(u) => NotComing(u)'
    BY <2>1 DEF NotComing, Line
  <2> QED
    BY <2>1, <2>2, <2>3, <2>4, QuietStep DEF TypeOK
<1>5. CASE Shutdown \/ Handshake
  <2>1. /\ inbox' = inbox /\ state' = state /\ begun' = begun /\ life' # "down"
        /\ UNCHANGED <<fileVars, plan, unlogged>>
    BY <1>5 DEF Shutdown, Handshake
  <2>2. Ordered'
    BY <1>0, <2>1, OrderedSame
  <2>3. \A u \in Task : NotComing(u) => NotComing(u)'
    BY <2>1 DEF NotComing, Line
  <2> QED
    BY <2>1, <2>2, <2>3, QuietStep DEF TypeOK
<1>6. CASE Close
  <2>1. Line("ShutDown", NoTask) \in Message /\ inbox' = Append(inbox, Line("ShutDown", NoTask))
    BY <1>6 DEF Close, Send, Line, Message, Event
  <2>2. /\ state' = state /\ begun' = begun /\ life' # "down"
        /\ UNCHANGED <<fileVars, plan, unlogged>>
    BY <1>6 DEF Close
  <2>3. Ordered'
    <3>1. Line("ShutDown", NoTask).event = "ShutDown"
      BY DEF Line
    <3> QED
      BY <1>0, <2>1, <2>2, <3>1, OrderedAppend DEF Ordered
  <2>4. \A u \in Task : NotComing(u) => NotComing(u)'
    BY <2>1, NotComingAppend DEF Line
  <2> QED
    BY <2>2, <2>3, <2>4, QuietStep DEF TypeOK
<1> QED
  BY <1>1, <1>2, <1>3, <1>4, <1>5, <1>6 DEF Driver, Worker

\* Death, at any step: every file it can leave keeps what is covered.
LEMMA CrashKeeps ==
  ASSUME TypeOK, JournalInv, Crash
  PROVE  JournalInv'
<1>1. PICK d \in Images \cup {disk} : disk' = d /\ synced' = Len(d)
  BY DEF Crash
<1>2. /\ inbox' = <<>> /\ plan' = NoPlan /\ begun' = begun /\ unlogged' = unlogged
      /\ \A t \in Task : state'[t] = IF state[t] \in {"Absent", "Settled"} THEN state[t] ELSE "Gone"
  BY DEF Crash, history
<1>3. Recorded'
  <2> SUFFICES ASSUME NEW t \in Task \ unlogged, t \in begun PROVE Covered(t)' /\ NotComing(t)'
    BY <1>2 DEF Recorded
  <2>1. Covered(t)
    BY DEF JournalInv, Recorded
  <2>2. Covered(t)'
    BY <1>1, <2>1, CoveredInImage
  <2> QED
    BY <1>2, <2>2 DEF NotComing, Line
<1>4. Ordered'
  BY <1>2 DEF Ordered
<1>5. Past'
  <2>1. ASSUME NEW i \in DOMAIN d, d[i].event = "Submitted"
        PROVE  d[i].task \in Task /\ state[d[i].task] # "Absent"
    <3>1. CASE d = disk
      BY <2>1, <3>1 DEF JournalInv, Past
    <3>2. CASE d \in Images
      <4>1. PICK n \in synced .. Len(disk) :
              /\ d \in Seq(Stored) /\ n <= Len(d)
              /\ \A k \in 1 .. n : d[k] = disk[k]
              /\ \A k \in DOMAIN d : k > n => d[k].event \notin Event
        BY <3>2, ImageShape
      <4>2. i \in 1 .. n /\ i \in DOMAIN disk
        BY <2>1, <4>1, StoredFacts DEF Event
      <4> QED
        BY <2>1, <4>1, <4>2 DEF JournalInv, Past
    <3> QED
      BY <3>1, <3>2
  <2>2. \A i \in DOMAIN disk' : disk'[i].event = "Submitted" =>
          disk'[i].task \in Task /\ state'[disk'[i].task] # "Absent"
    BY <1>1, <1>2, <2>1
  <2>3. \A t \in begun : state'[t] # "Absent"
    BY <1>2 DEF JournalInv, Past, TypeOK
  <2> QED
    BY <1>2, <2>2, <2>3 DEF Past, NoPlan
<1>6. PlanIsSafe'
  BY <1>2 DEF PlanIsSafe, NoPlan
<1> QED
  BY <1>3, <1>4, <1>5, <1>6 DEF JournalInv

\* The next life: what replay offers is over, and none of it had begun.
LEMMA RestartKeeps ==
  ASSUME TypeOK, JournalInv, Restart
  PROVE  JournalInv'
<1>1. /\ life = "down" /\ life' = "up" /\ plan' = Replay(disk)
      /\ UNCHANGED <<state, inbox, begun, unlogged>>
      /\ disk' = <<>> \/ UNCHANGED fileVars
  BY DEF Restart, Rotate
<1>2. Recorded'
  <2> SUFFICES ASSUME NEW t \in Task \ unlogged, t \in begun \/ state[t] = "Logged"
               PROVE  Covered(t)' /\ NotComing(t)'
    BY <1>1 DEF Recorded
  <2>1. Covered(t) /\ NotComing(t)
    BY DEF JournalInv, Recorded
  <2>2. NotComing(t)'
    BY <1>1, <2>1 DEF NotComing, Line
  <2>3. CASE disk' = <<>>
    BY <2>2, <2>3 DEF Covered, Line, Whole
  <2>4. CASE UNCHANGED fileVars
    BY <2>1, <2>2, <2>4, SameFile
  <2> QED
    BY <1>1, <2>3, <2>4
<1>3. Ordered'
  BY <1>1 DEF JournalInv, Ordered
<1>4. Past'
  <2>1. \A t \in plan'.resumable : t \in Task /\ state[t] \in {"Settled", "Gone"}
    <3> SUFFICES ASSUME NEW t \in Resumable(disk) PROVE t \in Task /\ state[t] \in {"Settled", "Gone"}
      BY <1>1 DEF Replay, NoPlan
    <3>1. PICK i \in DOMAIN disk : disk[i].event = "Submitted" /\ disk[i].task = t
      BY DEF Resumable, Whole, Line
    <3>2. t \in Task /\ state[t] # "Absent"
      BY <3>1 DEF JournalInv, Past
    <3> QED
      BY <1>1, <3>2 DEF JournalInv, Past
  <2>2. \A i \in DOMAIN disk' : disk'[i].event = "Submitted" =>
          disk'[i].task \in Task /\ state[disk'[i].task] # "Absent"
    BY <1>1 DEF JournalInv, Past, fileVars
  <2> QED
    BY <1>1, <2>1, <2>2 DEF JournalInv, Past
<1>5. PlanIsSafe'
  <2> SUFFICES ASSUME NEW t \in begun \ unlogged PROVE t \notin Replay(disk).resumable
    BY <1>1 DEF PlanIsSafe
  <2>1. t \in Task /\ Covered(t)
    BY DEF JournalInv, Recorded, TypeOK
  <2> QED
    BY <2>1, CoveredInImage
<1> QED
  BY <1>2, <1>3, <1>4, <1>5 DEF JournalInv

-----------------------------------------------------------------------------
\* The strengthening that makes the next theorem inductive: every start that
\* was acknowledged and can be read is synced behind its submission.
THEOREM JournalInvariant == Spec => []JournalInv
<1>1. Init => JournalInv
  BY DEF Init, JournalInv, Recorded, Ordered, Past, PlanIsSafe, NoPlan
<1>2. TypeOK /\ JournalInv /\ [Next]_vars => JournalInv'
  <2> SUFFICES ASSUME TypeOK, JournalInv, [Next]_vars PROVE JournalInv'
    OBVIOUS
  <2>1. CASE UNCHANGED vars
    <3>1. UNCHANGED <<fileVars, life, state, inbox, plan, begun, unlogged>>
      BY <2>1 DEF vars, history
    <3>2. Recorded'
      BY <3>1, SameFile DEF JournalInv, Recorded, NotComing, Line
    <3>3. Ordered' /\ Past' /\ PlanIsSafe'
      BY <3>1 DEF JournalInv, Ordered, Past, PlanIsSafe, fileVars
    <3> QED
      BY <3>2, <3>3 DEF JournalInv
  <2> QED
    BY <2>1, WriterKeeps, LivingKeeps, CrashKeeps, RestartKeeps DEF Next
<1> QED
  BY <1>1, <1>2, TypeCorrect, PTL DEF Spec

\* Work that may already have had side effects is not in the plan of any
\* life, and would not be in the one after a crash at this very step
\* (agent-journal, "the rule that shapes everything here").
THEOREM BegunIsNeverResumable == Spec => []BegunNeverResumable
<1>1. TypeOK /\ JournalInv => BegunNeverResumable
  <2> SUFFICES ASSUME TypeOK, JournalInv PROVE BegunNeverResumable
    OBVIOUS
  <2>1. \A t \in begun \ unlogged : t \in Task /\ Covered(t)
    BY DEF JournalInv, Recorded, TypeOK
  <2>2. \A t \in begun \ unlogged : t \notin plan.resumable
    BY DEF JournalInv, PlanIsSafe
  <2>3. \A d \in Images : \A t \in begun \ unlogged : t \notin Replay(d).resumable
    BY <2>1, CoveredInImage
  <2> QED
    BY <2>2, <2>3 DEF BegunNeverResumable
<1> QED
  BY <1>1, TypeCorrect, JournalInvariant, PTL

-----------------------------------------------------------------------------
\* States in which nothing of the task is going on.
Over == {"Absent", "Settled", "Gone"}

Coming(t) == \E k \in DOMAIN inbox : inbox[k] = Line("Submitted", t)

\* Submitted, and nothing of it since but starts.
OnDisk(t) ==
  \E i \in Whole(disk) :
    /\ disk[i] = Line("Submitted", t)
    /\ \A k \in DOMAIN disk : k > i /\ disk[k].task = t => disk[k].event = "Started"

\* A task in progress left its submission in the file, or it is on its way.
Traced ==
  /\ \A t \in Task \ unlogged : state[t] \notin Over => Coming(t) \/ OnDisk(t)
  /\ \A k \in DOMAIN inbox :
       /\ inbox[k].event = "Settled" => inbox[k].task \in Task /\ state[inbox[k].task] = "Settled"
       /\ inbox[k].event = "ShutDown" => inbox[k].task = NoTask
  /\ \A i \in DOMAIN disk :
       /\ disk[i].event \in Event \cup Tears
       /\ disk[i].event \notin Event => disk[i].task = NoTask

\* A line that ends no task is one the task can still be found behind.
LEMMA OnDiskAppend ==
  ASSUME TypeOK, NEW t \in Task, OnDisk(t), NEW x \in Stored, x.task = t => x.event = "Started",
         disk' = Append(disk, x)
  PROVE  OnDisk(t)'
<1>1. /\ DOMAIN disk' = 1 .. (Len(disk) + 1) /\ DOMAIN disk = 1 .. Len(disk) /\ Len(disk) \in Nat
      /\ \A i \in 1 .. Len(disk) : disk'[i] = disk[i]
      /\ disk'[Len(disk) + 1] = x
  BY StoredFacts, AppendProperties
<1>2. PICK i \in Whole(disk) :
        /\ disk[i] = Line("Submitted", t)
        /\ \A k \in DOMAIN disk : k > i /\ disk[k].task = t => disk[k].event = "Started"
  BY DEF OnDisk
<1>3. i \in 1 .. Len(disk) /\ disk[i].event \in Event /\ (i = 1 \/ disk[i - 1].event \in Event)
  BY <1>1 DEF Whole
<1>4. i \in Whole(disk')
  <2>1. i = 1 \/ disk'[i - 1] = disk[i - 1]
    BY <1>1, <1>3
  <2> QED
    BY <1>1, <1>3, <2>1 DEF Whole
<1>5. ASSUME NEW k \in DOMAIN disk', k > i, disk'[k].task = t PROVE disk'[k].event = "Started"
  <2>1. CASE k \in DOMAIN disk
    BY <1>1, <1>2, <1>5, <2>1
  <2>2. CASE k = Len(disk) + 1
    BY <1>1, <1>5, <2>2
  <2> QED
    BY <1>1, <2>1, <2>2
<1>6. disk'[i] = Line("Submitted", t)
  BY <1>1, <1>2, <1>3
<1> QED
  BY <1>4, <1>5, <1>6 DEF OnDisk, Whole, Line

LEMMA OnDiskWritten ==
  ASSUME TypeOK, NEW t \in Task, Line("Submitted", t) \in Stored,
         disk' = Append(disk, Line("Submitted", t)), Len(disk') \in Whole(disk')
  PROVE  OnDisk(t)'
<1>1. /\ DOMAIN disk' = 1 .. Len(disk') /\ Len(disk') \in Nat
      /\ disk'[Len(disk')] = Line("Submitted", t)
  BY StoredFacts, AppendProperties
<1>2. \A k \in DOMAIN disk' : k > Len(disk') => FALSE
  BY <1>1
<1> DEFINE i == Len(disk')
<1>3. i \in Whole(disk') /\ disk'[i] = Line("Submitted", t) /\ \A k \in DOMAIN disk' : ~(k > i)
  BY <1>1, <1>2
<1> HIDE DEF i
<1> QED
  BY <1>3 DEF OnDisk, Whole, Line

\* Nothing the driver, the workers or the handshake do touches the file.
LEMMA TracedLiving ==
  ASSUME TypeOK, JournalInv, Traced, Driver \/ Worker \/ Handshake
  PROVE  Traced'
<1>1. UNCHANGED fileVars /\ unlogged' = unlogged
  BY DEF Driver, Worker, Submit, LogStart, Settle, Spawn, Retry, Begin, Shutdown, Close, Handshake,
         driverFrame, history
<1>2. /\ \A t \in Task : OnDisk(t)' <=> OnDisk(t)
      /\ \A i \in DOMAIN disk' :
           /\ disk'[i].event \in Event \cup Tears
           /\ disk'[i].event \notin Event => disk'[i].task = NoTask
  BY <1>1 DEF Traced, fileVars, OnDisk, Whole, Line
<1>3. \/ inbox' = inbox /\ \A t \in Task : state[t] = "Settled" => state'[t] = "Settled"
      \/ \E x \in Message :
           /\ inbox' = Append(inbox, x)
           /\ x.event = "Settled" => x.task \in Task /\ state'[x.task] = "Settled"
           /\ x.event = "ShutDown" => x.task = NoTask
           /\ \A t \in Task : state[t] = "Settled" => state'[t] = "Settled"
  <2>1. ASSUME NEW t \in Task, Spawn(t) \/ Retry(t) \/ Begin(t)
        PROVE  inbox' = inbox /\ \A u \in Task : state[u] = "Settled" => state'[u] = "Settled"
    <3>1. PICK s \in {"Spawned", "Queued", "Running"} : state' = [state EXCEPT ![t] = s]
      BY <2>1 DEF Spawn, Retry, Begin
    <3>2. state[t] \in {"Queued", "Running", "Logged"} /\ inbox' = inbox
      BY <2>1 DEF Spawn, Retry, Begin, driverFrame
    <3> QED
      BY <3>1, <3>2 DEF TypeOK
  <2>2. CASE Shutdown \/ Handshake
    BY <2>2 DEF Shutdown, Handshake
  <2>3. CASE Close
    <3>1. Line("ShutDown", NoTask) \in Message /\ inbox' = Append(inbox, Line("ShutDown", NoTask))
      BY <2>3 DEF Close, Send, Line, Message, Event
    <3>2. state' = state
      BY <2>3 DEF Close
    <3> QED
      BY <3>1, <3>2 DEF Line
  <2>4. ASSUME NEW t \in Task, Submit(t) \/ LogStart(t)
        PROVE  \E x \in Message :
                 /\ inbox' = Append(inbox, x) /\ x.event \notin {"Settled", "ShutDown"}
                 /\ \A u \in Task : state[u] = "Settled" => state'[u] = "Settled"
    <3>1. PICK e \in {"Submitted", "Started"} : inbox' = Append(inbox, Line(e, t))
      BY <2>4 DEF Submit, LogStart, Send
    <3>2. Line(e, t) \in Message /\ Line(e, t).event = e
      BY DEF Line, Message, Event
    <3>3. PICK s \in {"Queued", "Logging"} : state' = [state EXCEPT ![t] = s]
      BY <2>4 DEF Submit, LogStart
    <3>4. state[t] \in {"Absent", "Spawned"}
      BY <2>4 DEF Submit, LogStart
    <3>5. \A u \in Task : state[u] = "Settled" => state'[u] = "Settled"
      BY <3>3, <3>4 DEF TypeOK
    <3> QED
      BY <3>1, <3>2, <3>5
  <2>5. ASSUME NEW t \in Task, Settle(t)
        PROVE  \E x \in Message :
                 /\ inbox' = Append(inbox, x) /\ x.event # "ShutDown"
                 /\ x.task \in Task /\ state'[x.task] = "Settled"
                 /\ \A u \in Task : state[u] = "Settled" => state'[u] = "Settled"
    <3>1. /\ inbox' = Append(inbox, Line("Settled", t)) /\ state' = [state EXCEPT ![t] = "Settled"]
      BY <2>5 DEF Settle, Send
    <3>2. /\ Line("Settled", t) \in Message /\ Line("Settled", t).event = "Settled"
          /\ Line("Settled", t).task = t
      BY DEF Line, Message, Event
    <3>3. /\ state'[t] = "Settled" /\ \A u \in Task : state[u] = "Settled" => state'[u] = "Settled"
      BY <3>1 DEF TypeOK
    <3> QED
      BY <3>1, <3>2, <3>3
  <2>6. CASE \E t \in Task : Spawn(t) \/ Retry(t) \/ Begin(t)
    BY <2>1, <2>6
  <2>7. CASE \E t \in Task : Submit(t) \/ LogStart(t)
    BY <2>4, <2>7
  <2>8. CASE \E t \in Task : Settle(t)
    BY <2>5, <2>8
  <2> QED
    BY <2>2, <2>3, <2>6, <2>7, <2>8 DEF Driver, Worker
<1>4. /\ \A k \in DOMAIN inbox' :
           /\ inbox'[k].event = "Settled" => inbox'[k].task \in Task /\ state'[inbox'[k].task] = "Settled"
           /\ inbox'[k].event = "ShutDown" => inbox'[k].task = NoTask
      /\ \A t \in Task : Coming(t) => Coming(t)'
  <2>1. CASE inbox' = inbox /\ \A t \in Task : state[t] = "Settled" => state'[t] = "Settled"
    BY <2>1 DEF Traced, Coming, Line
  <2>2. ASSUME NEW x \in Message,
               inbox' = Append(inbox, x),
               x.event = "Settled" => x.task \in Task /\ state'[x.task] = "Settled",
               x.event = "ShutDown" => x.task = NoTask,
               \A t \in Task : state[t] = "Settled" => state'[t] = "Settled"
        PROVE  /\ \A k \in DOMAIN inbox' :
                    /\ inbox'[k].event = "Settled" =>
                         inbox'[k].task \in Task /\ state'[inbox'[k].task] = "Settled"
                    /\ inbox'[k].event = "ShutDown" => inbox'[k].task = NoTask
               /\ \A t \in Task : Coming(t) => Coming(t)'
    <3>1. /\ DOMAIN inbox' = 1 .. (Len(inbox) + 1) /\ DOMAIN inbox = 1 .. Len(inbox) /\ Len(inbox) \in Nat
          /\ \A i \in 1 .. Len(inbox) : inbox'[i] = inbox[i]
          /\ inbox'[Len(inbox) + 1] = x
      BY <2>2, StoredFacts, AppendProperties
    <3>2. \A k \in DOMAIN inbox' : (k \in DOMAIN inbox /\ inbox'[k] = inbox[k]) \/ inbox'[k] = x
      BY <3>1
    <3>3. \A k \in DOMAIN inbox : k \in DOMAIN inbox' /\ inbox'[k] = inbox[k]
      BY <3>1
    <3>4. \A t \in Task : Coming(t) => Coming(t)'
      BY <3>3 DEF Coming, Line
    <3> QED
      BY <2>2, <3>2, <3>4 DEF Traced
  <2> QED
    BY <1>3, <2>1, <2>2
<1>5. ASSUME NEW t \in Task \ unlogged', state'[t] \notin Over PROVE Coming(t)' \/ OnDisk(t)'
  <2>1. CASE state[t] \notin Over
    BY <1>1, <1>2, <1>4, <2>1 DEF Traced
  <2>2. CASE state[t] \in Over
    <3>1. Submit(t)
      <4>1. \A u \in Task : Spawn(u) \/ Retry(u) \/ Begin(u) \/ LogStart(u) => u # t
        BY <2>2 DEF Spawn, Retry, Begin, LogStart, Over
      <4>2. \A u \in Task : Spawn(u) \/ Retry(u) \/ Begin(u) \/ LogStart(u) => state'[t] = state[t]
        BY <4>1 DEF Spawn, Retry, Begin, LogStart, TypeOK
      <4>3. \A u \in Task : Settle(u) => state'[t] \in Over
        BY <2>2 DEF Settle, Over, TypeOK
      <4>4. \A u \in Task \ {t} : Submit(u) => state'[t] = state[t]
        BY DEF Submit, TypeOK
      <4>5. Shutdown \/ Close \/ Handshake => state' = state
        BY DEF Shutdown, Close, Handshake
      <4> QED
        BY <1>5, <2>2, <4>2, <4>3, <4>4, <4>5 DEF Driver, Worker
    <3>2. Line("Submitted", t) \in Message /\ inbox' = Append(inbox, Line("Submitted", t))
      BY <3>1 DEF Submit, Send, Line, Message, Event
    <3>3. Len(inbox) + 1 \in DOMAIN inbox' /\ inbox'[Len(inbox) + 1] = Line("Submitted", t)
      BY <3>2, StoredFacts, AppendProperties
    <3> QED
      BY <3>3 DEF Coming, Line
  <2> QED
    BY <2>1, <2>2
<1> QED
  BY <1>2, <1>4, <1>5 DEF Traced

\* What leaves the channel without reaching the file is unlogged.
LEMMA TracedWriter ==
  ASSUME TypeOK, JournalInv, Traced, Writer
  PROVE  Traced'
<1> DEFINE h == Head(inbox)
<1>1. inbox # <<>> /\ inbox' = Tail(inbox) /\ Acknowledge(h) /\ unlogged \subseteq unlogged'
  BY DEF Writer, Write, WriteFails, Discard, writerFrame
<1>2. /\ h \in Message /\ h = inbox[1] /\ 1 \in DOMAIN inbox
      /\ \A k \in DOMAIN inbox' : k + 1 \in DOMAIN inbox /\ inbox'[k] = inbox[k + 1]
      /\ h.event = "Started" => h.task \in Task /\ state[h.task] = "Logging"
  BY <1>1, OrderedTail DEF JournalInv
<1>3. \A k \in DOMAIN inbox : k = 1 \/ (k - 1 \in DOMAIN inbox' /\ inbox'[k - 1] = inbox[k])
  BY <1>1, StoredFacts, HeadTailProperties
<1>4. \A t \in Task : \/ state'[t] = state[t]
                      \/ state[t] = "Logging" /\ state'[t] = "Logged"
  BY <1>1, <1>2 DEF Acknowledge, TypeOK
<1>5. \/ disk' = disk
      \/ Write /\ disk' = Append(disk, h)
      \/ \E k \in Tears : disk' = Append(disk, Torn(k))
  BY DEF Writer, Write, WriteFails, Discard, fileVars
<1>6. /\ h \in Stored /\ h.event \in Event
      /\ \A k \in Tears : Torn(k) \in Stored /\ Torn(k).event = k /\ Torn(k).task = NoTask
  BY <1>2, JournalAssumption DEF Message, Stored, Torn
<1>7. ASSUME NEW t \in Task \ unlogged', h.task = t
      PROVE  Write /\ disk' = Append(disk, h) /\ Len(disk') \in Whole(disk')
  <2>1. t \in {h.task} \cap Task
    BY <1>7
  <2> QED
    BY <2>1 DEF Writer, Write, WriteFails, Discard
<1>8. ASSUME NEW t \in Task \ unlogged', state'[t] \notin Over PROVE Coming(t)' \/ OnDisk(t)'
  <2>1. t \in Task \ unlogged /\ state[t] \notin Over
    BY <1>1, <1>4, <1>8 DEF Over
  <2>2. NoTask # t
    BY JournalAssumption
  <2>3. CASE Coming(t)
    <3>1. PICK k \in DOMAIN inbox : inbox[k] = Line("Submitted", t)
      BY <2>3 DEF Coming
    <3>2. CASE k = 1
      <4>1. h = Line("Submitted", t) /\ h.task = t
        BY <1>2, <3>1, <3>2 DEF Line
      <4> QED
        BY <1>6, <1>7, <4>1, OnDiskWritten
    <3>3. CASE k # 1
      BY <1>3, <3>1, <3>3 DEF Coming, Line
    <3> QED
      BY <3>2, <3>3
  <2>4. CASE OnDisk(t)
    <3>1. CASE disk' = disk
      BY <2>4, <3>1 DEF OnDisk, Whole, Line
    <3>2. CASE \E k \in Tears : disk' = Append(disk, Torn(k))
      BY <1>6, <2>2, <2>4, <3>2, OnDiskAppend
    <3>3. CASE disk' = Append(disk, h)
      <4>1. h.task = t => h.event \in {"Started", "Submitted"}
        <5>1. h.event = "Settled" => state[h.task] = "Settled"
          BY <1>2 DEF Traced
        <5>2. h.event = "ShutDown" => h.task = NoTask
          BY <1>2 DEF Traced
        <5> QED
          BY <1>6, <2>1, <2>2, <5>1, <5>2 DEF Event, Over
      <4>2. CASE h.task = t /\ h.event = "Submitted"
        <5>1. h = Line("Submitted", t)
          BY <1>2, <4>2 DEF Message, Line
        <5> QED
          BY <1>6, <1>7, <4>2, <5>1, OnDiskWritten
      <4>3. CASE h.task = t => h.event = "Started"
        BY <1>6, <2>4, <3>3, <4>3, OnDiskAppend
      <4> QED
        BY <4>1, <4>2, <4>3
    <3> QED
      BY <1>5, <3>1, <3>2, <3>3
  <2> QED
    BY <2>1, <2>3, <2>4 DEF Traced
<1>9. ASSUME NEW k \in DOMAIN inbox'
      PROVE  /\ inbox'[k].event = "Settled" => inbox'[k].task \in Task /\ state'[inbox'[k].task] = "Settled"
             /\ inbox'[k].event = "ShutDown" => inbox'[k].task = NoTask
  <2>1. k + 1 \in DOMAIN inbox /\ inbox'[k] = inbox[k + 1]
    BY <1>2
  <2>2. \A t \in Task : state[t] = "Settled" => state'[t] = "Settled"
    BY <1>4
  <2> QED
    BY <2>1, <2>2 DEF Traced
<1>10. ASSUME NEW i \in DOMAIN disk'
       PROVE  /\ disk'[i].event \in Event \cup Tears
              /\ disk'[i].event \notin Event => disk'[i].task = NoTask
  <2>1. CASE disk' = disk
    BY <2>1 DEF Traced
  <2>2. ASSUME NEW x \in Stored, disk' = Append(disk, x), x.event \in Event \cup Tears,
               x.event \notin Event => x.task = NoTask
        PROVE  /\ disk'[i].event \in Event \cup Tears
               /\ disk'[i].event \notin Event => disk'[i].task = NoTask
    <3>1. (i \in DOMAIN disk /\ disk'[i] = disk[i]) \/ disk'[i] = x
      BY <2>2, StoredFacts, AppendProperties
    <3> QED
      BY <2>2, <3>1 DEF Traced
  <2> QED
    BY <1>5, <1>6, <2>1, <2>2
<1> QED
  BY <1>8, <1>9, <1>10 DEF Traced

\* What a crash leaves holds no other kind of line than the file and a tear.
LEMMA ImageKinds ==
  ASSUME TypeOK, Traced, NEW d \in Images \cup {disk}, NEW i \in DOMAIN d
  PROVE  /\ d[i].event \in Event \cup Tears
         /\ d[i].event \notin Event => d[i].task = NoTask
<1>1. disk \in Seq(Stored) /\ synced \in 0 .. Len(disk) /\ DOMAIN disk = 1 .. Len(disk)
  BY StoredFacts
<1>2. ASSUME NEW e \in Kept
      PROVE  /\ e \in Seq(Stored)
             /\ \A j \in DOMAIN e : j \in DOMAIN disk /\ e[j] = disk[j]
  BY <1>1 DEF Kept
<1>3. ASSUME NEW e \in Kept, NEW k \in Tears, d = Append(e, Torn(k))
      PROVE  (i \in DOMAIN e /\ d[i] = e[i]) \/ d[i] = Torn(k)
  <2>1. Torn(k) \in Stored
    BY JournalAssumption DEF Torn, Stored
  <2> QED
    BY <1>2, <1>3, <2>1, AppendProperties
<1>4. CASE d \in Kept \cup {disk}
  BY <1>2, <1>4 DEF Traced
<1>5. CASE d \notin Kept \cup {disk}
  <2>1. PICK e \in Kept, k \in Tears : d = Append(e, Torn(k))
    BY <1>5 DEF Images
  <2>2. (i \in DOMAIN e /\ d[i] = e[i]) \/ d[i] = Torn(k)
    BY <1>3, <2>1
  <2>3. CASE i \in DOMAIN e /\ d[i] = e[i]
    BY <1>2, <2>3 DEF Traced
  <2>4. CASE d[i] = Torn(k)
    BY <2>4 DEF Torn
  <2> QED
    BY <2>2, <2>3, <2>4
<1> QED
  BY <1>4, <1>5

LEMMA TracedCrash ==
  ASSUME TypeOK, Traced, Crash
  PROVE  Traced'
<1>1. PICK d \in Images \cup {disk} : disk' = d
  BY DEF Crash
<1>2. inbox' = <<>> /\ \A t \in Task : state'[t] \in Over
  BY DEF Crash, Over
<1>3. \A i \in DOMAIN d : /\ d[i].event \in Event \cup Tears
                          /\ d[i].event \notin Event => d[i].task = NoTask
  BY ImageKinds
<1> QED
  BY <1>1, <1>2, <1>3 DEF Traced

LEMMA TracedRestart ==
  ASSUME TypeOK, JournalInv, Traced, Restart
  PROVE  Traced'
<1>1. inbox' = <<>> /\ state' = state /\ \A t \in Task : state[t] \in Over
  BY DEF Restart, JournalInv, Past, Over
<1>2. disk' = <<>> \/ disk' = disk
  BY DEF Restart, Rotate, fileVars
<1> QED
  BY <1>1, <1>2 DEF Traced

\* While a task is in progress, the journal of this life can name it.
THEOREM ProgressIsTraced == Spec => []Traced
<1>1. Init => Traced
  BY DEF Init, Traced, Over
<1>2. TypeOK /\ JournalInv /\ Traced /\ [Next]_vars => Traced'
  <2> SUFFICES ASSUME TypeOK, JournalInv, Traced, [Next]_vars PROVE Traced'
    OBVIOUS
  <2>1. CASE UNCHANGED vars
    BY <2>1 DEF vars, history, fileVars, Traced, Coming, OnDisk, Whole, Line
  <2> QED
    BY <2>1, TracedLiving, TracedWriter, TracedCrash, TracedRestart DEF Next
<1> QED
  BY <1>1, <1>2, TypeCorrect, JournalInvariant, PTL DEF Spec

\* A body runs only once its record would survive: whatever a crash at this
\* step leaves of the file, the next replay finds what has begun and is not
\* settled (Journal::record_durable).  A tear through a character is excluded:
\* replay then refuses the whole file.
THEOREM BegunWillBeFound ==
  ASSUME "SplitChar" \notin Tears
  PROVE  Spec => []BegunIsFound
<1>1. TypeOK /\ JournalInv /\ Traced => BegunIsFound
  <2> SUFFICES ASSUME TypeOK, JournalInv, Traced, NEW t \in begun \ unlogged,
                      state[t] \notin {"Settled", "Gone"}, NEW d \in Images
               PROVE  t \in Replay(d).interrupted
    BY DEF BegunIsFound
  <2>1. t \in Task \ unlogged /\ state[t] \notin Over
    BY DEF JournalInv, Past, TypeOK, Over
  <2>2. Covered(t) /\ OnDisk(t)
    BY <2>1 DEF JournalInv, Recorded, NotComing, Traced, Coming
  <2>3. PICK i \in Whole(disk) :
          /\ disk[i] = Line("Submitted", t)
          /\ \A k \in DOMAIN disk : k > i /\ disk[k].task = t => disk[k].event = "Started"
    BY <2>2 DEF OnDisk
  <2>4. PICK j \in Whole(disk) : j > i /\ j <= synced /\ disk[j] = Line("Started", t)
    BY <2>2, <2>3 DEF Covered, Whole
  <2>5. PICK n \in synced .. Len(disk) :
          /\ d \in Seq(Stored) /\ n <= Len(d)
          /\ \A k \in 1 .. n : d[k] = disk[k]
          /\ \A k \in DOMAIN d : k > n => d[k].event \notin Event
    BY ImageShape
  <2>6. /\ DOMAIN d = 1 .. Len(d) /\ Len(d) \in Nat /\ n \in Nat /\ n <= Len(disk)
        /\ DOMAIN disk = 1 .. Len(disk) /\ Len(disk) \in Nat /\ synced \in Nat /\ synced <= n
    BY <2>5, StoredFacts
  <2>7. ASSUME NEW k \in Whole(disk), k <= n PROVE k \in Whole(d) /\ d[k] = disk[k]
    <3>1. k \in 1 .. n /\ disk[k].event \in Event /\ (k = 1 \/ disk[k - 1].event \in Event)
      BY <2>6, <2>7 DEF Whole
    <3>2. k = 1 \/ d[k - 1] = disk[k - 1]
      BY <2>5, <2>6, <3>1
    <3>3. k \in DOMAIN d /\ d[k] = disk[k]
      BY <2>5, <2>6, <3>1
    <3> QED
      BY <3>1, <3>2, <3>3 DEF Whole
  <2>8. i \in Nat /\ j \in Nat /\ i <= n /\ j <= n
    BY <2>3, <2>4, <2>6 DEF Whole
  <2>9. i \in Whole(d) /\ d[i] = Line("Submitted", t) /\ j \in About(d, t, i)
    BY <2>3, <2>4, <2>7, <2>8 DEF About, Line
  <2>10. ASSUME NEW k \in About(d, t, i) PROVE d[k].event = "Started"
    <3>1. k \in DOMAIN d /\ k > i /\ d[k].task = t /\ d[k].event \in Event
      BY DEF About, Whole
    <3>2. k <= n
      BY <2>5, <2>6, <3>1
    <3>3. k \in DOMAIN disk /\ d[k] = disk[k]
      BY <2>5, <2>6, <3>1, <3>2
    <3> QED
      BY <2>3, <3>1, <3>3
  <2>11. Readable(d)
    BY ImageKinds DEF Readable, Event
  <2>12. t \in Interrupted(d)
    BY <2>1, <2>9, <2>10 DEF Interrupted
  <2> QED
    BY <2>11, <2>12 DEF Replay
<1> QED
  BY <1>1, TypeCorrect, JournalInvariant, ProgressIsTraced, PTL

-----------------------------------------------------------------------------
\* The interrupted work the host has heard of, or will at this handshake.
Known == told \cup plan.interrupted

Submission(t) == Coming(t) \/ \E i \in DOMAIN disk : disk[i] = Line("Submitted", t)

\* Unless an old journal stayed in place, no record is left that could make a
\* later replay name it again.
News ==
  /\ \A t \in Known : t \in Task /\ state[t] # "Absent"
  /\ ~keptOld => \A t \in Known : ~Submission(t)
  /\ ~keptOld /\ ~greeted => told \cap plan.interrupted = {}

\* Only a submission puts one into the channel, and only of a new task.
LEMMA NewsSteps ==
  ASSUME TypeOK, JournalInv, News, NEW t \in Task, Submission(t)', state[t] # "Absent",
         Driver \/ Worker \/ Handshake \/ Writer \/ Crash
  PROVE  Submission(t)
<1>1. ASSUME Driver \/ Worker \/ Handshake PROVE Submission(t)
  <2>1. UNCHANGED fileVars
    BY <1>1 DEF Driver, Worker, Submit, LogStart, Settle, Spawn, Retry, Begin, Shutdown, Close, Handshake,
           driverFrame
  <2>2. inbox' = inbox \/ \E x \in Message : inbox' = Append(inbox, x) /\ x # Line("Submitted", t)
    <3>1. ASSUME NEW u \in Task, Submit(u)
          PROVE  \E x \in Message : inbox' = Append(inbox, x) /\ x # Line("Submitted", t)
      <4>1. u # t
        BY <3>1 DEF Submit
      <4>2. Line("Submitted", u) \in Message /\ Line("Submitted", u) # Line("Submitted", t)
        BY <4>1 DEF Line, Message, Event
      <4> QED
        BY <3>1, <4>2 DEF Submit, Send
    <3>2. ASSUME NEW u \in Task, LogStart(u) \/ Settle(u)
          PROVE  \E x \in Message : inbox' = Append(inbox, x) /\ x # Line("Submitted", t)
      <4>1. PICK e \in {"Started", "Settled"} : inbox' = Append(inbox, Line(e, u))
        BY <3>2 DEF LogStart, Settle, Send
      <4>2. Line(e, u) \in Message /\ Line(e, u) # Line("Submitted", t)
        BY DEF Line, Message, Event
      <4> QED
        BY <4>1, <4>2
    <3>3. CASE Close
      <4>1. Line("ShutDown", NoTask) \in Message /\ Line("ShutDown", NoTask) # Line("Submitted", t)
        BY DEF Line, Message, Event
      <4> QED
        BY <3>3, <4>1 DEF Close, Send
    <3>4. CASE \E u \in Task : Spawn(u) \/ Retry(u) \/ Begin(u)
      BY <3>4 DEF Spawn, Retry, Begin, driverFrame
    <3>5. CASE Shutdown \/ Handshake
      BY <3>5 DEF Shutdown, Handshake
    <3> QED
      BY <1>1, <3>1, <3>2, <3>3, <3>4, <3>5 DEF Driver, Worker
  <2>3. Coming(t)' => Coming(t)
    <3>1. CASE inbox' = inbox
      BY <3>1 DEF Coming, Line
    <3>2. ASSUME NEW x \in Message, inbox' = Append(inbox, x), x # Line("Submitted", t)
          PROVE  Coming(t)' => Coming(t)
      BY <3>2, StoredFacts, AppendProperties DEF Coming, Line
    <3> QED
      BY <2>2, <3>1, <3>2
  <2> QED
    BY <2>1, <2>3 DEF Submission, fileVars, Line
<1>2. ASSUME Writer PROVE Submission(t)
  <2> DEFINE h == Head(inbox)
  <2>1. inbox # <<>> /\ inbox' = Tail(inbox) /\ Acknowledge(h)
    BY <1>2 DEF Writer, Write, WriteFails, Discard
  <2>2. /\ h \in Message /\ h = inbox[1] /\ 1 \in DOMAIN inbox
        /\ \A k \in DOMAIN inbox' : k + 1 \in DOMAIN inbox /\ inbox'[k] = inbox[k + 1]
    BY <2>1, OrderedTail DEF JournalInv
  <2>3. Coming(t)' => Coming(t)
    BY <2>2 DEF Coming, Line
  <2>4. \/ disk' = disk
        \/ disk' = Append(disk, h)
        \/ \E k \in Tears : disk' = Append(disk, Torn(k))
    BY <1>2 DEF Writer, Write, WriteFails, Discard, fileVars
  <2>5. ASSUME NEW i \in DOMAIN disk', disk'[i] = Line("Submitted", t) PROVE Submission(t)
    <3>1. CASE disk' = disk
      BY <2>5, <3>1 DEF Submission
    <3>2. ASSUME NEW x \in Stored, disk' = Append(disk, x)
          PROVE  (i \in DOMAIN disk /\ disk'[i] = disk[i]) \/ disk'[i] = x
      BY <3>2, StoredFacts, AppendProperties
    <3>3. h \in Stored /\ \A k \in Tears : Torn(k) \in Stored /\ Torn(k) # Line("Submitted", t)
      BY <2>2, JournalAssumption DEF Message, Stored, Torn, Line
    <3>4. CASE disk' = Append(disk, h)
      <4>1. (i \in DOMAIN disk /\ disk'[i] = disk[i]) \/ disk'[i] = h
        BY <3>2, <3>3, <3>4
      <4>2. h = Line("Submitted", t) => Coming(t)
        BY <2>2 DEF Coming
      <4> QED
        BY <2>5, <4>1, <4>2 DEF Submission
    <3>5. CASE \E k \in Tears : disk' = Append(disk, Torn(k))
      BY <2>5, <3>2, <3>3, <3>5 DEF Submission
    <3> QED
      BY <2>4, <3>1, <3>4, <3>5
  <2>6. Coming(t)' \/ \E i \in DOMAIN disk' : disk'[i] = Line("Submitted", t)
    BY DEF Submission, Line
  <2> QED
    BY <2>3, <2>5, <2>6 DEF Submission
<1>3. ASSUME Crash PROVE Submission(t)
  <2>1. PICK d \in Images \cup {disk} : disk' = d
    BY <1>3 DEF Crash
  <2>2. inbox' = <<>>
    BY <1>3 DEF Crash
  <2>3. PICK i \in DOMAIN d : d[i] = Line("Submitted", t)
    BY <2>1, <2>2 DEF Submission, Coming, Line
  <2>4. CASE d = disk
    BY <2>3, <2>4 DEF Submission
  <2>5. CASE d \in Images
    <3>1. PICK n \in synced .. Len(disk) :
            /\ d \in Seq(Stored) /\ n <= Len(d)
            /\ \A k \in 1 .. n : d[k] = disk[k]
            /\ \A k \in DOMAIN d : k > n => d[k].event \notin Event
      BY <2>5, ImageShape
    <3>2. i \in 1 .. n /\ i \in DOMAIN disk
      BY <2>3, <3>1, StoredFacts DEF Event, Line
    <3> QED
      BY <2>3, <3>1, <3>2 DEF Submission
  <2> QED
    BY <2>4, <2>5
<1> QED
  BY <1>1, <1>2, <1>3

\* Of work the host was told of, or is about to be, no record is left from
\* which a later replay could name it again, unless an old journal stayed.
THEOREM NewsInvariant == Spec => []News
<1>1. Init => News
  BY DEF Init, News, Known, NoPlan
<1>2. TypeOK /\ JournalInv /\ News /\ [Next]_vars => News'
  <2> SUFFICES ASSUME TypeOK, JournalInv, News, [Next]_vars PROVE News'
    OBVIOUS
  <2>1. CASE Driver \/ Worker \/ Handshake \/ Writer \/ Crash
    <3>1. Known' \subseteq Known /\ keptOld' = keptOld
      <4>1. CASE Handshake
        BY <4>1 DEF Handshake, Known
      <4>2. CASE Crash
        BY <4>2 DEF Crash, Known, NoPlan, history
      <4>3. CASE Writer
        BY <4>3 DEF Writer, Write, WriteFails, Discard, writerFrame, Known
      <4>4. CASE Driver \/ Worker
        BY <4>4 DEF Driver, Worker, Submit, LogStart, Settle, Spawn, Retry, Begin, Shutdown, Close,
                    driverFrame, history, Known
      <4> QED
        BY <2>1, <4>1, <4>2, <4>3, <4>4
    <3>2. \A t \in Task : state[t] # "Absent" => state'[t] # "Absent"
      <4>1. CASE Writer
        <5>1. /\ inbox # <<>> /\ inbox' = Tail(inbox) /\ Acknowledge(Head(inbox))
          BY <4>1 DEF Writer, Write, WriteFails, Discard
        <5> QED
          BY <5>1 DEF Acknowledge, TypeOK
      <4>2. CASE Crash
        BY <4>2 DEF Crash
      <4>3. CASE Driver \/ Worker
        <5>1. \/ state' = state
              \/ \E t \in Task, s \in {"Queued", "Spawned", "Logging", "Running", "Settled"} :
                   state' = [state EXCEPT ![t] = s]
          BY <4>3 DEF Driver, Worker, Submit, LogStart, Settle, Spawn, Retry, Begin, Shutdown, Close
        <5> QED
          BY <5>1 DEF TypeOK
      <4>4. CASE Handshake
        BY <4>4 DEF Handshake
      <4> QED
        BY <2>1, <4>1, <4>2, <4>3, <4>4
    <3>3. ~keptOld' /\ ~greeted' => told' \cap plan'.interrupted = {}
      <4>1. CASE Handshake
        BY <4>1 DEF Handshake
      <4>2. CASE Crash
        BY <4>2 DEF Crash, NoPlan
      <4>3. CASE Writer \/ Driver \/ Worker
        <5>1. UNCHANGED <<told, plan, greeted>>
          BY <4>3 DEF Writer, Write, WriteFails, Discard, writerFrame, Driver, Worker, Submit, LogStart,
                      Settle, Spawn, Retry, Begin, Shutdown, Close, driverFrame, history
        <5> QED
          BY <3>1, <5>1 DEF News
      <4> QED
        BY <2>1, <4>1, <4>2, <4>3
    <3>4. ~keptOld' => \A t \in Known' : ~Submission(t)'
      <4> SUFFICES ASSUME ~keptOld', NEW t \in Known', Submission(t)' PROVE FALSE
        BY DEF Submission, Coming, Line
      <4>1. t \in Task /\ state[t] # "Absent" /\ ~Submission(t)
        BY <3>1 DEF News
      <4> QED
        BY <2>1, <4>1, NewsSteps
    <3>5. \A t \in Known' : t \in Task /\ state'[t] # "Absent"
      BY <3>1, <3>2 DEF News
    <3> QED
      BY <3>3, <3>4, <3>5 DEF News
  <2>2. CASE Restart
    <3>1. /\ life = "down" /\ plan' = Replay(disk) /\ greeted' = FALSE
          /\ UNCHANGED <<state, inbox, told>> /\ inbox = <<>>
          /\ keptOld' \/ (disk' = <<>> /\ keptOld' = keptOld)
      BY <2>2 DEF Restart, Rotate, JournalInv, Past
    <3>2. ASSUME NEW t \in plan'.interrupted
          PROVE  t \in Task /\ state[t] # "Absent" /\ Submission(t)
      <4>1. t \in Interrupted(disk)
        BY <3>1, <3>2 DEF Replay, NoPlan
      <4>2. PICK i \in DOMAIN disk : disk[i] = Line("Submitted", t)
        BY <4>1 DEF Interrupted, Whole
      <4> QED
        BY <4>2 DEF Submission, JournalInv, Past, Line
    <3>3. \A t \in Known' : t \in Task /\ state'[t] # "Absent"
      BY <3>1, <3>2 DEF Known, News
    <3>4. ~keptOld' => \A t \in Known' : ~Submission(t)'
      BY <3>1 DEF Submission, Coming, Line
    <3>5. ~keptOld' => told' \cap plan'.interrupted = {}
      BY <3>1, <3>2 DEF News, Known
    <3> QED
      BY <3>3, <3>4, <3>5 DEF News
  <2>3. CASE UNCHANGED vars
    BY <2>3 DEF vars, history, fileVars, News, Known, Submission, Coming, Line
  <2> QED
    BY <2>1, <2>2, <2>3 DEF Next
<1> QED
  BY <1>1, <1>2, TypeCorrect, JournalInvariant, PTL DEF Spec

\* The host hears of interrupted work once, however often the runtime dies,
\* unless a journal could not be moved aside (Journal::rotate).
THEOREM HostIsToldOnce == Spec => ToldOnce
<1>1. News /\ [Next]_vars => [~greeted /\ greeted' => keptOld \/ told \cap plan.interrupted = {}]_vars
  BY DEF News
<1> QED
  BY <1>1, NewsInvariant, PTL DEF Spec, ToldOnce
=============================================================================
