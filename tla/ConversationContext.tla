------------------------ MODULE ConversationContext ------------------------
(* What the model is sent of a long conversation, and which conversation     *)
(* that is.  The operators are contextCompress.ts: which old reads are       *)
(* omitted, where the history is cut and summarised, what a request carries. *)
(* The actions are the life of that plan in chatCompaction.ts and            *)
(* useChatCompaction.ts: it is made at the start of a round, may wait for a  *)
(* summary, and is kept in one box of the window (`ref`), in a cache and on  *)
(* disk, while the user opens other conversations.                           *)
(*                                                                           *)
(* Abstracted: text is a size class; the system message, thinking, images    *)
(* and the standing reminders, which ride along, are left out; a summary is  *)
(* the set of messages it was made from.                                     *)
EXTENDS Naturals, FiniteSets, SequencesExt

CONSTANTS Conv,          \* conversations
          NoConv,        \* the empty view of "new conversation"
          Batch,         \* the call lists an assistant message may carry
          Sizes,         \* of what a read returns: small, large, or huge (over the ceiling)
          KeepTail,      \* user turns a summary leaves verbatim (KEEP_TAIL_TURNS)
          KeepRounds,    \* rounds that keep their results (KEEP_ROUNDS)
          Trigger, Target,  \* sizes that start compaction and that it aims at
          LargeWeight,   \* size of a large result; every other message counts 1
          MaxReuse,      \* rounds one summary serves (MAX_SUMMARY_REUSE)
          MaxMade,       \* bound: messages ever written in each conversation
          MaxSwitches,   \* bound: times the user opens a conversation or an empty one
          MaxMishaps     \* bound: edits, stops, manual compactions and restarts

ASSUME BoundsAssumption ==
  /\ KeepTail \in Nat \ {0} /\ KeepRounds \in Nat \ {0}
  /\ Target <= Trigger /\ NoConv \notin Conv

(* What the batches hold: calls with the lines they are about.               *)
Calls == UNION {ToSet(calls) : calls \in Batch}

ASSUME BatchAssumption ==
  /\ Batch \subseteq Seq(Calls) \ {<<>>}
  /\ \A call \in Calls : call.tool \in {"read", "write"} /\ {call.first, call.last} \subseteq Nat

VARIABLES buffer,    \* the messages of each conversation, on disk and in its round
          made,      \* how many messages each conversation has ever had
          round,     \* the round each conversation is in
          screen,    \* convIdRef: the conversation on screen
          swap,      \* a switch that has set `screen` and not yet restored the rest
          ref,       \* compactionRef: one box for whatever is on screen
          manual,    \* manualCompactRef
          cache,     \* compactionCacheRef
          disk,      \* the plan stored with each conversation
          switches, mishaps
vars == <<buffer, made, round, screen, swap, ref, manual, cache, disk, switches, mishaps>>

-----------------------------------------------------------------------------
(* Messages.  A result carries its call, which indexCalls looks up by id.    *)

User(n) == [role |-> "user", id |-> n]
Assistant(n, calls) == [role |-> "assistant", id |-> n, calls |-> calls, empty |-> FALSE]
EmptyReply(n) == [role |-> "assistant", id |-> n, calls |-> <<>>, empty |-> TRUE]
Result(n, k, call, size) == [role |-> "tool", id |-> <<n, k>>, call |-> call, size |-> size]

Read(file, first, last) == [tool |-> "read", file |-> file, first |-> first, last |-> last]
Write(file) == [tool |-> "write", file |-> file, first |-> 0, last |-> 0]

Covers(outer, inner) == outer.first <= inner.first /\ outer.last >= inner.last

(* A write, or a read of at least the same lines, makes an earlier read stale. *)
Supersedes(call, read) ==
  /\ call.file = read.file
  /\ call.tool = "read" => Covers(call, read)

(* Results worth omitting; a result too large to send is a long note.        *)
Long(m) == m.role = "tool" /\ m.call.tool = "read" /\ m.size # "small"

(* Mutant: calls before a read count as well as those after it.              *)
Stale_unordered(msgs, from) ==
  {msgs[i].id : i \in {i \in from..Len(msgs) :
     /\ Long(msgs[i])
     /\ \E j \in (from..Len(msgs)) \ {i - 1} :
          /\ msgs[j].role = "assistant"
          /\ \E k \in DOMAIN msgs[j].calls : Supersedes(msgs[j].calls[k], msgs[i].call)}}

(* computeStaleStubs: the reads, among messages `from` and later, that a     *)
(* call of a later message makes stale.                                      *)
Stale(msgs, from) ==
  {msgs[i].id : i \in {i \in from..Len(msgs) :
     /\ Long(msgs[i])
     /\ \E j \in (i + 1)..Len(msgs) :
          /\ msgs[j].role = "assistant"
          /\ \E k \in DOMAIN msgs[j].calls : Supersedes(msgs[j].calls[k], msgs[i].call)}}

(* What a message weighs once results over the ceiling are withheld and the  *)
(* omitted ones replaced by their note.                                      *)
Weight(m, omitted) ==
  IF m.role = "tool" /\ m.size = "large" /\ m.id \notin omitted THEN LargeWeight ELSE 1
Tokens(msgs, omitted) == FoldLeft(LAMBDA sum, m : sum + Weight(m, omitted), 0, msgs)

Turns(msgs) == {i \in DOMAIN msgs : msgs[i].role = "user"}

(* How many messages precede the last `keep` user turns; none while there    *)
(* are no more turns than that.                                              *)
Before(msgs, keep) ==
  LET latest(i) == Cardinality({j \in Turns(msgs) : j >= i}) = keep
  IN IF Cardinality(Turns(msgs)) <= keep THEN 0
     ELSE (CHOOSE i \in Turns(msgs) : latest(i)) - 1

From(msgs, covers) == SubSeq(msgs, covers + 1, Len(msgs))

-----------------------------------------------------------------------------
(* Planning.                                                                 *)

NoPlan == [frozen |-> 0, covers |-> 0, stubs |-> {}]

(* A plan with the summary it goes with (CompactionState).                   *)
StateOf(plan, summary, reuse) ==
  [frozen |-> plan.frozen, covers |-> plan.covers, stubs |-> plan.stubs,
   summary |-> summary, reuse |-> reuse]
Blank == StateOf(NoPlan, {}, 0)

PlanOf(msgs, covers) ==
  [frozen |-> Len(msgs), covers |-> covers, stubs |-> Stale(msgs, covers + 1)]

(* The old boundary still leaves a request under the trigger.                *)
Holds(msgs, prev) ==
  /\ prev.summary # {} /\ prev.covers \in 1..Len(msgs)
  /\ 1 + Tokens(From(msgs, prev.covers), Stale(msgs, prev.covers + 1)) <= Trigger

Needed(msgs, force) == force \/ Tokens(msgs, {}) > Trigger

(* planCompaction, once it is needed.                                        *)
Plan(msgs, prev, force) ==
  IF ~force /\ Tokens(msgs, Stale(msgs, 1)) <= Target THEN PlanOf(msgs, 0)
  ELSE IF ~force /\ Holds(msgs, prev) THEN PlanOf(msgs, prev.covers)
  ELSE PlanOf(msgs, Before(msgs, KeepTail))

Ids(msgs) == {msgs[i].id : i \in DOMAIN msgs}

-----------------------------------------------------------------------------
(* The request.                                                              *)

(* The form a message has on the wire before the plan applies: results of    *)
(* completed rounds are released, oversized ones withheld, and the text an   *)
(* edit carried is dropped with its round.                                   *)
Form(msgs, i) ==
  LET m == msgs[i]
      over == i <= Before(msgs, KeepRounds)
      edits == m.role = "assistant" /\ \E k \in DOMAIN m.calls : m.calls[k].tool = "write"
  IN CASE over /\ (Long(m) \/ edits) -> "released"
       [] m.role = "tool" /\ m.size = "huge" -> "withheld"
       [] m.role = "tool" /\ m.call.tool = "write" -> "trimmed"
       [] OTHER -> "whole"

(* What a summary was made of, and how many messages it stands for.          *)
NoBanner == [of |-> {}, covers |-> 0]

(* Mutant: reads are judged anew for each request, not frozen with the plan. *)
Entry_unfrozen(msgs, i, plan) ==
  [m |-> msgs[i], banner |-> NoBanner,
   form |-> IF msgs[i].id \in Stale(msgs, 1) THEN "stub" ELSE Form(msgs, i)]

Entry(msgs, i, plan) ==
  LET stubbed == msgs[i].role = "tool" /\ i <= plan.frozen /\ msgs[i].id \in plan.stubs
  IN [m |-> msgs[i], form |-> IF stubbed THEN "stub" ELSE Form(msgs, i), banner |-> NoBanner]

(* foldSummary: the summary joins the first kept user message or becomes one. *)
Fold(entries, banner) ==
  IF entries # <<>> /\ entries[1].m.role = "user"
  THEN [entries EXCEPT ![1].banner = banner]
  ELSE <<[m |-> User("summary"), form |-> "whole", banner |-> banner]>> \o entries

(* buildWireContext.                                                         *)
BuildWire(msgs, plan) ==
  LET frozen == IF plan.frozen < Len(msgs) THEN plan.frozen ELSE Len(msgs)
      all    == [i \in 1..Len(msgs) |-> Entry(msgs, i, plan)]
      head   == SubSeq(all, 1, frozen)
      banner == [of |-> plan.summary, covers |-> plan.covers]
  IN (IF plan.summary # {} THEN Fold(From(head, plan.covers), banner) ELSE head)
     \o From(all, frozen)

(* The result a call got in the run of results right after its message, or   *)
(* the note that it has none.                                                *)
AnswerTo(wire, i, k) ==
  LET id == <<wire[i].m.id, k>>
      answers == {j \in (i + 1)..Len(wire) :
                    /\ \A x \in (i + 1)..j : wire[x].m.role = "tool"
                    /\ wire[j].m.id = id}
  IN IF answers # {} THEN wire[CHOOSE j \in answers : \A x \in answers : x <= j]
     ELSE [m |-> Result(id[1], k, wire[i].m.calls[k], "small"), form |-> "none", banner |-> NoBanner]

(* Mutant: a call left unanswered is sent as it is.                          *)
Sanitize_unfilled(wire) == SelectSeq(wire, LAMBDA e : e.m.role # "assistant" \/ ~e.m.empty)

(* sanitizeToolCallPairs: each call followed by its answer; results without  *)
(* a call and replies without content are dropped.                           *)
Sanitize(wire) ==
  FlattenSeq([i \in DOMAIN wire |->
    CASE wire[i].m.role = "user" -> <<wire[i]>>
      [] wire[i].m.role = "tool" -> <<>>
      [] wire[i].m.role = "assistant" /\ wire[i].m.empty -> <<>>
      [] OTHER -> <<wire[i]>> \o [k \in DOMAIN wire[i].m.calls |-> AnswerTo(wire, i, k)]])

Request(msgs, plan) == Sanitize(BuildWire(msgs, plan))

-----------------------------------------------------------------------------
(* The window.                                                               *)

Idle == [phase |-> "idle", plan |-> NoPlan, prior |-> {}, force |-> FALSE,
         state |-> Blank, sent |-> <<>>]
NoEntry == [state |-> Blank, manual |-> FALSE, kept |-> FALSE]
Kept(state, byHand) == [state |-> state, manual |-> byHand, kept |-> TRUE]

Init ==
  /\ buffer = [c \in Conv |-> <<>>] /\ made = [c \in Conv |-> 0]
  /\ round = [c \in Conv |-> Idle]
  /\ screen = NoConv /\ swap = NoConv
  /\ ref = Blank /\ manual = FALSE
  /\ cache = [c \in Conv |-> NoEntry] /\ disk = [c \in Conv |-> NoEntry]
  /\ switches = 0 /\ mishaps = 0

Next1(c) == <<c, made[c] + 1>>
CanWrite(c) == made[c] < MaxMade[c]
Append1(c, m) == /\ buffer' = [buffer EXCEPT ![c] = Append(@, m)]
                 /\ made' = [made EXCEPT ![c] = @ + 1]

Mishap == mishaps < MaxMishaps /\ mishaps' = mishaps + 1

(* landUserMessage: the message goes to the conversation on screen; from the *)
(* empty view it starts one.  Then the round gathers its tools, which takes  *)
(* a while.                                                                  *)
Send(c) ==
  /\ CanWrite(c) /\ round[c].phase = "idle" /\ swap = NoConv
  /\ screen = c \/ (screen = NoConv /\ buffer[c] = <<>>)
  /\ screen' = c
  /\ Append1(c, User(Next1(c)))
  /\ round' = [round EXCEPT ![c] = [Idle EXCEPT !.phase = "starting"]]
  /\ UNCHANGED <<swap, ref, manual, cache, disk, switches, mishaps>>

(* commitCompaction: into the box while the conversation is on screen, into  *)
(* its cache entry otherwise; on disk in both cases.                         *)
Commit(c, state, byHand) ==
  LET entry == Kept(state, IF c = screen THEN byHand ELSE cache[c].manual)
  IN /\ disk' = [disk EXCEPT ![c] = [entry EXCEPT !.kept = state # Blank]]
     /\ manual' = byHand
     /\ IF c = screen THEN ref' = state /\ UNCHANGED cache
                      ELSE cache' = [cache EXCEPT ![c] = entry] /\ UNCHANGED ref

AfterPlan(force) == IF force THEN "idle" ELSE "calling"

Reusable(plan) == ref.summary # {} /\ ref.covers = plan.covers /\ ref.reuse < MaxReuse

(* The messages the summariser is given, with the summary it continues.      *)
PriorSummary(plan) == IF ref.covers \in 1..(plan.covers - 1) THEN ref.summary ELSE {}
FirstToSummarise(plan) == IF PriorSummary(plan) # {} THEN ref.covers + 1 ELSE 1

(* maybeCompact up to its await.  The plan continues the one in the box,     *)
(* whichever conversation that belongs to.                                   *)
Settle(c, plan, state, force) ==
  /\ Commit(c, state, manual \/ force)
  /\ round' = [round EXCEPT ![c] = [@ EXCEPT !.phase = AfterPlan(force), !.plan = plan,
                                             !.state = state]]

Compact(c, force) ==
  LET plan == Plan(buffer[c], ref, force)
  IN /\ Needed(buffer[c], force)
     /\ \/ /\ plan.covers = 0
           /\ Settle(c, plan, StateOf(plan, {}, 0), force)
        \/ /\ plan.covers > 0 /\ Reusable(plan)
           /\ Settle(c, plan, StateOf(plan, ref.summary, ref.reuse + 1), force)
        \/ /\ plan.covers > 0 /\ ~Reusable(plan)
           /\ round' = [round EXCEPT ![c] =
                [Idle EXCEPT !.phase = "summarising", !.plan = plan, !.force = force,
                   !.prior = PriorSummary(plan)
                             \cup Ids(SubSeq(buffer[c], FirstToSummarise(plan), plan.covers))]]
           /\ UNCHANGED <<ref, manual, cache, disk>>

PlanRound(c) ==
  /\ round[c].phase = "starting"
  /\ Compact(c, FALSE)
  /\ UNCHANGED <<buffer, made, screen, swap, switches, mishaps>>

(* Short enough: the plan is dropped, unless the user asked for it.          *)
NoCompaction(c) ==
  /\ round[c].phase = "starting" /\ ~Needed(buffer[c], FALSE)
  /\ IF manual
     THEN /\ round' = [round EXCEPT ![c].phase = "calling", ![c].state = ref]
          /\ UNCHANGED <<ref, manual, cache, disk>>
     ELSE /\ round' = [round EXCEPT ![c].phase = "calling"]
          /\ Commit(c, Blank, FALSE)
  /\ UNCHANGED <<buffer, made, screen, swap, switches, mishaps>>

(* compactNow: the button, for the conversation on screen.                   *)
CompactNow(c) ==
  /\ screen = c /\ swap = NoConv /\ round[c].phase = "idle" /\ buffer[c] # <<>>
  /\ Mishap
  /\ Compact(c, TRUE)
  /\ UNCHANGED <<buffer, made, screen, swap, switches>>

(* The summariser answers or fails; without a text the plan only omits.      *)
Summarised(c) ==
  /\ round[c].phase = "summarising"
  /\ \E text \in {round[c].prior, {}} :
       LET r == round[c]
           state == StateOf(r.plan, text, 0)
       IN /\ Commit(c, state, manual \/ r.force)
          /\ round' = [round EXCEPT ![c] = [Idle EXCEPT !.phase = AfterPlan(r.force),
                                              !.plan = r.plan, !.state = state]]
  /\ UNCHANGED <<buffer, made, screen, swap, switches, mishaps>>

(* One request and its reply: tool calls, nothing at all, or the final text. *)
Ask(c) ==
  /\ round[c].phase = "calling" /\ CanWrite(c)
  /\ LET sent == Request(buffer[c], round[c].state)
         reply(phase, m) == /\ Append1(c, m)
                            /\ round' = [round EXCEPT ![c].phase = phase, ![c].sent = sent]
     IN \/ \E calls \in Batch : reply("running", Assistant(Next1(c), calls))
        \/ reply("calling", EmptyReply(Next1(c)))
        \/ /\ Append1(c, Assistant(Next1(c), <<>>))
           /\ round' = [round EXCEPT ![c] = [Idle EXCEPT !.sent = sent]]
  /\ UNCHANGED <<screen, swap, ref, manual, cache, disk, switches, mishaps>>

(* The assistant message the round is executing, and the call to answer next. *)
Open(c) == CHOOSE i \in DOMAIN buffer[c] :
             /\ buffer[c][i].role = "assistant"
             /\ \A j \in (i + 1)..Len(buffer[c]) : buffer[c][j].role = "tool"

(* A call returns; after the last one the model is asked again.              *)
ToolResult(c) ==
  /\ round[c].phase = "running" /\ CanWrite(c)
  /\ LET i == Open(c)
         k == Len(buffer[c]) - i + 1
         m == buffer[c][i]
     IN /\ \E size \in IF m.calls[k].tool = "read" THEN Sizes ELSE {"small"} :
             Append1(c, Result(m.id, k, m.calls[k], size))
        /\ round' = [round EXCEPT ![c].phase = IF k = Len(m.calls) THEN "calling" ELSE "running"]
  /\ UNCHANGED <<screen, swap, ref, manual, cache, disk, switches, mishaps>>

(* What the calls still open are answered with when their round is cut short. *)
Placeholders(c) ==
  LET i == Open(c)
      m == buffer[c][i]
  IN [n \in 1..(Len(m.calls) - (Len(buffer[c]) - i)) |->
        LET k == Len(buffer[c]) - i + n IN Result(m.id, k, m.calls[k], "small")]

(* The round is stopped, or its request fails: what was said stays.  A       *)
(* summary under way counts as failed.                                       *)
Stop(c) ==
  /\ Mishap
  /\ round' = [round EXCEPT ![c] = Idle]
  /\ \/ round[c].phase = "calling" /\ UNCHANGED <<buffer, ref, manual, cache, disk>>
     \/ /\ round[c].phase = "running"
        /\ buffer' = [buffer EXCEPT ![c] = @ \o Placeholders(c)]
        /\ UNCHANGED <<ref, manual, cache, disk>>
     \/ /\ round[c].phase = "summarising"
        /\ Commit(c, StateOf(round[c].plan, {}, 0), manual \/ round[c].force)
        /\ UNCHANGED buffer
  /\ UNCHANGED <<made, screen, swap, switches>>

(* editUser, regenerate: the history is cut at a user turn, its plan dropped *)
(* and the message sent again.                                               *)
Edit(c) ==
  /\ screen = c /\ swap = NoConv /\ round[c].phase = "idle" /\ CanWrite(c)
  /\ Mishap
  /\ \E i \in Turns(buffer[c]) :
       buffer' = [buffer EXCEPT ![c] = Append(SubSeq(@, 1, i - 1), User(Next1(c)))]
  /\ made' = [made EXCEPT ![c] = @ + 1]
  /\ ref' = Blank /\ manual' = FALSE
  /\ disk' = [disk EXCEPT ![c] = NoEntry]
  /\ round' = [round EXCEPT ![c] = [Idle EXCEPT !.phase = "starting"]]
  /\ UNCHANGED <<screen, swap, cache, switches>>

(* snapshotCompaction, when a conversation is left for another.              *)
Snapshot ==
  cache' = IF screen = NoConv THEN cache ELSE [cache EXCEPT ![screen] = Kept(ref, manual)]

(* swapInConversation as far as its wait for the working directory.  It may  *)
(* overtake a switch that is still waiting, which then stops where it is.    *)
SwitchTo(c) ==
  /\ switches < MaxSwitches /\ switches' = switches + 1
  /\ screen # c /\ buffer[c] # <<>>
  /\ Snapshot
  /\ screen' = c /\ swap' = c
  /\ UNCHANGED <<buffer, made, round, ref, manual, disk, mishaps>>

(* restoreCompaction: the cache before the disk.                             *)
Restored(c) == IF cache[c].kept THEN cache[c] ELSE disk[c]

Switched(c) ==
  /\ swap = c
  /\ swap' = NoConv
  /\ ref' = Restored(c).state /\ manual' = Restored(c).manual
  /\ UNCHANGED <<buffer, made, round, screen, cache, disk, switches, mishaps>>

NewChat ==
  /\ switches < MaxSwitches /\ switches' = switches + 1
  /\ screen' = NoConv /\ swap' = NoConv
  /\ ref' = Blank /\ manual' = FALSE
  /\ UNCHANGED <<buffer, made, round, cache, disk, mishaps>>

(* The app is closed or dies: what is on disk remains.                       *)
Restart ==
  /\ Mishap
  /\ round' = [c \in Conv |-> Idle]
  /\ screen' = NoConv /\ swap' = NoConv /\ ref' = Blank /\ manual' = FALSE
  /\ cache' = [c \in Conv |-> NoEntry]
  /\ UNCHANGED <<buffer, made, disk, switches>>

Next ==
  \/ \E c \in Conv : \/ Send(c) \/ PlanRound(c) \/ NoCompaction(c) \/ CompactNow(c)
                     \/ Summarised(c) \/ Ask(c) \/ ToolResult(c) \/ Stop(c) \/ Edit(c)
                     \/ SwitchTo(c) \/ Switched(c)
  \/ NewChat \/ Restart

Spec == Init /\ [][Next]_vars

-----------------------------------------------------------------------------
(* Properties.                                                               *)

(* Every request is one a provider accepts: each call is followed by exactly *)
(* its answers in its order, no answer stands without its call, and no       *)
(* assistant message is empty, whatever was stopped, cut, edited or lost.    *)
WirePaired ==
  \A c \in Conv : LET w == round[c].sent IN \A i \in DOMAIN w :
    CASE w[i].m.role = "assistant" ->
           /\ ~w[i].m.empty
           /\ \A k \in DOMAIN w[i].m.calls :
                i + k \in DOMAIN w /\ w[i + k].m.id = <<w[i].m.id, k>>
      [] w[i].m.role = "tool" ->
           \E h \in 1..(i - 1) : /\ w[h].m.role = "assistant"
                                 /\ i - h \in DOMAIN w[h].m.calls
      [] OTHER -> TRUE

(* Within a round each request extends the one before it without changing a  *)
(* message already sent: the provider's cached prefix stays good, whatever   *)
(* plan the round was given and whatever the user opens meanwhile.           *)
PrefixStable ==
  [][\A c \in Conv :
       round[c].phase = "calling" /\ round[c].sent # <<>> /\ round'[c].sent # <<>>
         => IsPrefix(round[c].sent, round'[c].sent)]_vars

(* A plan omits a read only when its reader has a later one to go by: a      *)
(* write of the file, or a read of the same lines that is itself not         *)
(* omitted.  Chains of rereads never omit each other's evidence, and a       *)
(* summary boundary never swallows it.                                       *)
OmissionsAreCovered ==
  \A c \in Conv : LET plan == round[c].plan
                      msgs == buffer[c]
                  IN \A i \in 1..plan.frozen :
                       msgs[i].role = "tool" /\ msgs[i].id \in plan.stubs =>
    \E j \in (i + 1)..plan.frozen :
      /\ j > plan.covers /\ msgs[j].role = "assistant"
      /\ \E k \in DOMAIN msgs[j].calls :
           /\ Supersedes(msgs[j].calls[k], msgs[i].call)
           /\ <<msgs[j].id, k>> \notin plan.stubs

(* The summary a request carries was made from exactly the messages it       *)
(* replaces: of this conversation, and of its history as it is now.          *)
SummaryIsFaithful ==
  \A c \in Conv : \A i \in DOMAIN round[c].sent :
    LET banner == round[c].sent[i].banner
    IN banner.of = {buffer[c][n].id : n \in DOMAIN buffer[c] \cap (1..banner.covers)}
=============================================================================
