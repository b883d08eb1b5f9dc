--------------------------- MODULE ContextProofs ---------------------------
(***************************************************************************)
(* Theorems about the context of a conversation, for every set of          *)
(* conversations, every call an assistant may make and every threshold.    *)
(***************************************************************************)
EXTENDS ConversationContext, FiniteSetTheorems, SequenceTheorems, TLAPS

-----------------------------------------------------------------------------
(* Numbers.                                                                *)

\* A set of numbers has a least one: strict inclusion of their initial
\* segments is well-founded.
LEMMA Least ==
  ASSUME NEW S, S \subseteq Nat, S # {}
  PROVE  \E n \in S : \A m \in S : n <= m
<1> DEFINE R == StrictSubsetOrdering(Nat)
           segments == {0..n : n \in S}
<1>1. segments \subseteq FiniteSubsetsOf(Nat) /\ segments # {}
  <2>1. \A n \in Nat : 0..n \subseteq Nat /\ IsFiniteSet(0..n)
    BY FS_Interval
  <2> QED
    BY <2>1 DEF FiniteSubsetsOf
<1>2. PICK x \in segments : \A y \in segments : <<y, x>> \notin R
  <2> HIDE DEF R, segments
  <2>1. IsWellFoundedOn(R, FiniteSubsetsOf(Nat))
    BY FS_StrictSubsetOrderingWellFounded DEF R
  <2> QED
    BY <1>1, <2>1, WFMin
<1>3. PICK n \in S : x = 0..n
  BY <1>2
<1>4. ASSUME NEW m \in S, m < n PROVE FALSE
  <2>1. 0..m \in segments /\ 0..m \subseteq 0..n /\ 0..m # 0..n
    BY <1>4
  <2>2. <<0..m, 0..n>> \in R
    BY <2>1 DEF StrictSubsetOrdering
  <2> QED
    BY <1>2, <1>3, <2>1, <2>2
<1> QED
  BY <1>4

\* A bounded one has a greatest.
LEMMA Greatest ==
  ASSUME NEW S, NEW b \in Nat, S \subseteq 0..b, S # {}
  PROVE  \E n \in S : \A m \in S : m <= n
<1> DEFINE T == {b - n : n \in S}
<1>1. PICK d \in T : \A e \in T : d <= e
  <2>1. \A n \in S : n \in 0..b /\ b - n \in Nat
    OBVIOUS
  <2>2. T \subseteq Nat /\ T # {}
    BY <2>1
  <2> QED
    BY <2>2, Least
<1>2. PICK n \in S : d = b - n
  BY <1>1
<1>3. \A m \in S : d <= b - m
  BY <1>1
<1>4. \A m \in S : m \in Int
  OBVIOUS
<1> QED
  BY <1>2, <1>3, <1>4

\* What holds at 0 and is passed on holds of every number.
LEMMA Induction ==
  ASSUME NEW S, 0 \in S, \A n \in Nat : n \in S => n + 1 \in S
  PROVE  Nat \subseteq S
<1> SUFFICES ASSUME Nat \ S # {} PROVE FALSE
  OBVIOUS
<1>1. PICK n \in Nat \ S : \A m \in Nat \ S : n <= m
  BY Least
<1>2. n - 1 \in Nat /\ n - 1 \in S
  BY <1>1
<1> QED
  BY <1>1, <1>2

\* Counted from above, a finite set of numbers has one in every place.
LEMMA Ranks ==
  ASSUME NEW S, S \subseteq Nat, IsFiniteSet(S), NEW n \in 1..Cardinality(S)
  PROVE  \E i \in S : Cardinality({j \in S : j >= i}) = n
<1> DEFINE up(i) == {j \in S : j >= i}
           T == 1..Cardinality(S)
           rank == [i \in S |-> Cardinality(up(i))]
<1>1. Cardinality(S) \in Nat /\ IsFiniteSet(T) /\ Cardinality(T) = Cardinality(S)
  BY FS_CardinalityType, FS_Interval
<1>2. ASSUME NEW i \in S PROVE IsFiniteSet(up(i)) /\ Cardinality(up(i)) \in T
  <2>1. /\ IsFiniteSet(up(i)) /\ Cardinality(up(i)) <= Cardinality(S)
        /\ Cardinality(up(i)) \in Nat
    BY FS_Subset, FS_CardinalityType
  <2>2. up(i) # {}
    OBVIOUS
  <2>3. Cardinality(up(i)) # 0
    BY <2>1, <2>2, FS_EmptySet
  <2> QED
    BY <1>1, <2>1, <2>3
<1>3. ASSUME NEW i \in S, NEW j \in S, i < j PROVE Cardinality(up(i)) # Cardinality(up(j))
  <2>0. i \in Nat /\ j \in Nat
    OBVIOUS
  <2>1. up(j) \subseteq up(i) /\ i \in up(i) \ up(j)
    <3>1. \A x \in S : x \in Nat /\ (x >= j => x >= i)
      BY <1>3, <2>0
    <3>2. up(j) \subseteq up(i)
      BY <3>1
    <3>3. i >= i /\ ~(i >= j)
      BY <1>3, <2>0
    <3> QED
      BY <3>2, <3>3
  <2> QED
    BY <1>2, <2>1, FS_Subset
<1>4. rank \in Injection(S, T)
  <2>1. rank \in [S -> T]
    BY <1>2
  <2>2. \A i, j \in S : rank[i] = rank[j] => i = j
    <3> SUFFICES ASSUME NEW i \in S, NEW j \in S, i # j PROVE rank[i] # rank[j]
      OBVIOUS
    <3>1. i < j \/ j < i
      OBVIOUS
    <3> QED
      BY <1>3, <3>1
  <2> QED
    BY <2>1, <2>2 DEF Injection, IsInjective
<1>5. rank \in Surjection(S, T)
  <2> HIDE DEF rank, T
  <2> QED
    BY <1>1, <1>4, FS_Injection
<1>6. \E i \in S : rank[i] = n
  <2> HIDE DEF rank
  <2> QED
    BY <1>5 DEF Surjection
<1> QED
  BY <1>6

-----------------------------------------------------------------------------
(* Sequences of sequences, joined.                                         *)

\* The sequences joined so far, as FlattenSeq joins them.
Joins(f, ss) ==
  \A i \in DOMAIN f : f[i] = IF i = 1 THEN ss[i] ELSE f[i - 1] \o ss[i]

\* The function FlattenSeq chooses exists.
LEMMA FlattenJoins ==
  ASSUME NEW X, NEW ss \in Seq(Seq(X)), ss # <<>>
  PROVE  \E f \in [1..Len(ss) -> Seq(X)] : Joins(f, ss) /\ FlattenSeq(ss) = f[Len(ss)]
<1> DEFINE L == Len(ss)
           S == {n \in Nat : n <= L => \E f \in [1..n -> Seq(X)] : Joins(f, ss)}
<1>0. L \in Nat /\ L # 0 /\ \A i \in 1..L : ss[i] \in Seq(X)
  OBVIOUS
<1>1. 0 \in S
  <2>1. [x \in 1..0 |-> <<>>] \in [1..0 -> Seq(X)] /\ 1..0 = {}
    OBVIOUS
  <2> QED
    BY <2>1 DEF Joins
<1>2. ASSUME NEW n \in Nat, n \in S PROVE n + 1 \in S
  <2> SUFFICES ASSUME n + 1 <= L PROVE \E f \in [1..n + 1 -> Seq(X)] : Joins(f, ss)
    OBVIOUS
  <2>1. PICK g \in [1..n -> Seq(X)] : Joins(g, ss)
    BY <1>0, <1>2
  <2> DEFINE last == IF n = 0 THEN ss[1] ELSE g[n] \o ss[n + 1]
             f == [i \in 1..n + 1 |-> IF i = n + 1 THEN last ELSE g[i]]
  <2>2. last \in Seq(X)
    BY <1>0
  <2>3. f \in [1..n + 1 -> Seq(X)]
    BY <2>2
  <2>4. ASSUME NEW i \in 1..n + 1 PROVE f[i] = IF i = 1 THEN ss[i] ELSE f[i - 1] \o ss[i]
    <3>1. CASE i = n + 1
      <4>1. n # 0 => f[i - 1] = g[n] /\ i # 1
        BY <3>1
      <4> QED
        BY <3>1, <4>1
    <3>2. CASE i # n + 1
      <4>1. i \in 1..n /\ f[i] = g[i] /\ (i # 1 => f[i - 1] = g[i - 1])
        BY <3>2
      <4> QED
        BY <2>1, <4>1 DEF Joins
    <3> QED
      BY <3>1, <3>2
  <2>5. Joins(f, ss)
    BY <2>3, <2>4 DEF Joins
  <2> QED
    BY <2>3, <2>5
<1>3. L \in S
  <2> HIDE DEF S
  <2> QED
    BY <1>0, <1>1, <1>2, Induction
<1>4. PICK f \in [1..L -> Seq(X)] : Joins(f, ss)
  BY <1>0, <1>3
<1> DEFINE Eq(h) == h = [i \in 1..L |-> IF i = 1 THEN ss[i] ELSE h[i - 1] \o ss[i]]
           g == CHOOSE h : Eq(h)
<1>5. Eq(f)
  BY <1>4 DEF Joins
<1>6. Eq(g)
  BY <1>5
<1>7. FlattenSeq(ss) = g[L]
  BY <1>0 DEF FlattenSeq
<1>8. \A i \in 1..L :
        /\ g[i] = IF i = 1 THEN ss[i] ELSE g[i - 1] \o ss[i]
        /\ f[i] = IF i = 1 THEN ss[i] ELSE f[i - 1] \o ss[i]
  BY <1>5, <1>6
<1>9. \A n \in Nat : n \in 1..L => g[n] = f[n]
  <2> HIDE DEF g, Eq
  <2> DEFINE T == {n \in Nat : n + 1 \in 1..L => g[n + 1] = f[n + 1]}
  <2>1. 0 \in T
    <3>1. 1 \in 1..L
      BY <1>0
    <3>2. g[1] = ss[1] /\ f[1] = ss[1]
      BY <1>8, <3>1
    <3> QED
      BY <3>2
  <2>2. ASSUME NEW n \in Nat, n \in T PROVE n + 1 \in T
    <3> SUFFICES ASSUME n + 2 \in 1..L PROVE g[n + 2] = f[n + 2]
      OBVIOUS
    <3>1. g[n + 1] = f[n + 1] /\ n + 1 \in 1..L
      BY <1>0, <2>2
    <3>2. n + 2 # 1 /\ (n + 2) - 1 = n + 1
      OBVIOUS
    <3>3. g[n + 2] = g[n + 1] \o ss[n + 2] /\ f[n + 2] = f[n + 1] \o ss[n + 2]
      BY <1>8, <3>2
    <3> QED
      BY <3>1, <3>3
  <2>3. Nat \subseteq T
    <3> HIDE DEF T
    <3> QED
      BY <2>1, <2>2, Induction
  <2>4. ASSUME NEW n \in Nat, n \in 1..L PROVE g[n] = f[n]
    <3>1. n - 1 \in Nat
      BY <2>4
    <3>2. n - 1 \in T
      BY <2>3, <3>1
    <3> QED
      BY <2>4, <3>2
  <2> QED
    BY <2>4
<1>10. FlattenSeq(ss) = f[L]
  <2> HIDE DEF g
  <2> QED
    BY <1>0, <1>7, <1>9
<1> QED
  BY <1>4, <1>10

\* One of the sequences stands in t, whole, behind the first `off` places.
StandsAt(t, off, s) == \A q \in DOMAIN s : off + q \in DOMAIN t /\ t[off + q] = s[q]

\* Every place of the joined sequence is inside one of its parts.
LEMMA FlattenParts ==
  ASSUME NEW X, NEW ss \in Seq(Seq(X))
  PROVE  /\ FlattenSeq(ss) \in Seq(X)
         /\ \A p \in DOMAIN FlattenSeq(ss) : \E i \in DOMAIN ss : \E off \in Nat :
              p - off \in DOMAIN ss[i] /\ StandsAt(FlattenSeq(ss), off, ss[i])
<1>1. CASE ss = <<>>
  <2>1. FlattenSeq(ss) = <<>>
    BY <1>1 DEF FlattenSeq
  <2> QED
    BY <2>1
<1>2. CASE ss # <<>>
  <2>1. PICK f \in [1..Len(ss) -> Seq(X)] : Joins(f, ss) /\ FlattenSeq(ss) = f[Len(ss)]
    BY <1>2, FlattenJoins
  <2> DEFINE Parts(n) ==
               \A p \in DOMAIN f[n] : \E i \in DOMAIN ss : \E off \in Nat :
                 p - off \in DOMAIN ss[i] /\ StandsAt(f[n], off, ss[i])
             S == {n \in Nat : n + 1 \in 1..Len(ss) => Parts(n + 1)}
  <2>2. Len(ss) \in Nat /\ Len(ss) # 0 /\ \A i \in 1..Len(ss) : ss[i] \in Seq(X)
    BY <1>2
  <2>3. 0 \in S
    <3>0. 1 \in DOMAIN f /\ 1 \in DOMAIN ss
      BY <2>1, <2>2
    <3>1. f[1] = ss[1]
      BY <2>1, <3>0 DEF Joins
    <3>2. \A p \in DOMAIN f[1] : p - 0 \in DOMAIN ss[1] /\ StandsAt(f[1], 0, ss[1])
      BY <2>2, <3>0, <3>1 DEF StandsAt
    <3>3. Parts(1)
      BY <3>0, <3>1, <3>2
    <3> HIDE DEF Parts
    <3> QED
      BY <3>3
  <2>4. ASSUME NEW n \in Nat, n \in S PROVE n + 1 \in S
    <3> SUFFICES ASSUME n + 2 \in 1..Len(ss) PROVE Parts(n + 2)
      OBVIOUS
    <3> HIDE DEF S, Parts
    <3>1. n + 1 \in 1..Len(ss) /\ n + 2 # 1 /\ (n + 2) - 1 = n + 1
      BY <2>2
    <3>2. Parts(n + 1)
      BY <2>4, <3>1 DEF S
    <3>3. f[n + 2] = f[n + 1] \o ss[n + 2]
      BY <2>1, <3>1 DEF Joins
    <3>4. f[n + 1] \in Seq(X) /\ ss[n + 2] \in Seq(X)
      BY <2>1, <2>2, <3>1
    <3> DEFINE a == f[n + 1]
               b == ss[n + 2]
    <3>5. /\ Len(a \o b) = Len(a) + Len(b) /\ a \o b \in Seq(X)
          /\ \A x \in 1..Len(a) : (a \o b)[x] = a[x]
          /\ \A x \in 1..Len(b) : (a \o b)[Len(a) + x] = b[x]
      <4> HIDE DEF a, b
      <4>1. a \in Seq(X) /\ b \in Seq(X)
        BY <3>4 DEF a, b
      <4> QED
        BY <4>1
    <3>6. ASSUME NEW p \in DOMAIN (a \o b)
          PROVE  \E i \in DOMAIN ss : \E off \in Nat :
                   p - off \in DOMAIN ss[i] /\ StandsAt(a \o b, off, ss[i])
      <4>1. CASE p \in 1..Len(a)
        <5>1. PICK i \in DOMAIN ss, off \in Nat :
                p - off \in DOMAIN ss[i] /\ StandsAt(a, off, ss[i])
          <6>1. p \in DOMAIN f[n + 1]
            BY <3>4, <4>1
          <6> QED
            BY <3>2, <6>1 DEF Parts
        <5>2. StandsAt(a \o b, off, ss[i])
          <6> SUFFICES ASSUME NEW q \in DOMAIN ss[i]
                       PROVE  off + q \in DOMAIN (a \o b) /\ (a \o b)[off + q] = ss[i][q]
            BY DEF StandsAt
          <6>1. off + q \in 1..Len(a) /\ a[off + q] = ss[i][q]
            BY <3>4, <5>1, SMTT(30) DEF StandsAt
          <6> HIDE DEF a, b
          <6>2. Len(a) \in Nat /\ Len(b) \in Nat /\ DOMAIN (a \o b) = 1..Len(a) + Len(b)
            BY <3>4, <3>5, SMTT(30) DEF a, b
          <6> QED
            BY <3>5, <6>1, <6>2
        <5> QED
          BY <5>1, <5>2
      <4>2. CASE p \notin 1..Len(a)
        <5> HIDE DEF a
        <5>1. Len(a) \in Nat /\ Len(b) \in Nat /\ DOMAIN (a \o b) = 1..Len(a) + Len(b)
              /\ DOMAIN b = 1..Len(b)
          BY <3>4, <3>5 DEF a
        <5>2. p - Len(a) \in DOMAIN b
          BY <4>2, <5>1
        <5>3. StandsAt(a \o b, Len(a), b)
          BY <3>5, <5>1, SMTT(30) DEF StandsAt
        <5>4. n + 2 \in DOMAIN ss
          OBVIOUS
        <5> QED
          BY <5>1, <5>2, <5>3, <5>4
      <4> QED
        BY <4>1, <4>2
    <3> QED
      BY <3>3, <3>6 DEF Parts
  <2>5. Nat \subseteq S
    <3> HIDE DEF S
    <3> QED
      BY <2>3, <2>4, Induction
  <2>6. Parts(Len(ss))
    <3>1. Len(ss) - 1 \in Nat /\ (Len(ss) - 1) + 1 = Len(ss) /\ Len(ss) \in 1..Len(ss)
      BY <2>2
    <3>2. Len(ss) - 1 \in S
      BY <2>5, <3>1
    <3> QED
      BY <3>1, <3>2
  <2> HIDE DEF Parts
  <2>7. f[Len(ss)] \in Seq(X)
    BY <2>1, <2>2
  <2> QED
    BY <2>1, <2>6, <2>7 DEF Parts
<1> QED
  BY <1>1, <1>2

-----------------------------------------------------------------------------
(* Messages and the history they form.                                     *)

Turn == Conv \X Nat
Asking  == [role : {"user"}, id : Turn]
Calling == [role : {"assistant"}, id : Turn, calls : Batch \cup {<<>>}, empty : BOOLEAN]
Answer  == [role : {"tool"}, id : Turn \X Nat, call : Calls, size : Sizes \cup {"small"}]
Message == Asking \cup Calling \cup Answer

\* The result at i is that of a call of the assistant message at h: results
\* stand behind their message in the order of its calls.
Answers(msgs, i, h) ==
  /\ msgs[h].role = "assistant" /\ i - h \in DOMAIN msgs[h].calls
  /\ msgs[i].id = <<msgs[h].id, i - h>> /\ msgs[i].call = msgs[h].calls[i - h]
  /\ \A x \in h + 1..i : msgs[x].role = "tool"

WellFormed(msgs) ==
  /\ \A i, j \in DOMAIN msgs :
       msgs[i].role # "tool" /\ msgs[j].role # "tool" /\ msgs[i].id = msgs[j].id => i = j
  /\ \A i \in DOMAIN msgs :
       msgs[i].role = "tool" => \E h \in DOMAIN msgs : h < i /\ Answers(msgs, i, h)

LEMMA MessageKinds ==
  ASSUME NEW m \in Message
  PROVE  /\ m.role \in {"user", "assistant", "tool"}
         /\ m.role = "user" => m \in Asking
         /\ m.role = "assistant" => m \in Calling
         /\ m.role = "tool" => m \in Answer
BY DEF Message, Asking, Calling, Answer

LEMMA CallsOfMessage ==
  ASSUME NEW m \in Message, m.role = "assistant"
  PROVE  m.calls \in Seq(Calls)
<1>1. m \in Calling
  BY MessageKinds
<1>2. <<>> \in Seq(Calls)
  OBVIOUS
<1> QED
  BY <1>1, <1>2, BatchAssumption DEF Calling

\* Whoever makes a read stale that makes another stale, makes that stale.
LEMMA SupersedesTransitive ==
  ASSUME NEW p \in Calls, NEW q \in Calls, NEW r \in Calls,
         q.tool = "read", Supersedes(p, q), Supersedes(q, r)
  PROVE  Supersedes(p, r)
<1>1. \A call \in Calls : call.first \in Nat /\ call.last \in Nat
  BY BatchAssumption
<1> QED
  BY <1>1 DEF Supersedes, Covers

\* A result has one place.
LEMMA ResultsAreUnique ==
  ASSUME NEW msgs \in Seq(Message), WellFormed(msgs),
         NEW i \in DOMAIN msgs, NEW j \in DOMAIN msgs,
         msgs[i].role = "tool", msgs[j].role = "tool", msgs[i].id = msgs[j].id
  PROVE  i = j
<1>1. PICK h \in DOMAIN msgs : h < i /\ Answers(msgs, i, h)
  BY DEF WellFormed
<1>2. PICK g \in DOMAIN msgs : g < j /\ Answers(msgs, j, g)
  BY DEF WellFormed
<1>3. msgs[h].id = msgs[g].id /\ i - h = j - g
  <2>1. msgs[i].id = <<msgs[h].id, i - h>> /\ msgs[j].id = <<msgs[g].id, j - g>>
    BY <1>1, <1>2 DEF Answers
  <2>2. <<msgs[h].id, i - h>> = <<msgs[g].id, j - g>>
    BY <2>1
  <2> QED
    BY <2>2, Zenon
<1>4. h = g
  BY <1>1, <1>2, <1>3 DEF Answers, WellFormed
<1> QED
  BY <1>3, <1>4

\* The assistant messages whose calls make the read at i stale.
Superseding(msgs, i) ==
  {j \in i + 1..Len(msgs) :
     /\ msgs[j].role = "assistant"
     /\ \E k \in DOMAIN msgs[j].calls : Supersedes(msgs[j].calls[k], msgs[i].call)}

CoveredBy(msgs, plan, i, j) ==
  /\ j > plan.covers /\ msgs[j].role = "assistant"
  /\ \E k \in DOMAIN msgs[j].calls :
       /\ Supersedes(msgs[j].calls[k], msgs[i].call)
       /\ <<msgs[j].id, k>> \notin plan.stubs

\* The last message that makes a read stale is not itself omitted: what makes
\* it stale would be later still.
LEMMA PlanCovers ==
  ASSUME NEW msgs \in Seq(Message), WellFormed(msgs), NEW covers \in Nat,
         NEW i \in 1..Len(msgs), msgs[i].role = "tool",
         msgs[i].id \in PlanOf(msgs, covers).stubs
  PROVE  \E j \in i + 1..Len(msgs) : CoveredBy(msgs, PlanOf(msgs, covers), i, j)
<1> DEFINE plan == PlanOf(msgs, covers)
<1>1. PICK i0 \in covers + 1..Len(msgs) :
        /\ msgs[i].id = msgs[i0].id /\ Long(msgs[i0]) /\ Superseding(msgs, i0) # {}
  BY DEF PlanOf, Stale, Superseding
<1>2. i0 = i
  BY <1>1, ResultsAreUnique DEF Long
<1>3. PICK j \in Superseding(msgs, i) : \A x \in Superseding(msgs, i) : x <= j
  <2>1. Superseding(msgs, i) \subseteq 0..Len(msgs)
    BY DEF Superseding
  <2> QED
    BY <1>1, <1>2, <2>1, Greatest
<1>4. PICK k \in DOMAIN msgs[j].calls : Supersedes(msgs[j].calls[k], msgs[i].call)
  BY <1>3 DEF Superseding
<1>5. j \in i + 1..Len(msgs) /\ msgs[j].role = "assistant"
  BY <1>3 DEF Superseding
<1>6. ASSUME <<msgs[j].id, k>> \in plan.stubs PROVE FALSE
  <2>1. PICK r \in covers + 1..Len(msgs) :
          /\ <<msgs[j].id, k>> = msgs[r].id /\ Long(msgs[r]) /\ Superseding(msgs, r) # {}
    BY <1>6 DEF PlanOf, Stale, Superseding
  <2>2. PICK h \in DOMAIN msgs : h < r /\ Answers(msgs, r, h)
    BY <2>1 DEF WellFormed, Long
  <2>3. h = j /\ r - h = k
    <3>1. msgs[h].id = msgs[j].id /\ r - h = k
      BY <2>1, <2>2 DEF Answers
    <3> QED
      BY <1>5, <2>2, <3>1, SMTT(30) DEF WellFormed, Answers
  <2>4. PICK l \in Superseding(msgs, r) : TRUE
    BY <2>1
  <2>5. PICK n \in DOMAIN msgs[l].calls : Supersedes(msgs[l].calls[n], msgs[r].call)
    BY <2>4 DEF Superseding
  <2>6. l \in r + 1..Len(msgs) /\ msgs[l].role = "assistant"
    BY <2>4 DEF Superseding
  <2>7. msgs[r].call = msgs[j].calls[k] /\ msgs[r].call.tool = "read"
    BY <2>1, <2>2, <2>3 DEF Answers, Long
  <2>8. /\ msgs[l].calls[n] \in Calls /\ msgs[j].calls[k] \in Calls
        /\ msgs[i].call \in Calls
    <3>1. msgs[l].calls \in Seq(Calls) /\ msgs[j].calls \in Seq(Calls)
      BY <1>5, <2>6, CallsOfMessage
    <3>2. msgs[i] \in Answer
      BY MessageKinds
    <3> QED
      BY <3>1, <3>2, ElementOfSeq, SMTT(30) DEF Answer
  <2>9. Supersedes(msgs[l].calls[n], msgs[i].call)
    BY <1>4, <2>5, <2>7, <2>8, SupersedesTransitive
  <2>10. l \in Superseding(msgs, i)
    BY <1>5, <2>2, <2>3, <2>6, <2>9 DEF Superseding
  <2> QED
    BY <1>3, <1>5, <2>2, <2>3, <2>6, <2>10
<1>7. j > plan.covers
  BY <1>1, <1>2, <1>5 DEF PlanOf
<1> QED
  BY <1>4, <1>5, <1>6, <1>7 DEF CoveredBy

-----------------------------------------------------------------------------
(* The request.                                                            *)

MessageId == Turn \cup (Turn \X Nat) \cup {"summary"}
Banner == [of : SUBSET MessageId, covers : Nat]
Forms == {"stub", "released", "withheld", "trimmed", "whole", "none"}
WireEntry == [m : Message \cup {User("summary")}, form : Forms, banner : Banner]

PlanType  == [frozen : Nat, covers : Nat, stubs : SUBSET MessageId]
StateType == [frozen : Nat, covers : Nat, stubs : SUBSET MessageId,
              summary : SUBSET MessageId, reuse : Nat]

LEMMA IdsOfMessages ==
  ASSUME NEW m \in Message
  PROVE  m.id \in MessageId
BY DEF Message, Asking, Calling, Answer, MessageId

LEMMA FromProperties ==
  ASSUME NEW X, NEW s \in Seq(X), NEW k \in Nat
  PROVE  /\ From(s, k) \in Seq(X)
         /\ Len(From(s, k)) = IF k <= Len(s) THEN Len(s) - k ELSE 0
         /\ \A i \in 1..Len(From(s, k)) : k + i \in DOMAIN s /\ From(s, k)[i] = s[k + i]
<1>1. CASE k <= Len(s)
  <2>1. k + 1 \in Int /\ Len(s) \in Int /\ \A i \in k + 1..Len(s) : s[i] \in X
    BY <1>1
  <2>2. /\ From(s, k) \in Seq(X)
        /\ Len(From(s, k)) = IF k + 1 <= Len(s) THEN Len(s) - (k + 1) + 1 ELSE 0
        /\ \A i \in 1..Len(s) - (k + 1) + 1 : From(s, k)[i] = s[(k + 1) + i - 1]
    BY <2>1, SubSeqProperties DEF From
  <2>3. Len(From(s, k)) = Len(s) - k
    BY <1>1, <2>2
  <2>4. ASSUME NEW i \in 1..Len(From(s, k))
        PROVE  k + i \in DOMAIN s /\ From(s, k)[i] = s[k + i]
    <3>1. (k + 1) + i - 1 = k + i /\ i \in 1..Len(s) - (k + 1) + 1
      BY <2>3
    <3> QED
      BY <1>1, <2>2, <2>3, <3>1, SMTT(30)
  <2> QED
    BY <1>1, <2>2, <2>3, <2>4
<1>2. CASE k > Len(s)
  <2>1. From(s, k) = <<>>
    BY <1>2, SubSeqEmpty DEF From
  <2> QED
    BY <1>2, <2>1
<1> QED
  BY <1>1, <1>2

LEMMA EntryType ==
  ASSUME NEW msgs \in Seq(Message), NEW plan, NEW i \in 1..Len(msgs)
  PROVE  Entry(msgs, i, plan) \in WireEntry
<1>1. Form(msgs, i) \in Forms
  BY DEF Form, Forms
<1>2. NoBanner \in Banner /\ "stub" \in Forms
  BY DEF NoBanner, Banner, Forms
<1>3. msgs[i] \in Message
  OBVIOUS
<1> QED
  BY <1>1, <1>2, <1>3 DEF Entry, WireEntry

LEMMA FoldType ==
  ASSUME NEW entries \in Seq(WireEntry), NEW banner \in Banner
  PROVE  Fold(entries, banner) \in Seq(WireEntry)
<1>1. CASE entries # <<>> /\ entries[1].m.role = "user"
  <2>1. entries[1] \in WireEntry
    BY <1>1
  <2>2. [entries[1] EXCEPT !.banner = banner] \in WireEntry
    BY <2>1 DEF WireEntry
  <2> QED
    BY <1>1, <2>2 DEF Fold
<1>2. CASE ~(entries # <<>> /\ entries[1].m.role = "user")
  <2>1. [m |-> User("summary"), form |-> "whole", banner |-> banner] \in WireEntry
    BY DEF WireEntry, Forms
  <2> QED
    BY <1>2, <2>1 DEF Fold
<1> QED
  BY <1>1, <1>2

LEMMA BuildWireType ==
  ASSUME NEW msgs \in Seq(Message), NEW plan \in StateType
  PROVE  BuildWire(msgs, plan) \in Seq(WireEntry)
<1> DEFINE frozen == IF plan.frozen < Len(msgs) THEN plan.frozen ELSE Len(msgs)
           all    == [i \in 1..Len(msgs) |-> Entry(msgs, i, plan)]
           head   == SubSeq(all, 1, frozen)
           banner == [of |-> plan.summary, covers |-> plan.covers]
<1>1. plan.frozen \in Nat /\ plan.covers \in Nat /\ plan.summary \in SUBSET MessageId
  BY DEF StateType
<1>2. all \in Seq(WireEntry) /\ Len(all) = Len(msgs) /\ frozen \in 0..Len(msgs)
  BY <1>1, EntryType
<1>3. head \in Seq(WireEntry)
  <2> HIDE DEF all, frozen
  <2>1. frozen \in Int /\ \A i \in 1..frozen : all[i] \in WireEntry
    BY <1>2
  <2> QED
    BY <2>1, SubSeqProperties
<1>4. banner \in Banner
  <2>1. \A i \in DOMAIN msgs : msgs[i].id \in MessageId
    BY IdsOfMessages
  <2> QED
    BY <1>1, <2>1 DEF Banner
<1>5. BuildWire(msgs, plan) =
        (IF plan.summary # {} THEN Fold(From(head, plan.covers), banner) ELSE head)
        \o From(all, frozen)
  BY DEF BuildWire
<1> HIDE DEF frozen, all, head, banner
<1>6. From(head, plan.covers) \in Seq(WireEntry) /\ From(all, frozen) \in Seq(WireEntry)
  BY <1>1, <1>2, <1>3, FromProperties
<1>7. Fold(From(head, plan.covers), banner) \in Seq(WireEntry)
  BY <1>4, <1>6, FoldType
<1> QED
  BY <1>3, <1>5, <1>6, <1>7

-----------------------------------------------------------------------------
(* Calls and answers.                                                      *)

LEMMA EntryKinds ==
  ASSUME NEW e \in WireEntry
  PROVE  /\ e.m.role \in {"user", "assistant", "tool"}
         /\ e.m.role = "assistant" => e.m \in Calling /\ e.m.calls \in Seq(Calls)
<1>1. e.m \in Message \/ e.m = User("summary")
  BY DEF WireEntry
<1>2. CASE e.m \in Message
  BY <1>2, MessageKinds, CallsOfMessage
<1>3. CASE e.m = User("summary")
  BY <1>3 DEF User
<1> QED
  BY <1>1, <1>2, <1>3

\* Every call gets an answer, from the wire or a note, under its own id.
LEMMA AnswerToType ==
  ASSUME NEW wire \in Seq(WireEntry), NEW i \in DOMAIN wire, wire[i].m.role = "assistant",
         NEW k \in DOMAIN wire[i].m.calls
  PROVE  /\ AnswerTo(wire, i, k) \in WireEntry
         /\ AnswerTo(wire, i, k).m.role = "tool"
         /\ AnswerTo(wire, i, k).m.id = <<wire[i].m.id, k>>
<1> DEFINE id == <<wire[i].m.id, k>>
           answers == {j \in (i + 1)..Len(wire) :
                         /\ \A x \in (i + 1)..j : wire[x].m.role = "tool"
                         /\ wire[j].m.id = id}
<1>0. id[1] = wire[i].m.id
  OBVIOUS
<1>1. CASE answers # {}
  <2>1. \E n \in answers : \A x \in answers : x <= n
    <3>1. answers \subseteq 0..Len(wire) /\ Len(wire) \in Nat
      OBVIOUS
    <3> QED
      BY <1>1, <3>1, Greatest
  <2> DEFINE last == CHOOSE j \in answers : \A x \in answers : x <= j
  <2>2. last \in answers
    BY <2>1
  <2>3. AnswerTo(wire, i, k) = wire[last]
    BY <1>1 DEF AnswerTo
  <2> HIDE DEF last
  <2>4. last \in DOMAIN wire /\ wire[last].m.role = "tool" /\ wire[last].m.id = id
    BY <2>2
  <2> QED
    BY <2>3, <2>4
<1>2. CASE answers = {}
  <2> DEFINE note == Result(id[1], k, wire[i].m.calls[k], "small")
  <2>1. AnswerTo(wire, i, k) = [m |-> note, form |-> "none", banner |-> NoBanner]
    BY <1>2 DEF AnswerTo
  <2>2. wire[i].m \in Calling /\ wire[i].m.calls \in Seq(Calls)
    BY EntryKinds
  <2>3. wire[i].m.calls[k] \in Calls /\ k \in Nat /\ wire[i].m.id \in Turn
    BY <2>2 DEF Calling
  <2>4. note \in Answer /\ note.role = "tool" /\ note.id = id
    BY <1>0, <2>3 DEF Result, Answer
  <2>5. NoBanner \in Banner /\ "none" \in Forms
    BY DEF NoBanner, Banner, Forms
  <2> QED
    BY <2>1, <2>4, <2>5 DEF WireEntry, Message
<1> QED
  BY <1>1, <1>2

\* What one message of the wire becomes.
Piece(wire, i) ==
  CASE wire[i].m.role = "user" -> <<wire[i]>>
    [] wire[i].m.role = "tool" -> <<>>
    [] wire[i].m.role = "assistant" /\ wire[i].m.empty -> <<>>
    [] OTHER -> <<wire[i]>> \o [k \in DOMAIN wire[i].m.calls |-> AnswerTo(wire, i, k)]

\* Nothing, a message of the user, or an assistant message and its answers.
PieceShape(wire, i) ==
  \/ Piece(wire, i) = <<>>
  \/ wire[i].m.role = "user" /\ Piece(wire, i) = <<wire[i]>>
  \/ /\ wire[i].m.role = "assistant" /\ ~wire[i].m.empty
     /\ Len(Piece(wire, i)) = 1 + Len(wire[i].m.calls)
     /\ Piece(wire, i)[1] = wire[i]
     /\ \A k \in DOMAIN wire[i].m.calls : Piece(wire, i)[1 + k] = AnswerTo(wire, i, k)

LEMMA Pieces ==
  ASSUME NEW wire \in Seq(WireEntry), NEW i \in DOMAIN wire
  PROVE  Piece(wire, i) \in Seq(WireEntry) /\ PieceShape(wire, i)
<1>1. wire[i] \in WireEntry /\ wire[i].m.role \in {"user", "assistant", "tool"}
  BY EntryKinds
<1>2. CASE wire[i].m.role # "assistant" \/ wire[i].m.empty
  BY <1>1, <1>2 DEF Piece, PieceShape
<1>3. CASE wire[i].m.role = "assistant" /\ ~wire[i].m.empty
  <2> DEFINE calls == wire[i].m.calls
             given == [k \in DOMAIN calls |-> AnswerTo(wire, i, k)]
  <2>1. calls \in Seq(Calls)
    BY <1>1, <1>3, EntryKinds
  <2>2. \A k \in DOMAIN calls : AnswerTo(wire, i, k) \in WireEntry
    BY <1>3, AnswerToType
  <2>3. given \in Seq(WireEntry) /\ Len(given) = Len(calls) /\ DOMAIN calls = 1..Len(calls)
    <3> HIDE DEF calls
    <3> QED
      BY <2>1, <2>2
  <2>4. Piece(wire, i) = <<wire[i]>> \o given
    BY <1>3 DEF Piece
  <2>5. \A k \in DOMAIN calls : given[k] = AnswerTo(wire, i, k)
    OBVIOUS
  <2> HIDE DEF given
  <2>6. /\ Piece(wire, i) \in Seq(WireEntry) /\ Len(Piece(wire, i)) = 1 + Len(calls)
        /\ Piece(wire, i)[1] = wire[i]
        /\ \A k \in DOMAIN calls : Piece(wire, i)[1 + k] = given[k]
    BY <1>1, <2>3, <2>4
  <2> QED
    BY <1>3, <2>5, <2>6 DEF PieceShape
<1> QED
  BY <1>1, <1>2, <1>3

Paired(w) ==
  \A i \in DOMAIN w :
    CASE w[i].m.role = "assistant" ->
           /\ ~w[i].m.empty
           /\ \A k \in DOMAIN w[i].m.calls :
                i + k \in DOMAIN w /\ w[i + k].m.id = <<w[i].m.id, k>>
      [] w[i].m.role = "tool" ->
           \E h \in 1..(i - 1) : /\ w[h].m.role = "assistant"
                                 /\ i - h \in DOMAIN w[h].m.calls
      [] OTHER -> TRUE

\* sanitizeToolCallPairs makes any wire one a provider accepts.
LEMMA SanitizePairs ==
  ASSUME NEW wire \in Seq(WireEntry)
  PROVE  Sanitize(wire) \in Seq(WireEntry) /\ Paired(Sanitize(wire))
<1> DEFINE ss == [i \in DOMAIN wire |-> Piece(wire, i)]
           w == FlattenSeq(ss)
<1>1. Sanitize(wire) = w
  BY DEF Sanitize, Piece
<1>2. ss \in Seq(Seq(WireEntry)) /\ \A i \in DOMAIN wire : ss[i] = Piece(wire, i)
  BY Pieces
<1>3. DOMAIN ss = DOMAIN wire
  OBVIOUS
<1> HIDE DEF ss
<1>4. w \in Seq(WireEntry)
  BY <1>2, FlattenParts
<1>5. ASSUME NEW p \in DOMAIN w
      PROVE  \/ w[p].m.role = "user"
             \/ /\ w[p].m.role = "assistant" /\ ~w[p].m.empty
                /\ \A k \in DOMAIN w[p].m.calls :
                     p + k \in DOMAIN w /\ w[p + k].m.id = <<w[p].m.id, k>>
             \/ /\ w[p].m.role = "tool"
                /\ \E h \in 1..(p - 1) : /\ w[h].m.role = "assistant"
                                         /\ p - h \in DOMAIN w[h].m.calls
  <2>1. PICK i \in DOMAIN wire, off \in Nat :
          p - off \in DOMAIN Piece(wire, i) /\ StandsAt(w, off, Piece(wire, i))
    BY <1>2, <1>3, FlattenParts
  <2> DEFINE piece == Piece(wire, i)
             q == p - off
  <2>2. p \in Int /\ piece \in Seq(WireEntry) /\ PieceShape(wire, i) /\ q \in DOMAIN piece
    BY <1>4, <2>1, Pieces
  <2>3. w[p] = piece[q] /\ off + q = p
    <3>1. off + q = p
      BY <2>2
    <3> HIDE DEF piece, q
    <3> QED
      BY <2>1, <2>2, <3>1 DEF StandsAt, piece
  <2>4. CASE wire[i].m.role = "user" /\ piece = <<wire[i]>>
    BY <2>2, <2>3, <2>4
  <2>5. CASE wire[i].m.role = "assistant" /\ ~wire[i].m.empty
    <3> DEFINE calls == wire[i].m.calls
    <3>1. /\ Len(piece) = 1 + Len(calls) /\ piece[1] = wire[i]
          /\ \A k \in DOMAIN calls : piece[1 + k] = AnswerTo(wire, i, k)
      BY <2>1, <2>2, <2>5 DEF PieceShape
    <3>2. calls \in Seq(Calls) /\ Len(calls) \in Nat /\ DOMAIN calls = 1..Len(calls)
      BY <2>5, EntryKinds
    <3>3. DOMAIN piece = 1..1 + Len(calls)
      <4> HIDE DEF piece, calls
      <4> QED
        BY <2>2, <3>1, <3>2
    <3>4. ASSUME NEW k \in DOMAIN calls
          PROVE  /\ AnswerTo(wire, i, k).m.role = "tool"
                 /\ AnswerTo(wire, i, k).m.id = <<wire[i].m.id, k>>
      BY <2>5, AnswerToType
    <3>5. \A x \in 1..1 + Len(calls) : off + x \in DOMAIN w /\ w[off + x] = piece[x]
      <4> HIDE DEF piece, calls
      <4> QED
        BY <2>1, <3>3 DEF StandsAt, piece
    <3> HIDE DEF piece, calls, q
    <3>6. w[off + 1] = wire[i]
      BY <3>1, <3>2, <3>5
    <3>7. CASE q = 1
      <4>1. ASSUME NEW k \in DOMAIN calls
            PROVE  p + k \in DOMAIN w /\ w[p + k].m.id = <<w[p].m.id, k>>
        <5>1. 1 + k \in 1..1 + Len(calls) /\ p + k = off + (1 + k)
          BY <2>3, <3>2, <3>7
        <5>2. p + k \in DOMAIN w /\ w[p + k] = AnswerTo(wire, i, k)
          BY <3>1, <3>5, <5>1
        <5>3. w[p] = wire[i]
          BY <2>3, <3>6, <3>7
        <5> QED
          BY <3>4, <5>2, <5>3
      <4>2. w[p] = wire[i]
        BY <2>3, <3>6, <3>7
      <4> QED
        BY <2>5, <4>1, <4>2 DEF calls
    <3>8. CASE q # 1
      <4>1. q - 1 \in DOMAIN calls /\ q = 1 + (q - 1)
        BY <2>2, <3>2, <3>3, <3>8
      <4>2. w[p] = AnswerTo(wire, i, q - 1)
        BY <2>3, <3>1, <4>1
      <4>3. w[p].m.role = "tool"
        BY <3>4, <4>1, <4>2
      <4>4. off + 1 \in 1..(p - 1) /\ p - (off + 1) = q - 1
        BY <2>3, <3>2, <4>1
      <4> QED
        BY <2>5, <3>6, <4>1, <4>3, <4>4 DEF calls
    <3> QED
      BY <3>7, <3>8
  <2>6. piece # <<>>
    BY <2>2
  <2> QED
    BY <2>2, <2>4, <2>5, <2>6 DEF PieceShape
<1>6. Paired(w)
  BY <1>5 DEF Paired
<1> QED
  BY <1>1, <1>4, <1>6

-----------------------------------------------------------------------------
(* The plan.                                                               *)

LEMMA TurnsFinite ==
  ASSUME NEW msgs \in Seq(Message)
  PROVE  /\ Turns(msgs) \subseteq 1..Len(msgs) /\ Turns(msgs) \subseteq Nat
         /\ IsFiniteSet(Turns(msgs)) /\ Cardinality(Turns(msgs)) \in Nat
<1>1. Turns(msgs) \subseteq 1..Len(msgs) /\ IsFiniteSet(1..Len(msgs))
  BY FS_Interval DEF Turns
<1> QED
  BY <1>1, FS_Subset, FS_CardinalityType

LEMMA BeforeType ==
  ASSUME NEW msgs \in Seq(Message), NEW keep \in Nat \ {0}
  PROVE  Before(msgs, keep) \in 0..Len(msgs)
<1> DEFINE latest(i) == Cardinality({j \in Turns(msgs) : j >= i}) = keep
<1>1. CASE Cardinality(Turns(msgs)) <= keep
  BY <1>1 DEF Before
<1>2. CASE ~(Cardinality(Turns(msgs)) <= keep)
  <2>1. \E i \in Turns(msgs) : latest(i)
    <3>1. keep \in 1..Cardinality(Turns(msgs))
      BY <1>2, TurnsFinite
    <3> QED
      BY <3>1, TurnsFinite, Ranks
  <2>2. Before(msgs, keep) = (CHOOSE i \in Turns(msgs) : latest(i)) - 1
    BY <1>2 DEF Before
  <2>3. (CHOOSE i \in Turns(msgs) : latest(i)) \in Turns(msgs)
    BY <2>1
  <2> QED
    BY <2>2, <2>3, TurnsFinite
<1> QED
  BY <1>1, <1>2

LEMMA PlanIsPlanOf ==
  ASSUME NEW msgs \in Seq(Message), NEW prev, NEW force
  PROVE  \E covers \in 0..Len(msgs) : Plan(msgs, prev, force) = PlanOf(msgs, covers)
<1>1. Before(msgs, KeepTail) \in 0..Len(msgs)
  BY BeforeType, BoundsAssumption
<1>2. Holds(msgs, prev) => prev.covers \in 0..Len(msgs)
  BY DEF Holds
<1>3. 0 \in 0..Len(msgs)
  OBVIOUS
<1> QED
  BY <1>1, <1>2, <1>3 DEF Plan

LEMMA PlanOfType ==
  ASSUME NEW msgs \in Seq(Message), NEW covers \in Nat
  PROVE  PlanOf(msgs, covers) \in PlanType /\ PlanOf(msgs, covers).frozen = Len(msgs)
         /\ PlanOf(msgs, covers).covers = covers
<1>1. \A i \in covers + 1..Len(msgs) : msgs[i].id \in MessageId
  BY IdsOfMessages
<1>2. Stale(msgs, covers + 1) \subseteq MessageId
  BY <1>1 DEF Stale
<1> QED
  BY <1>2 DEF PlanOf, PlanType

\* The plan with its summary.
LEMMA StateOfType ==
  ASSUME NEW plan \in PlanType, NEW summary \in SUBSET MessageId, NEW n \in Nat
  PROVE  StateOf(plan, summary, n) \in StateType
BY DEF PlanType, StateType, StateOf

-----------------------------------------------------------------------------
(* The invariant.                                                          *)

Phases == {"idle", "starting", "summarising", "calling", "running"}
Saved == [state : StateType, manual : BOOLEAN, kept : BOOLEAN]
RoundType == [phase : Phases, plan : PlanType, prior : SUBSET MessageId, force : BOOLEAN,
              state : StateType, sent : Seq(WireEntry)]

TypeOK ==
  /\ buffer \in [Conv -> Seq(Message)] /\ made \in [Conv -> Nat]
  /\ round \in [Conv -> RoundType]
  /\ screen \in Conv \cup {NoConv} /\ swap \in Conv \cup {NoConv}
  /\ ref \in StateType /\ manual \in BOOLEAN
  /\ cache \in [Conv -> Saved] /\ disk \in [Conv -> Saved]
  /\ switches \in Nat /\ mishaps \in Nat

\* Messages but results are numbered as they are made.
Numbered(msgs, c, n) ==
  \A i \in DOMAIN msgs : msgs[i].role # "tool" => \E x \in 1..n : msgs[i].id = <<c, x>>

\* The message at h is the last of the assistant, and has calls to answer.
HalfAnswered(msgs, h) ==
  /\ h \in DOMAIN msgs /\ msgs[h].role = "assistant"
  /\ \A j \in h + 1..Len(msgs) : msgs[j].role = "tool"
  /\ Len(msgs) - h < Len(msgs[h].calls)

\* What a plan omits of the messages it was made for is covered by them.
Sound(msgs, plan) ==
  /\ plan.frozen \in 0..Len(msgs)
  /\ \A i \in 1..plan.frozen :
       msgs[i].role = "tool" /\ msgs[i].id \in plan.stubs =>
         \E j \in i + 1..plan.frozen : CoveredBy(msgs, plan, i, j)

ConvInv(msgs, n, r, c) ==
  /\ WellFormed(msgs) /\ Numbered(msgs, c, n)
  /\ r.phase = "running" => \E h \in DOMAIN msgs : HalfAnswered(msgs, h)
  /\ Sound(msgs, r.plan)
  /\ Paired(r.sent)

ContextInv == \A c \in Conv : ConvInv(buffer[c], made[c], round[c], c)

-----------------------------------------------------------------------------
(* What a history keeps as it grows and is cut.                            *)

Extends(longer, msgs) ==
  Len(msgs) <= Len(longer) /\ \A i \in 1..Len(msgs) : longer[i] = msgs[i]

\* What was in order stays so, and what is added need only be in order itself.
LEMMA WellFormedExtends ==
  ASSUME NEW msgs \in Seq(Message), NEW longer \in Seq(Message), Extends(longer, msgs),
         WellFormed(msgs),
         \A i \in Len(msgs) + 1..Len(longer) :
           IF longer[i].role = "tool" THEN \E h \in DOMAIN longer : h < i /\ Answers(longer, i, h)
           ELSE \A j \in 1..i - 1 : longer[j].role # "tool" => longer[j].id # longer[i].id
  PROVE  WellFormed(longer)
<1>0. Len(msgs) \in Nat /\ Len(longer) \in Nat /\ Len(msgs) <= Len(longer)
  BY DEF Extends
<1>1. ASSUME NEW i \in DOMAIN longer, NEW j \in DOMAIN longer, j < i,
             longer[i].role # "tool", longer[j].role # "tool"
      PROVE  longer[i].id # longer[j].id
  <2>1. CASE i \in 1..Len(msgs)
    <3>1. j \in 1..Len(msgs) /\ longer[i] = msgs[i] /\ longer[j] = msgs[j]
      BY <1>1, <2>1 DEF Extends
    <3> QED
      BY <1>1, <2>1, <3>1 DEF WellFormed
  <2>2. CASE i \notin 1..Len(msgs)
    <3>1. i \in Len(msgs) + 1..Len(longer) /\ j \in 1..i - 1
      BY <1>0, <1>1, <2>2
    <3> QED
      BY <1>1, <3>1
  <2> QED
    BY <2>1, <2>2
<1>2. ASSUME NEW i \in DOMAIN longer, longer[i].role = "tool"
      PROVE  \E h \in DOMAIN longer : h < i /\ Answers(longer, i, h)
  <2>1. CASE i \in 1..Len(msgs)
    <3>1. PICK h \in DOMAIN msgs : h < i /\ Answers(msgs, i, h)
      BY <1>2, <2>1 DEF WellFormed, Extends
    <3>2. h \in DOMAIN longer /\ \A x \in h..i : longer[x] = msgs[x]
      BY <1>0, <2>1 DEF Extends
    <3>3. longer[h] = msgs[h] /\ longer[i] = msgs[i]
      BY <2>1 DEF Extends
    <3>4. Answers(longer, i, h)
      <4>1. \A x \in h + 1..i : x \in h..i
        OBVIOUS
      <4> QED
        BY <3>1, <3>2, <3>3, <4>1 DEF Answers
    <3> QED
      BY <3>1, <3>2, <3>4
  <2>2. CASE i \notin 1..Len(msgs)
    BY <1>0, <1>2, <2>2
  <2> QED
    BY <2>1, <2>2
<1>3. \A i, j \in DOMAIN longer :
        longer[i].role # "tool" /\ longer[j].role # "tool" /\ longer[i].id = longer[j].id => i = j
  <2> SUFFICES ASSUME NEW i \in DOMAIN longer, NEW j \in DOMAIN longer, i # j,
                      longer[i].role # "tool", longer[j].role # "tool"
               PROVE  longer[i].id # longer[j].id
    OBVIOUS
  <2>1. i < j \/ j < i
    OBVIOUS
  <2> QED
    BY <1>1, <2>1
<1> QED
  BY <1>2, <1>3 DEF WellFormed

\* The user or the assistant says something.
LEMMA AppendTurn ==
  ASSUME NEW msgs \in Seq(Message), NEW c, NEW n \in Nat, NEW m \in Message,
         WellFormed(msgs), Numbered(msgs, c, n), m.role # "tool", m.id = <<c, n + 1>>
  PROVE  /\ Append(msgs, m) \in Seq(Message) /\ Extends(Append(msgs, m), msgs)
         /\ WellFormed(Append(msgs, m)) /\ Numbered(Append(msgs, m), c, n + 1)
<1> DEFINE longer == Append(msgs, m)
<1>1. /\ longer \in Seq(Message) /\ Len(longer) = Len(msgs) + 1
      /\ longer[Len(msgs) + 1] = m /\ Extends(longer, msgs)
  BY DEF Extends
<1> HIDE DEF longer
<1>2. ASSUME NEW i \in DOMAIN longer, i # Len(msgs) + 1, longer[i].role # "tool"
      PROVE  \E x \in 1..n : longer[i].id = <<c, x>>
  <2>1. i \in DOMAIN msgs /\ longer[i] = msgs[i]
    BY <1>1, <1>2 DEF Extends
  <2> QED
    BY <1>2, <2>1 DEF Numbered
<1>3. \A x \in 1..n : <<c, x>> # <<c, n + 1>>
  OBVIOUS
<1>4. WellFormed(longer)
  <2>1. ASSUME NEW i \in Len(msgs) + 1..Len(longer)
        PROVE  longer[i] = m /\ \A j \in 1..i - 1 :
                 longer[j].role # "tool" => longer[j].id # longer[i].id
    <3>1. i = Len(msgs) + 1
      BY <1>1
    <3>2. \A j \in 1..i - 1 : j \in DOMAIN longer /\ j # Len(msgs) + 1
      BY <1>1, <3>1
    <3> QED
      BY <1>1, <1>2, <1>3, <3>1, <3>2
  <2> QED
    BY <1>1, <2>1, WellFormedExtends
<1>5. Numbered(longer, c, n + 1)
  <2> SUFFICES ASSUME NEW i \in DOMAIN longer, longer[i].role # "tool"
               PROVE  \E x \in 1..n + 1 : longer[i].id = <<c, x>>
    BY DEF Numbered
  <2>1. CASE i = Len(msgs) + 1
    BY <1>1, <2>1
  <2>2. CASE i # Len(msgs) + 1
    BY <1>2, <2>2
  <2> QED
    BY <2>1, <2>2
<1> QED
  BY <1>1, <1>4, <1>5 DEF longer

\* The next calls of the message at h are answered.
LEMMA AppendAnswers ==
  ASSUME NEW msgs \in Seq(Message), NEW c, NEW n \in Nat, NEW h, HalfAnswered(msgs, h),
         WellFormed(msgs), Numbered(msgs, c, n),
         NEW res \in Seq(Answer), Len(msgs) - h + Len(res) <= Len(msgs[h].calls),
         \A x \in DOMAIN res :
           LET k == Len(msgs) - h + x
           IN res[x].id = <<msgs[h].id, k>> /\ res[x].call = msgs[h].calls[k]
  PROVE  /\ msgs \o res \in Seq(Message) /\ Extends(msgs \o res, msgs)
         /\ WellFormed(msgs \o res) /\ Numbered(msgs \o res, c, n)
<1> DEFINE longer == msgs \o res
<1>0. /\ h \in 1..Len(msgs) /\ msgs[h].role = "assistant"
      /\ msgs[h].calls \in Seq(Calls)
  BY CallsOfMessage DEF HalfAnswered
<1>1. /\ longer \in Seq(Message) /\ Len(longer) = Len(msgs) + Len(res)
      /\ \A i \in 1..Len(msgs) : longer[i] = msgs[i]
      /\ \A i \in Len(msgs) + 1..Len(longer) :
           i - Len(msgs) \in DOMAIN res /\ longer[i] = res[i - Len(msgs)]
  <2>1. res \in Seq(Message)
    BY DEF Message
  <2> QED
    BY <2>1
<1>2. Extends(longer, msgs)
  BY <1>1 DEF Extends
<1> HIDE DEF longer
<1>3. ASSUME NEW i \in h + 1..Len(longer) PROVE longer[i].role = "tool"
  <2>1. CASE i <= Len(msgs)
    <3>1. i \in h + 1..Len(msgs) /\ i \in 1..Len(msgs)
      BY <1>0, <1>3, <2>1
    <3> QED
      BY <1>1, <3>1 DEF HalfAnswered
  <2>2. CASE i > Len(msgs)
    <3>1. i \in Len(msgs) + 1..Len(longer)
      BY <1>0, <1>1, <2>2
    <3>2. i - Len(msgs) \in DOMAIN res /\ longer[i] = res[i - Len(msgs)]
      BY <1>1, <3>1
    <3>3. res[i - Len(msgs)] \in Answer
      BY <3>2
    <3> QED
      BY <3>2, <3>3 DEF Answer
  <2> QED
    BY <1>0, <2>1, <2>2
<1>4. ASSUME NEW i \in Len(msgs) + 1..Len(longer)
      PROVE  longer[i].role = "tool" /\ h < i /\ Answers(longer, i, h)
  <2>1. h < i /\ i \in h + 1..Len(longer) /\ \A x \in h + 1..i : x \in h + 1..Len(longer)
    BY <1>0
  <2> DEFINE x == i - Len(msgs)
  <2>2. x \in DOMAIN res /\ longer[i] = res[x] /\ Len(msgs) - h + x = i - h
    BY <1>0, <1>1
  <2>3. longer[i].id = <<msgs[h].id, i - h>> /\ longer[i].call = msgs[h].calls[i - h]
    BY <2>2
  <2>4. i - h \in DOMAIN msgs[h].calls
    BY <1>0, <1>1, <2>1, SMTT(30)
  <2> QED
    BY <1>0, <1>1, <1>3, <2>1, <2>3, <2>4 DEF Answers
<1>5. WellFormed(longer)
  <2>1. \A i \in Len(msgs) + 1..Len(longer) :
          IF longer[i].role = "tool" THEN \E g \in DOMAIN longer : g < i /\ Answers(longer, i, g)
          ELSE \A j \in 1..i - 1 : longer[j].role # "tool" => longer[j].id # longer[i].id
    <3> SUFFICES ASSUME NEW i \in Len(msgs) + 1..Len(longer)
                 PROVE  longer[i].role = "tool" /\ \E g \in DOMAIN longer : g < i /\ Answers(longer, i, g)
      OBVIOUS
    <3>1. h \in DOMAIN longer
      BY <1>0, <1>1
    <3> QED
      BY <1>4, <3>1
  <2> QED
    BY <1>1, <1>2, <2>1, WellFormedExtends
<1>6. Numbered(longer, c, n)
  <2> SUFFICES ASSUME NEW i \in DOMAIN longer, longer[i].role # "tool"
               PROVE  \E x \in 1..n : longer[i].id = <<c, x>>
    BY DEF Numbered
  <2>1. i \in 1..Len(msgs) /\ longer[i] = msgs[i]
    BY <1>1, <1>4
  <2> QED
    <3>1. i \in DOMAIN msgs /\ msgs[i].role # "tool"
      BY <2>1
    <3>2. \E x \in 1..n : msgs[i].id = <<c, x>>
      BY <3>1 DEF Numbered
    <3> QED
      BY <2>1, <3>2
<1> QED
  BY <1>1, <1>2, <1>5, <1>6 DEF longer

\* The history is cut.
LEMMA CutKeeps ==
  ASSUME NEW msgs \in Seq(Message), NEW c, NEW n \in Nat, NEW i \in DOMAIN msgs,
         WellFormed(msgs), Numbered(msgs, c, n)
  PROVE  LET cut == SubSeq(msgs, 1, i - 1)
         IN cut \in Seq(Message) /\ WellFormed(cut) /\ Numbered(cut, c, n)
<1> DEFINE cut == SubSeq(msgs, 1, i - 1)
<1>1. /\ cut \in Seq(Message) /\ Len(cut) = i - 1
      /\ \A x \in 1..i - 1 : x \in DOMAIN msgs /\ cut[x] = msgs[x]
  OBVIOUS
<1> HIDE DEF cut
<1>2. DOMAIN cut = 1..i - 1
  BY <1>1
<1>3. Numbered(cut, c, n)
  BY <1>1, <1>2 DEF Numbered
<1>4. ASSUME NEW j \in DOMAIN cut, cut[j].role = "tool"
      PROVE  \E h \in DOMAIN cut : h < j /\ Answers(cut, j, h)
  <2>1. PICK h \in DOMAIN msgs : h < j /\ Answers(msgs, j, h)
    BY <1>1, <1>2, <1>4 DEF WellFormed
  <2>2. h \in DOMAIN cut /\ \A x \in h + 1..j : x \in 1..i - 1
    BY <1>2, <2>1
  <2> QED
    BY <1>1, <1>2, <2>1, <2>2 DEF Answers
<1>5. WellFormed(cut)
  BY <1>1, <1>2, <1>4 DEF WellFormed
<1> QED
  BY <1>1, <1>3, <1>5 DEF cut

LEMMA SoundExtends ==
  ASSUME NEW msgs \in Seq(Message), NEW longer \in Seq(Message), Extends(longer, msgs),
         NEW plan, Sound(msgs, plan)
  PROVE  Sound(longer, plan)
<1>1. plan.frozen \in 0..Len(longer) /\ \A x \in 1..plan.frozen : longer[x] = msgs[x]
  BY DEF Sound, Extends
<1>2. ASSUME NEW i \in 1..plan.frozen, longer[i].role = "tool", longer[i].id \in plan.stubs
      PROVE  \E j \in i + 1..plan.frozen : CoveredBy(longer, plan, i, j)
  <2>1. PICK j \in i + 1..plan.frozen : CoveredBy(msgs, plan, i, j)
    BY <1>1, <1>2 DEF Sound
  <2>2. longer[j] = msgs[j] /\ longer[i] = msgs[i]
    BY <1>1, <2>1
  <2> QED
    BY <2>1, <2>2 DEF CoveredBy
<1> QED
  BY <1>1, <1>2 DEF Sound

LEMMA SoundNoPlan ==
  ASSUME NEW msgs \in Seq(Message)
  PROVE  Sound(msgs, NoPlan)
BY DEF Sound, NoPlan

LEMMA SoundPlanOf ==
  ASSUME NEW msgs \in Seq(Message), WellFormed(msgs), NEW covers \in Nat
  PROVE  Sound(msgs, PlanOf(msgs, covers))
BY PlanCovers, PlanOfType DEF Sound

-----------------------------------------------------------------------------
(* The steps.                                                              *)

LEMMA RequestPaired ==
  ASSUME NEW msgs \in Seq(Message), NEW plan \in StateType
  PROVE  Request(msgs, plan) \in Seq(WireEntry) /\ Paired(Request(msgs, plan))
BY BuildWireType, SanitizePairs DEF Request

LEMMA Blanks ==
  /\ NoPlan \in PlanType /\ Blank \in StateType /\ Idle \in RoundType /\ NoEntry \in Saved
  /\ Idle.phase = "idle" /\ Idle.plan = NoPlan /\ Idle.sent = <<>>
<1>1. NoPlan \in PlanType /\ {} \in SUBSET MessageId /\ 0 \in Nat
  BY DEF NoPlan, PlanType
<1>2. Blank \in StateType
  BY <1>1, StateOfType DEF Blank
<1> QED
  BY <1>1, <1>2 DEF Idle, NoEntry, Saved, RoundType, Phases

LEMMA PairedEmpty == Paired(<<>>)
BY DEF Paired

\* The rest of a step on one conversation.
LEMMA OneConversation ==
  ASSUME ContextInv, NEW c \in Conv,
         \A d \in Conv \ {c} :
           buffer'[d] = buffer[d] /\ made'[d] = made[d] /\ round'[d] = round[d],
         ConvInv(buffer'[c], made'[c], round'[c], c)
  PROVE  ContextInv'
<1> SUFFICES ASSUME NEW d \in Conv PROVE ConvInv(buffer'[d], made'[d], round'[d], d)
  BY DEF ContextInv
<1>1. CASE d = c
  BY <1>1
<1>2. CASE d # c
  BY <1>2 DEF ContextInv
<1> QED
  BY <1>1, <1>2

\* Neither messages nor rounds.
LEMMA Untouched ==
  ASSUME ContextInv, UNCHANGED <<buffer, made, round>>
  PROVE  ContextInv'
BY DEF ContextInv

\* A round at rest, or about to be planned.
LEMMA FreshRound ==
  ASSUME NEW msgs \in Seq(Message), NEW n, NEW c, NEW r, WellFormed(msgs), Numbered(msgs, c, n),
         r.phase # "running", r.plan = NoPlan, r.sent = <<>> \/ Paired(r.sent)
  PROVE  ConvInv(msgs, n, r, c)
BY SoundNoPlan, PairedEmpty DEF ConvInv

LEMMA CommitType ==
  ASSUME TypeOK, NEW c \in Conv, NEW state \in StateType, NEW byHand \in BOOLEAN,
         Commit(c, state, byHand)
  PROVE  /\ ref' \in StateType /\ manual' \in BOOLEAN
         /\ cache' \in [Conv -> Saved] /\ disk' \in [Conv -> Saved]
<1> DEFINE entry == Kept(state, IF c = screen THEN byHand ELSE cache[c].manual)
<1>1. entry \in Saved
  <2>1. cache[c].manual \in BOOLEAN
    BY DEF TypeOK, Saved
  <2> QED
    BY <2>1 DEF Kept, Saved
<1>2. [entry EXCEPT !.kept = state # Blank] \in Saved
  BY <1>1 DEF Saved
<1>3. /\ disk' = [disk EXCEPT ![c] = [entry EXCEPT !.kept = state # Blank]] /\ manual' = byHand
      /\ IF c = screen THEN ref' = state /\ cache' = cache
                       ELSE cache' = [cache EXCEPT ![c] = entry] /\ ref' = ref
  BY DEF Commit
<1> HIDE DEF entry
<1> QED
  BY <1>1, <1>2, <1>3 DEF TypeOK

\* What planning makes of a round: never one that executes calls, and whose
\* plan omits only what is covered.
Planned(c, r) ==
  /\ r \in RoundType /\ round' = [round EXCEPT ![c] = r]
  /\ r.phase # "running" /\ Sound(buffer[c], r.plan) /\ Paired(r.sent)
  /\ ref' \in StateType /\ manual' \in BOOLEAN
  /\ cache' \in [Conv -> Saved] /\ disk' \in [Conv -> Saved]

LEMMA AfterPlanPhase ==
  ASSUME NEW force
  PROVE  AfterPlan(force) \in Phases \ {"running"}
BY DEF AfterPlan, Phases

LEMMA SettleStep ==
  ASSUME TypeOK, ContextInv, NEW c \in Conv, NEW plan \in PlanType, Sound(buffer[c], plan),
         NEW state \in StateType, NEW force \in BOOLEAN, Settle(c, plan, state, force)
  PROVE  \E r : Planned(c, r)
<1> DEFINE r == [round[c] EXCEPT !.phase = AfterPlan(force), !.plan = plan, !.state = state]
<1>1. round[c] \in RoundType /\ Paired(round[c].sent)
  BY DEF TypeOK, ContextInv, ConvInv
<1>5. (manual \/ force) \in BOOLEAN
  BY DEF TypeOK
<1>2. r \in RoundType /\ r.phase # "running" /\ r.plan = plan /\ r.sent = round[c].sent
  BY <1>1, AfterPlanPhase DEF RoundType
<1>3. round' = [round EXCEPT ![c] = r]
  BY DEF Settle
<1>4. /\ ref' \in StateType /\ manual' \in BOOLEAN
      /\ cache' \in [Conv -> Saved] /\ disk' \in [Conv -> Saved]
  BY <1>5, CommitType DEF Settle
<1> HIDE DEF r
<1> QED
  BY <1>1, <1>2, <1>3, <1>4 DEF Planned

LEMMA CompactStep ==
  ASSUME TypeOK, ContextInv, NEW c \in Conv, NEW force \in BOOLEAN, Compact(c, force)
  PROVE  \E r : Planned(c, r)
<1> DEFINE msgs == buffer[c]
<1>0. msgs \in Seq(Message) /\ WellFormed(msgs) /\ ref \in StateType
  BY DEF TypeOK, ContextInv, ConvInv
<1>1. PICK covers \in 0..Len(msgs) : Plan(msgs, ref, force) = PlanOf(msgs, covers)
  BY <1>0, PlanIsPlanOf
<1> DEFINE plan == PlanOf(msgs, covers)
<1>2. plan \in PlanType /\ Sound(msgs, plan) /\ plan.covers = covers /\ covers \in Nat
  BY <1>0, <1>1, PlanOfType, SoundPlanOf
<1>3. ref.summary \in SUBSET MessageId /\ ref.reuse + 1 \in Nat /\ ref.covers \in Nat
  BY <1>0 DEF StateType
<1>4. \/ Settle(c, plan, StateOf(plan, {}, 0), force)
      \/ Settle(c, plan, StateOf(plan, ref.summary, ref.reuse + 1), force)
      \/ /\ round' = [round EXCEPT ![c] =
              [Idle EXCEPT !.phase = "summarising", !.plan = plan, !.force = force,
                 !.prior = PriorSummary(plan) \cup Ids(SubSeq(msgs, FirstToSummarise(plan), covers))]]
         /\ UNCHANGED <<ref, manual, cache, disk>>
  BY <1>1, <1>2 DEF Compact
<1>5. StateOf(plan, {}, 0) \in StateType /\ StateOf(plan, ref.summary, ref.reuse + 1) \in StateType
  BY <1>2, <1>3, StateOfType
<1>6. PriorSummary(plan) \cup Ids(SubSeq(msgs, FirstToSummarise(plan), covers)) \in SUBSET MessageId
  <2>1. PriorSummary(plan) \in SUBSET MessageId
    BY <1>3 DEF PriorSummary
  <2>2. FirstToSummarise(plan) \in Nat \ {0}
    BY <1>3 DEF FirstToSummarise
  <2> DEFINE first == FirstToSummarise(plan)
  <2>3. SubSeq(msgs, first, covers) \in Seq(Message)
    <3> HIDE DEF first
    <3>1. first \in Int /\ covers \in Int /\ \A i \in first..covers : msgs[i] \in Message
      BY <1>0, <2>2 DEF first
    <3> QED
      BY <3>1, SubSeqProperties
  <2>4. Ids(SubSeq(msgs, first, covers)) \in SUBSET MessageId
    <3> HIDE DEF first
    <3>1. \A i \in DOMAIN SubSeq(msgs, first, covers) : SubSeq(msgs, first, covers)[i] \in Message
      BY <2>3
    <3> QED
      BY <3>1, IdsOfMessages DEF Ids
  <2> QED
    BY <2>1, <2>4
<1> HIDE DEF plan
<1>7. CASE /\ round' = [round EXCEPT ![c] =
                [Idle EXCEPT !.phase = "summarising", !.plan = plan, !.force = force,
                   !.prior = PriorSummary(plan) \cup Ids(SubSeq(msgs, FirstToSummarise(plan), covers))]]
           /\ UNCHANGED <<ref, manual, cache, disk>>
  <2> DEFINE prior == PriorSummary(plan) \cup Ids(SubSeq(msgs, FirstToSummarise(plan), covers))
             r == [Idle EXCEPT !.phase = "summarising", !.plan = plan, !.force = force, !.prior = prior]
  <2>1. prior \in SUBSET MessageId
    BY <1>6
  <2> HIDE DEF prior
  <2>2. r \in RoundType /\ r.phase = "summarising" /\ r.plan = plan /\ r.sent = <<>>
    BY <1>2, <2>1, Blanks DEF RoundType, Phases
  <2>3. round' = [round EXCEPT ![c] = r]
    BY <1>7 DEF prior
  <2>4. Sound(buffer[c], r.plan) /\ Paired(r.sent) /\ r.phase # "running"
    BY <1>2, <2>2, PairedEmpty
  <2> HIDE DEF r
  <2> QED
    BY <1>7, <2>2, <2>3, <2>4 DEF Planned, TypeOK
<1> QED
  BY <1>2, <1>4, <1>5, <1>7, SettleStep

LEMMA PlannedKeeps ==
  ASSUME TypeOK, ContextInv, NEW c \in Conv, NEW r, Planned(c, r),
         UNCHANGED <<buffer, made, screen, swap>>, switches' \in Nat, mishaps' \in Nat
  PROVE  TypeOK' /\ ContextInv'
<1>1. TypeOK'
  BY DEF TypeOK, Planned
<1>2. round'[c] = r /\ \A d \in Conv \ {c} : round'[d] = round[d]
  BY DEF TypeOK, Planned
<1>3. ConvInv(buffer'[c], made'[c], round'[c], c)
  BY <1>2 DEF ContextInv, ConvInv, Planned
<1> QED
  BY <1>1, <1>2, <1>3, OneConversation

\* A turn of the user or of the assistant joins the history.
LEMMA TurnJoins ==
  ASSUME TypeOK, ContextInv, NEW c \in Conv, NEW m \in Message, m.role # "tool",
         m.id = Next1(c), Append1(c, m)
  PROVE  /\ buffer' \in [Conv -> Seq(Message)] /\ made' \in [Conv -> Nat]
         /\ buffer'[c] = Append(buffer[c], m) /\ Extends(buffer'[c], buffer[c])
         /\ WellFormed(buffer'[c]) /\ Numbered(buffer'[c], c, made'[c])
         /\ \A d \in Conv \ {c} : buffer'[d] = buffer[d] /\ made'[d] = made[d]
<1>1. buffer[c] \in Seq(Message) /\ made[c] \in Nat
  BY DEF TypeOK
<1>2. WellFormed(buffer[c]) /\ Numbered(buffer[c], c, made[c])
  BY DEF ContextInv, ConvInv
<1>3. m.id = <<c, made[c] + 1>>
  BY DEF Next1
<1>4. /\ Append(buffer[c], m) \in Seq(Message) /\ Extends(Append(buffer[c], m), buffer[c])
      /\ WellFormed(Append(buffer[c], m)) /\ Numbered(Append(buffer[c], m), c, made[c] + 1)
  BY <1>1, <1>2, <1>3, AppendTurn
<1>5. /\ buffer' = [buffer EXCEPT ![c] = Append(buffer[c], m)]
      /\ made' = [made EXCEPT ![c] = made[c] + 1]
  BY DEF Append1
<1>6. buffer'[c] = Append(buffer[c], m) /\ made'[c] = made[c] + 1
  BY <1>5 DEF TypeOK
<1>7. \A d \in Conv \ {c} : buffer'[d] = buffer[d] /\ made'[d] = made[d]
  BY <1>5 DEF TypeOK
<1>8. buffer' \in [Conv -> Seq(Message)] /\ made' \in [Conv -> Nat]
  BY <1>1, <1>4, <1>5 DEF TypeOK
<1> QED
  BY <1>4, <1>6, <1>7, <1>8

LEMMA TurnsAreMessages ==
  ASSUME NEW c \in Conv, made[c] \in Nat
  PROVE  /\ User(Next1(c)) \in Message /\ User(Next1(c)).role = "user"
         /\ User(Next1(c)).id = Next1(c)
         /\ \A calls \in Batch \cup {<<>>} :
              /\ Assistant(Next1(c), calls) \in Message
              /\ Assistant(Next1(c), calls).role = "assistant"
              /\ Assistant(Next1(c), calls).id = Next1(c)
              /\ Assistant(Next1(c), calls).calls = calls
         /\ EmptyReply(Next1(c)) \in Message /\ EmptyReply(Next1(c)).role = "assistant"
         /\ EmptyReply(Next1(c)).id = Next1(c)
<1>1. Next1(c) \in Turn
  BY DEF Next1, Turn
<1> HIDE DEF Turn
<1> QED
  BY <1>1 DEF User, Assistant, EmptyReply, Message, Asking, Calling

LEMMA SendKeeps ==
  ASSUME TypeOK, ContextInv, NEW c \in Conv, Send(c)
  PROVE  TypeOK' /\ ContextInv'
<1> DEFINE r == [Idle EXCEPT !.phase = "starting"]
<1>1. r \in RoundType /\ r.phase = "starting" /\ r.plan = NoPlan /\ r.sent = <<>>
  BY Blanks DEF RoundType, Phases
<1>2. round' = [round EXCEPT ![c] = r]
  BY DEF Send
<1> HIDE DEF r
<1>3. User(Next1(c)) \in Message /\ User(Next1(c)).role # "tool" /\ User(Next1(c)).id = Next1(c)
  BY TurnsAreMessages DEF TypeOK
<1>4. /\ buffer' \in [Conv -> Seq(Message)] /\ made' \in [Conv -> Nat]
      /\ WellFormed(buffer'[c]) /\ Numbered(buffer'[c], c, made'[c])
      /\ \A d \in Conv \ {c} : buffer'[d] = buffer[d] /\ made'[d] = made[d]
  BY <1>3, TurnJoins DEF Send
<1>5. round' \in [Conv -> RoundType] /\ round'[c] = r /\ \A d \in Conv \ {c} : round'[d] = round[d]
  BY <1>1, <1>2 DEF TypeOK
<1>6. TypeOK'
  BY <1>4, <1>5 DEF Send, TypeOK
<1>7. ConvInv(buffer'[c], made'[c], round'[c], c)
  <2>1. buffer'[c] \in Seq(Message)
    BY <1>4
  <2> QED
    BY <1>1, <1>4, <1>5, <2>1, FreshRound
<1> QED
  BY <1>4, <1>5, <1>6, <1>7, OneConversation

LEMMA PlanningKeeps ==
  ASSUME TypeOK, ContextInv, NEW c \in Conv, PlanRound(c) \/ CompactNow(c)
  PROVE  TypeOK' /\ ContextInv'
<1>1. CASE PlanRound(c)
  <2>1. PICK r : Planned(c, r)
    BY <1>1, CompactStep DEF PlanRound
  <2> QED
    BY <1>1, <2>1, PlannedKeeps DEF PlanRound, TypeOK
<1>2. CASE CompactNow(c)
  <2>1. PICK r : Planned(c, r)
    BY <1>2, CompactStep DEF CompactNow
  <2> QED
    BY <1>2, <2>1, PlannedKeeps DEF CompactNow, Mishap, TypeOK
<1> QED
  BY <1>1, <1>2

LEMMA NoCompactionKeeps ==
  ASSUME TypeOK, ContextInv, NEW c \in Conv, NoCompaction(c)
  PROVE  TypeOK' /\ ContextInv'
<1> SUFFICES \E r : Planned(c, r)
  BY PlannedKeeps DEF NoCompaction, TypeOK
<1> DEFINE Resumed(s) == [round[c] EXCEPT !.phase = "calling", !.state = s]
<1>1. round[c] \in RoundType /\ Paired(round[c].sent) /\ Sound(buffer[c], round[c].plan)
  BY DEF TypeOK, ContextInv, ConvInv
<1>2. ASSUME NEW s \in StateType
      PROVE  /\ Resumed(s) \in RoundType /\ Resumed(s).phase = "calling"
             /\ Resumed(s).plan = round[c].plan /\ Resumed(s).sent = round[c].sent
  BY <1>1 DEF RoundType, Phases
<1>3. CASE manual
  <2>1. round' = [round EXCEPT ![c] = Resumed(ref)] /\ UNCHANGED <<ref, manual, cache, disk>>
    BY <1>3 DEF NoCompaction, TypeOK
  <2>2. ref \in StateType
    BY DEF TypeOK
  <2> HIDE DEF Resumed
  <2> QED
    BY <1>1, <1>2, <2>1, <2>2 DEF Planned, TypeOK
<1>4. CASE ~manual
  <2>1. round' = [round EXCEPT ![c] = Resumed(round[c].state)] /\ Commit(c, Blank, FALSE)
    BY <1>1, <1>4 DEF NoCompaction, TypeOK, RoundType
  <2>2. round[c].state \in StateType
    BY <1>1 DEF RoundType
  <2>3. /\ ref' \in StateType /\ manual' \in BOOLEAN
        /\ cache' \in [Conv -> Saved] /\ disk' \in [Conv -> Saved]
    BY <2>1, Blanks, CommitType
  <2> HIDE DEF Resumed
  <2> QED
    BY <1>1, <1>2, <2>1, <2>2, <2>3 DEF Planned
<1> QED
  BY <1>3, <1>4

LEMMA SummarisedKeeps ==
  ASSUME TypeOK, ContextInv, NEW c \in Conv, Summarised(c)
  PROVE  TypeOK' /\ ContextInv'
<1> SUFFICES \E r : Planned(c, r)
  BY PlannedKeeps DEF Summarised, TypeOK
<1>1. round[c] \in RoundType /\ Sound(buffer[c], round[c].plan)
  BY DEF TypeOK, ContextInv, ConvInv
<1>2. /\ round[c].plan \in PlanType /\ round[c].prior \in SUBSET MessageId
      /\ round[c].force \in BOOLEAN
  BY <1>1 DEF RoundType
<1>3. PICK text \in {round[c].prior, {}} :
        /\ Commit(c, StateOf(round[c].plan, text, 0), manual \/ round[c].force)
        /\ round' = [round EXCEPT ![c] = [Idle EXCEPT !.phase = AfterPlan(round[c].force),
                        !.plan = round[c].plan, !.state = StateOf(round[c].plan, text, 0)]]
  BY DEF Summarised
<1> DEFINE state == StateOf(round[c].plan, text, 0)
           r == [Idle EXCEPT !.phase = AfterPlan(round[c].force),
                             !.plan = round[c].plan, !.state = state]
<1>4. state \in StateType
  BY <1>2, <1>3, StateOfType
<1>5. (manual \/ round[c].force) \in BOOLEAN
  BY <1>2 DEF TypeOK
<1>6. Commit(c, state, manual \/ round[c].force) /\ round' = [round EXCEPT ![c] = r]
  BY <1>3
<1> HIDE DEF state
<1>7. r \in RoundType /\ r.phase # "running" /\ r.plan = round[c].plan /\ r.sent = <<>>
  BY <1>2, <1>4, AfterPlanPhase, Blanks DEF RoundType
<1>8. /\ ref' \in StateType /\ manual' \in BOOLEAN
      /\ cache' \in [Conv -> Saved] /\ disk' \in [Conv -> Saved]
  BY <1>4, <1>5, <1>6, CommitType
<1> HIDE DEF r
<1> QED
  BY <1>1, <1>6, <1>7, <1>8, PairedEmpty DEF Planned

LEMMA AskKeeps ==
  ASSUME TypeOK, ContextInv, NEW c \in Conv, Ask(c)
  PROVE  TypeOK' /\ ContextInv'
<1> DEFINE sent == Request(buffer[c], round[c].state)
<1>0. round[c] \in RoundType /\ Sound(buffer[c], round[c].plan) /\ buffer[c] \in Seq(Message)
  BY DEF TypeOK, ContextInv, ConvInv
<1>1. sent \in Seq(WireEntry) /\ Paired(sent)
  BY <1>0, RequestPaired DEF RoundType
<1> HIDE DEF sent
\* One of the three replies: the message, and the round it leaves.
<1>2. \E m, r :
        /\ m \in Message /\ m.role = "assistant" /\ m.id = Next1(c) /\ Append1(c, m)
        /\ r \in RoundType /\ round' = [round EXCEPT ![c] = r] /\ r.sent = sent
        /\ r.plan \in {round[c].plan, NoPlan}
        /\ r.phase = "running" => m.calls \in Batch
  <2>1. ASSUME NEW calls \in Batch,
               Append1(c, Assistant(Next1(c), calls)),
               round' = [round EXCEPT ![c].phase = "running", ![c].sent = sent]
        PROVE  \E m, r :
                 /\ m \in Message /\ m.role = "assistant" /\ m.id = Next1(c) /\ Append1(c, m)
                 /\ r \in RoundType /\ round' = [round EXCEPT ![c] = r] /\ r.sent = sent
                 /\ r.plan \in {round[c].plan, NoPlan}
                 /\ r.phase = "running" => m.calls \in Batch
    <3> DEFINE m == Assistant(Next1(c), calls)
               r == [round[c] EXCEPT !.phase = "running", !.sent = sent]
    <3>1. m \in Message /\ m.role = "assistant" /\ m.id = Next1(c) /\ m.calls = calls
      BY TurnsAreMessages DEF TypeOK
    <3>2. r \in RoundType /\ r.plan = round[c].plan /\ r.sent = sent
      BY <1>0, <1>1 DEF RoundType, Phases
    <3>3. round' = [round EXCEPT ![c] = r]
      BY <2>1 DEF TypeOK
    <3>4. Append1(c, m)
      BY <2>1
    <3> HIDE DEF m, r
    <3> QED
      BY <3>1, <3>2, <3>3, <3>4
  <2>2. ASSUME Append1(c, EmptyReply(Next1(c))),
               round' = [round EXCEPT ![c].phase = "calling", ![c].sent = sent]
        PROVE  \E m, r :
                 /\ m \in Message /\ m.role = "assistant" /\ m.id = Next1(c) /\ Append1(c, m)
                 /\ r \in RoundType /\ round' = [round EXCEPT ![c] = r] /\ r.sent = sent
                 /\ r.plan \in {round[c].plan, NoPlan}
                 /\ r.phase = "running" => m.calls \in Batch
    <3> DEFINE m == EmptyReply(Next1(c))
               r == [round[c] EXCEPT !.phase = "calling", !.sent = sent]
    <3>1. m \in Message /\ m.role = "assistant" /\ m.id = Next1(c)
      BY TurnsAreMessages DEF TypeOK
    <3>2. r \in RoundType /\ r.plan = round[c].plan /\ r.sent = sent /\ r.phase = "calling"
      BY <1>0, <1>1 DEF RoundType, Phases
    <3>3. round' = [round EXCEPT ![c] = r]
      BY <2>2 DEF TypeOK
    <3>4. Append1(c, m)
      BY <2>2
    <3> HIDE DEF m, r
    <3> QED
      BY <3>1, <3>2, <3>3, <3>4
  <2>3. ASSUME Append1(c, Assistant(Next1(c), <<>>)),
               round' = [round EXCEPT ![c] = [Idle EXCEPT !.sent = sent]]
        PROVE  \E m, r :
                 /\ m \in Message /\ m.role = "assistant" /\ m.id = Next1(c) /\ Append1(c, m)
                 /\ r \in RoundType /\ round' = [round EXCEPT ![c] = r] /\ r.sent = sent
                 /\ r.plan \in {round[c].plan, NoPlan}
                 /\ r.phase = "running" => m.calls \in Batch
    <3> DEFINE m == Assistant(Next1(c), <<>>)
               r == [Idle EXCEPT !.sent = sent]
    <3>1. m \in Message /\ m.role = "assistant" /\ m.id = Next1(c)
      BY TurnsAreMessages DEF TypeOK
    <3>2. r \in RoundType /\ r.plan = NoPlan /\ r.sent = sent /\ r.phase = "idle"
      BY <1>1, Blanks DEF RoundType, Phases
    <3>3. round' = [round EXCEPT ![c] = r]
      BY <2>3
    <3>4. Append1(c, m)
      BY <2>3
    <3> HIDE DEF m, r
    <3> QED
      BY <3>1, <3>2, <3>3, <3>4
  <2> QED
    BY <2>1, <2>2, <2>3 DEF Ask, sent
<1>3. PICK m, r :
        /\ m \in Message /\ m.role = "assistant" /\ m.id = Next1(c) /\ Append1(c, m)
        /\ r \in RoundType /\ round' = [round EXCEPT ![c] = r] /\ r.sent = sent
        /\ r.plan \in {round[c].plan, NoPlan}
        /\ r.phase = "running" => m.calls \in Batch
  BY <1>2
<1>4. /\ buffer' \in [Conv -> Seq(Message)] /\ made' \in [Conv -> Nat]
      /\ buffer'[c] = Append(buffer[c], m) /\ Extends(buffer'[c], buffer[c])
      /\ WellFormed(buffer'[c]) /\ Numbered(buffer'[c], c, made'[c])
      /\ \A d \in Conv \ {c} : buffer'[d] = buffer[d] /\ made'[d] = made[d]
  BY <1>3, TurnJoins
<1>5. round' \in [Conv -> RoundType] /\ round'[c] = r /\ \A d \in Conv \ {c} : round'[d] = round[d]
  BY <1>3 DEF TypeOK
<1>6. TypeOK'
  BY <1>4, <1>5 DEF Ask, TypeOK
<1>7. buffer'[c] \in Seq(Message)
  BY <1>4
<1>8. Sound(buffer'[c], r.plan)
  BY <1>0, <1>3, <1>4, <1>7, SoundExtends, SoundNoPlan
<1>9. r.phase = "running" => HalfAnswered(buffer'[c], Len(buffer'[c]))
  <2> SUFFICES ASSUME r.phase = "running" PROVE HalfAnswered(buffer'[c], Len(buffer'[c]))
    OBVIOUS
  <2> DEFINE h == Len(buffer'[c])
  <2>1. h = Len(buffer[c]) + 1 /\ h \in DOMAIN buffer'[c] /\ buffer'[c][h] = m /\ h \in Nat
    BY <1>0, <1>4, <1>7
  <2>2. m.calls \in Seq(Calls) \ {<<>>}
    BY <1>3, BatchAssumption
  <2>3. 0 < Len(m.calls)
    BY <2>2
  <2>4. h + 1..Len(buffer'[c]) = {}
    BY <2>1
  <2> HIDE DEF h
  <2>5. h = Len(buffer'[c])
    BY DEF h
  <2> QED
    BY <1>3, <2>1, <2>3, <2>4, <2>5 DEF HalfAnswered
<1>10. ConvInv(buffer'[c], made'[c], round'[c], c)
  <2>1. Len(buffer'[c]) \in DOMAIN buffer'[c]
    BY <1>0, <1>4, <1>7
  <2> QED
    BY <1>1, <1>3, <1>4, <1>5, <1>8, <1>9, <2>1 DEF ConvInv
<1> QED
  BY <1>4, <1>5, <1>6, <1>10, OneConversation

\* The message a running round is executing is the one it has half answered.
LEMMA OpenIsHalfAnswered ==
  ASSUME TypeOK, ContextInv, NEW c \in Conv, round[c].phase = "running"
  PROVE  HalfAnswered(buffer[c], Open(c))
<1>1. PICK h \in DOMAIN buffer[c] : HalfAnswered(buffer[c], h)
  BY DEF ContextInv, ConvInv
<1>2. buffer[c] \in Seq(Message)
  BY DEF TypeOK
<1> DEFINE Ends(i) == /\ buffer[c][i].role = "assistant"
                      /\ \A j \in (i + 1)..Len(buffer[c]) : buffer[c][j].role = "tool"
<1>3. Ends(h)
  BY <1>1 DEF HalfAnswered
<1>4. ASSUME NEW i \in DOMAIN buffer[c], Ends(i)
      PROVE  i = h
  <2>1. i \in 1..Len(buffer[c]) /\ h \in 1..Len(buffer[c])
    BY <1>2
  <2>2. ~(i < h)
    <3> SUFFICES ASSUME i < h PROVE FALSE
      OBVIOUS
    <3>1. h \in i + 1..Len(buffer[c])
      BY <2>1
    <3> QED
      BY <1>3, <1>4, <3>1
  <2>3. ~(h < i)
    <3> SUFFICES ASSUME h < i PROVE FALSE
      OBVIOUS
    <3>1. i \in h + 1..Len(buffer[c])
      BY <2>1
    <3> QED
      BY <1>3, <1>4, <3>1
  <2> QED
    BY <2>1, <2>2, <2>3
<1>5. Open(c) = CHOOSE i \in DOMAIN buffer[c] : Ends(i)
  BY DEF Open
<1>6. Open(c) \in DOMAIN buffer[c] /\ Ends(Open(c))
  <2> HIDE DEF Ends
  <2> QED
    BY <1>3, <1>5
<1> QED
  BY <1>1, <1>4, <1>6

LEMMA ToolResultKeeps ==
  ASSUME TypeOK, ContextInv, NEW c \in Conv, ToolResult(c)
  PROVE  TypeOK' /\ ContextInv'
<1> DEFINE msgs == buffer[c]
           h == Open(c)
           k == Len(msgs) - h + 1
           m == msgs[h]
           r == [round[c] EXCEPT !.phase = IF k = Len(m.calls) THEN "calling" ELSE "running"]
<1>1. /\ msgs \in Seq(Message) /\ made[c] \in Nat /\ round[c] \in RoundType
      /\ WellFormed(msgs) /\ Numbered(msgs, c, made[c])
      /\ Sound(msgs, round[c].plan) /\ Paired(round[c].sent)
  BY DEF TypeOK, ContextInv, ConvInv
<1>2. HalfAnswered(msgs, h)
  BY OpenIsHalfAnswered DEF ToolResult
<1>3. PICK size \in Sizes \cup {"small"} : Append1(c, Result(m.id, k, m.calls[k], size))
  BY DEF ToolResult
<1>4. round' = [round EXCEPT ![c] = r]
  BY DEF ToolResult, TypeOK
<1> HIDE DEF msgs, h, k
<1>5. h \in 1..Len(msgs) /\ k = Len(msgs) - h + 1 /\ m \in Message /\ m.role = "assistant"
  BY <1>1, <1>2 DEF HalfAnswered, k
<1>6. m.calls \in Seq(Calls) /\ m.id \in Turn
  <2>1. m \in Calling
    BY <1>5, MessageKinds
  <2> QED
    BY <1>5, <2>1, CallsOfMessage DEF Calling
<1>7. Len(msgs) - h < Len(m.calls) /\ k \in 1..Len(m.calls) /\ k \in Nat
  BY <1>1, <1>2, <1>5, <1>6 DEF HalfAnswered
<1> DEFINE a == Result(m.id, k, m.calls[k], size)
<1>8. a \in Answer /\ a.id = <<m.id, k>> /\ a.call = m.calls[k] /\ a.role = "tool"
  <2>1. m.calls[k] \in Calls
    BY <1>6, <1>7
  <2>2. <<m.id, k>> \in Turn \X Nat
    BY <1>6, <1>7
  <2> QED
    BY <1>3, <2>1, <2>2 DEF Answer, Result
<1>9. Append1(c, a)
  BY <1>3
<1> HIDE DEF a, m
<1> DEFINE longer == Append(msgs, a)
<1>10. longer = msgs \o <<a>> /\ a \in Message
  BY <1>1, <1>8 DEF Message
<1>11. /\ longer \in Seq(Message) /\ Extends(longer, msgs)
       /\ WellFormed(longer) /\ Numbered(longer, c, made[c])
  <2> DEFINE res == <<a>>
  <2>1. res \in Seq(Answer) /\ Len(res) = 1 /\ DOMAIN res = {1} /\ res[1] = a
    BY <1>8
  <2>2. Len(msgs) - h + Len(res) <= Len(msgs[h].calls)
    BY <1>1, <1>5, <1>6, <1>7, <2>1 DEF m
  <2>3. Len(msgs) - h + 1 = k
    BY <1>5
  <2>4. \A x \in DOMAIN res :
          LET n == Len(msgs) - h + x
          IN res[x].id = <<msgs[h].id, n>> /\ res[x].call = msgs[h].calls[n]
    BY <1>8, <2>1, <2>3 DEF m
  <2> HIDE DEF res
  <2>5. /\ msgs \o res \in Seq(Message) /\ Extends(msgs \o res, msgs)
        /\ WellFormed(msgs \o res) /\ Numbered(msgs \o res, c, made[c])
    BY <1>1, <1>2, <2>1, <2>2, <2>4, AppendAnswers
  <2> QED
    BY <1>10, <2>5 DEF res
<1>12. Numbered(longer, c, made[c] + 1)
  <2> SUFFICES ASSUME NEW i \in DOMAIN longer, longer[i].role # "tool"
               PROVE  \E x \in 1..made[c] + 1 : longer[i].id = <<c, x>>
    BY DEF Numbered
  <2>1. PICK x \in 1..made[c] : longer[i].id = <<c, x>>
    BY <1>11 DEF Numbered
  <2> QED
    BY <1>1, <2>1
<1>13. /\ Len(longer) = Len(msgs) + 1 /\ longer[Len(msgs) + 1] = a
       /\ \A i \in 1..Len(msgs) : longer[i] = msgs[i]
  BY <1>1
<1>14. ASSUME r.phase = "running"
       PROVE  h \in DOMAIN longer /\ HalfAnswered(longer, h)
  <2>1. k # Len(m.calls)
    BY <1>1, <1>14 DEF RoundType
  <2>2. h \in DOMAIN longer /\ longer[h] = m
    BY <1>5, <1>11, <1>13 DEF m
  <2>3. ASSUME NEW j \in h + 1..Len(longer) PROVE longer[j].role = "tool"
    <3>1. CASE j = Len(msgs) + 1
      BY <1>8, <1>13, <3>1
    <3>2. CASE j # Len(msgs) + 1
      <4>1. j \in h + 1..Len(msgs) /\ j \in 1..Len(msgs)
        BY <1>1, <1>5, <1>13, <3>2
      <4> QED
        BY <1>2, <1>13, <4>1 DEF HalfAnswered
    <3> QED
      BY <3>1, <3>2
  <2>4. Len(longer) - h < Len(longer[h].calls)
    <3>1. Len(longer) - h = k
      BY <1>1, <1>5, <1>13
    <3>2. Len(m.calls) \in Nat
      BY <1>6
    <3>3. k < Len(m.calls)
      BY <1>7, <2>1, <3>2
    <3> QED
      BY <2>2, <3>1, <3>3
  <2> QED
    BY <1>5, <2>2, <2>3, <2>4 DEF HalfAnswered
<1>15. r \in RoundType /\ r.plan = round[c].plan /\ r.sent = round[c].sent
  BY <1>1 DEF RoundType, Phases
<1> HIDE DEF r
<1>16. buffer' = [buffer EXCEPT ![c] = longer] /\ made' = [made EXCEPT ![c] = made[c] + 1]
  BY <1>9 DEF Append1, msgs
<1> HIDE DEF longer
<1>17. /\ buffer' \in [Conv -> Seq(Message)] /\ made' \in [Conv -> Nat]
       /\ round' \in [Conv -> RoundType]
       /\ buffer'[c] = longer /\ made'[c] = made[c] + 1 /\ round'[c] = r
       /\ \A d \in Conv \ {c} :
            buffer'[d] = buffer[d] /\ made'[d] = made[d] /\ round'[d] = round[d]
  BY <1>1, <1>4, <1>11, <1>15, <1>16 DEF TypeOK
<1>18. TypeOK'
  BY <1>17 DEF ToolResult, TypeOK
<1>19. Sound(longer, r.plan)
  BY <1>1, <1>11, <1>15, SoundExtends
<1>20. ConvInv(longer, made[c] + 1, r, c)
  BY <1>1, <1>11, <1>12, <1>14, <1>15, <1>19 DEF ConvInv
<1> QED
  BY <1>17, <1>18, <1>20, OneConversation

LEMMA StopKeeps ==
  ASSUME TypeOK, ContextInv, NEW c \in Conv, Stop(c)
  PROVE  TypeOK' /\ ContextInv'
<1>1. /\ buffer[c] \in Seq(Message) /\ made[c] \in Nat /\ round[c] \in RoundType
      /\ WellFormed(buffer[c]) /\ Numbered(buffer[c], c, made[c])
  BY DEF TypeOK, ContextInv, ConvInv
<1>2. /\ round' \in [Conv -> RoundType] /\ round'[c] = Idle
      /\ \A d \in Conv \ {c} : round'[d] = round[d]
  BY Blanks DEF Stop, TypeOK
<1>3. /\ mishaps' \in Nat /\ UNCHANGED <<made, screen, swap, switches>>
  BY DEF Stop, Mishap, TypeOK
\* Of the history and the stored plans: what each of the three cases leaves.
<1>4. ASSUME buffer' \in [Conv -> Seq(Message)],
             WellFormed(buffer'[c]), Numbered(buffer'[c], c, made[c]),
             \A d \in Conv \ {c} : buffer'[d] = buffer[d],
             ref' \in StateType, manual' \in BOOLEAN,
             cache' \in [Conv -> Saved], disk' \in [Conv -> Saved]
      PROVE  TypeOK' /\ ContextInv'
  <2>1. TypeOK'
    BY <1>2, <1>3, <1>4 DEF TypeOK
  <2>2. buffer'[c] \in Seq(Message)
    BY <1>4
  <2>3. ConvInv(buffer'[c], made'[c], round'[c], c)
    BY <1>2, <1>3, <1>4, <2>2, Blanks, FreshRound
  <2> QED
    BY <1>2, <1>3, <1>4, <2>1, <2>3, OneConversation
<1>5. CASE UNCHANGED <<buffer, ref, manual, cache, disk>>
  BY <1>1, <1>4, <1>5 DEF TypeOK
<1>6. CASE /\ round[c].phase = "running"
           /\ buffer' = [buffer EXCEPT ![c] = buffer[c] \o Placeholders(c)]
           /\ UNCHANGED <<ref, manual, cache, disk>>
  <2> DEFINE msgs == buffer[c]
             h == Open(c)
             m == msgs[h]
             left == Len(m.calls) - (Len(msgs) - h)
             res == Placeholders(c)
  <2>1. HalfAnswered(msgs, h)
    BY <1>6, OpenIsHalfAnswered
  <2>2. res = [n \in 1..left |->
                 Result(m.id, Len(msgs) - h + n, m.calls[Len(msgs) - h + n], "small")]
    BY DEF Placeholders
  <2>3. msgs \in Seq(Message)
    BY <1>1
  <2> HIDE DEF msgs, h, res
  <2>4. h \in 1..Len(msgs) /\ m \in Message /\ m.role = "assistant"
    BY <2>1, <2>3 DEF HalfAnswered
  <2>5. m.calls \in Seq(Calls) /\ m.id \in Turn
    <3>1. m \in Calling
      BY <2>4, MessageKinds
    <3> QED
      BY <2>4, <3>1, CallsOfMessage DEF Calling
  <2>6. left \in Nat /\ Len(msgs) - h < Len(m.calls) /\ Len(msgs) - h \in Nat
    BY <2>1, <2>3, <2>4, <2>5 DEF HalfAnswered
  <2> HIDE DEF m
  <2>7. ASSUME NEW n \in 1..left
        PROVE  Result(m.id, Len(msgs) - h + n, m.calls[Len(msgs) - h + n], "small") \in Answer
    <3> DEFINE k == Len(msgs) - h + n
    <3>1. k \in 1..Len(m.calls) /\ k \in Nat
      BY <2>4, <2>5, <2>6
    <3>2. m.calls[k] \in Calls /\ <<m.id, k>> \in Turn \X Nat
      BY <2>5, <3>1
    <3> HIDE DEF k
    <3>3. Result(m.id, k, m.calls[k], "small") \in Answer
      BY <3>2 DEF Answer, Result
    <3> QED
      BY <3>3 DEF k
  <2> HIDE DEF left
  <2>8. res \in Seq(Answer) /\ Len(res) = left /\ DOMAIN res = 1..left
    <3>1. res \in [1..left -> Answer]
      BY <2>2, <2>7
    <3>2. res \in Seq(Answer)
      BY <2>6, <3>1
    <3> QED
      BY <2>6, <3>1, <3>2
  <2>9. \A x \in DOMAIN res :
          LET k == Len(msgs) - h + x
          IN res[x].id = <<msgs[h].id, k>> /\ res[x].call = msgs[h].calls[k]
    BY <2>2, <2>8 DEF Result, m
  <2>10. Len(msgs) - h + Len(res) <= Len(msgs[h].calls)
    BY <2>3, <2>4, <2>5, <2>6, <2>8 DEF m, left
  <2>11. WellFormed(msgs) /\ Numbered(msgs, c, made[c]) /\ made[c] \in Nat
    BY <1>1 DEF msgs
  <2>12. /\ msgs \o res \in Seq(Message) /\ WellFormed(msgs \o res)
         /\ Numbered(msgs \o res, c, made[c])
    <3>1. res \in Seq(Answer)
      BY <2>8
    <3>2. /\ msgs \o res \in Seq(Message) /\ Extends(msgs \o res, msgs)
          /\ WellFormed(msgs \o res) /\ Numbered(msgs \o res, c, made[c])
      BY <2>1, <2>3, <2>9, <2>10, <2>11, <3>1, AppendAnswers
    <3> QED
      BY <3>2
  <2>13. buffer' = [buffer EXCEPT ![c] = msgs \o res]
    BY <1>6 DEF msgs, res
  <2> QED
    BY <1>4, <1>6, <2>12, <2>13 DEF TypeOK
<1>7. CASE /\ Commit(c, StateOf(round[c].plan, {}, 0), manual \/ round[c].force)
           /\ UNCHANGED buffer
  <2>1. round[c].plan \in PlanType /\ (manual \/ round[c].force) \in BOOLEAN
    BY <1>1 DEF TypeOK, RoundType
  <2>2. StateOf(round[c].plan, {}, 0) \in StateType
    BY <2>1, StateOfType
  <2>3. /\ ref' \in StateType /\ manual' \in BOOLEAN
        /\ cache' \in [Conv -> Saved] /\ disk' \in [Conv -> Saved]
    BY <1>7, <2>1, <2>2, CommitType
  <2> QED
    BY <1>1, <1>4, <1>7, <2>3 DEF TypeOK
<1> QED
  BY <1>5, <1>6, <1>7 DEF Stop

LEMMA EditKeeps ==
  ASSUME TypeOK, ContextInv, NEW c \in Conv, Edit(c)
  PROVE  TypeOK' /\ ContextInv'
<1>1. /\ buffer[c] \in Seq(Message) /\ made[c] \in Nat
      /\ WellFormed(buffer[c]) /\ Numbered(buffer[c], c, made[c])
  BY DEF TypeOK, ContextInv, ConvInv
<1>2. PICK i \in DOMAIN buffer[c] :
        buffer' = [buffer EXCEPT ![c] = Append(SubSeq(buffer[c], 1, i - 1), User(Next1(c)))]
  BY DEF Edit, Turns
<1> DEFINE cut == SubSeq(buffer[c], 1, i - 1)
           longer == Append(cut, User(Next1(c)))
           r == [Idle EXCEPT !.phase = "starting"]
<1>3. cut \in Seq(Message) /\ WellFormed(cut) /\ Numbered(cut, c, made[c])
  BY <1>1, CutKeeps
<1> HIDE DEF cut
<1>4. User(Next1(c)) \in Message /\ User(Next1(c)).role # "tool" /\ User(Next1(c)).id = Next1(c)
  BY TurnsAreMessages DEF TypeOK
<1>5. User(Next1(c)).id = <<c, made[c] + 1>>
  BY <1>4 DEF Next1
<1>6. longer \in Seq(Message) /\ WellFormed(longer) /\ Numbered(longer, c, made[c] + 1)
  BY <1>1, <1>3, <1>4, <1>5, AppendTurn
<1>7. r \in RoundType /\ r.phase = "starting" /\ r.plan = NoPlan /\ r.sent = <<>>
  BY Blanks DEF RoundType, Phases
<1>8. /\ buffer' = [buffer EXCEPT ![c] = longer] /\ made' = [made EXCEPT ![c] = made[c] + 1]
      /\ round' = [round EXCEPT ![c] = r]
  BY <1>2 DEF Edit, cut
<1> HIDE DEF r, longer
<1>9. /\ buffer' \in [Conv -> Seq(Message)] /\ made' \in [Conv -> Nat]
      /\ round' \in [Conv -> RoundType]
      /\ buffer'[c] = longer /\ made'[c] = made[c] + 1 /\ round'[c] = r
      /\ \A d \in Conv \ {c} :
           buffer'[d] = buffer[d] /\ made'[d] = made[d] /\ round'[d] = round[d]
  BY <1>1, <1>6, <1>7, <1>8 DEF TypeOK
<1>10. TypeOK'
  <2>1. disk' \in [Conv -> Saved]
    BY Blanks DEF Edit, TypeOK
  <2>2. ref' \in StateType /\ manual' \in BOOLEAN
    BY Blanks DEF Edit
  <2> QED
    BY <1>9, <2>1, <2>2 DEF Edit, Mishap, TypeOK
<1>11. ConvInv(longer, made[c] + 1, r, c)
  BY <1>6, <1>7, FreshRound
<1> QED
  BY <1>9, <1>10, <1>11, OneConversation

LEMMA SwitchingKeeps ==
  ASSUME TypeOK, ContextInv,
         NewChat \/ \E c \in Conv : SwitchTo(c) \/ Switched(c)
  PROVE  TypeOK' /\ ContextInv'
<1>1. UNCHANGED <<buffer, made, round>>
  BY DEF NewChat, SwitchTo, Switched
<1>3. ASSUME NEW c \in Conv, SwitchTo(c)
      PROVE  TypeOK'
  <2>1. Kept(ref, manual) \in Saved
    BY DEF Kept, Saved, TypeOK
  <2>2. cache' \in [Conv -> Saved]
    BY <1>3, <2>1 DEF SwitchTo, Snapshot, TypeOK
  <2> QED
    BY <1>3, <2>2 DEF SwitchTo, TypeOK
<1>4. ASSUME NEW c \in Conv, Switched(c)
      PROVE  TypeOK'
  <2>1. Restored(c) \in Saved
    BY DEF Restored, TypeOK
  <2> QED
    BY <1>4, <2>1 DEF Switched, TypeOK, Saved
<1>5. TypeOK'
  <2>1. CASE NewChat
    <3>1. ref' \in StateType /\ manual' \in BOOLEAN
      BY <2>1, Blanks DEF NewChat
    <3> QED
      BY <1>1, <2>1, <3>1 DEF NewChat, TypeOK
  <2> QED
    BY <1>3, <1>4, <2>1
<1> QED
  BY <1>1, <1>5, Untouched

LEMMA RestartKeeps ==
  ASSUME TypeOK, ContextInv, Restart
  PROVE  TypeOK' /\ ContextInv'
<1>1. TypeOK'
  <2>1. ref' \in StateType /\ manual' \in BOOLEAN
    BY Blanks DEF Restart
  <2>2. cache' \in [Conv -> Saved] /\ round' \in [Conv -> RoundType]
    BY Blanks DEF Restart
  <2> QED
    BY <2>1, <2>2 DEF Restart, Mishap, TypeOK
<1>2. ASSUME NEW c \in Conv
      PROVE  ConvInv(buffer'[c], made'[c], round'[c], c)
  <2>1. buffer[c] \in Seq(Message) /\ WellFormed(buffer[c]) /\ Numbered(buffer[c], c, made[c])
    BY DEF TypeOK, ContextInv, ConvInv
  <2>2. buffer' = buffer /\ made' = made /\ round'[c] = Idle
    BY DEF Restart
  <2> QED
    BY <2>1, <2>2, Blanks, FreshRound
<1> QED
  BY <1>1, <1>2 DEF ContextInv

-----------------------------------------------------------------------------
(* The theorems.                                                           *)

LEMMA ContextInit ==
  ASSUME Init
  PROVE  TypeOK /\ ContextInv
<1>1. <<>> \in Seq(Message) /\ WellFormed(<<>>)
  BY DEF WellFormed
<1>2. TypeOK
  BY <1>1, Blanks DEF Init, TypeOK
<1>3. ASSUME NEW c \in Conv
      PROVE  ConvInv(buffer[c], made[c], round[c], c)
  <2>1. buffer[c] = <<>> /\ made[c] = 0 /\ round[c] = Idle
    BY DEF Init
  <2>2. Numbered(<<>>, c, 0)
    BY DEF Numbered
  <2> QED
    BY <1>1, <2>1, <2>2, Blanks, FreshRound
<1> QED
  BY <1>2, <1>3 DEF ContextInv

LEMMA ContextNext ==
  ASSUME TypeOK, ContextInv, [Next]_vars
  PROVE  TypeOK' /\ ContextInv'
<1>1. ASSUME NEW c \in Conv,
             \/ Send(c) \/ PlanRound(c) \/ NoCompaction(c) \/ CompactNow(c)
             \/ Summarised(c) \/ Ask(c) \/ ToolResult(c) \/ Stop(c) \/ Edit(c)
             \/ SwitchTo(c) \/ Switched(c)
      PROVE  TypeOK' /\ ContextInv'
  BY <1>1, SendKeeps, PlanningKeeps, NoCompactionKeeps, SummarisedKeeps, AskKeeps,
     ToolResultKeeps, StopKeeps, EditKeeps, SwitchingKeeps
<1>2. CASE NewChat
  BY <1>2, SwitchingKeeps
<1>3. CASE Restart
  BY <1>3, RestartKeeps
<1>4. CASE UNCHANGED vars
  <2>1. TypeOK'
    BY <1>4 DEF vars, TypeOK
  <2> QED
    BY <1>4, <2>1, Untouched DEF vars
<1> QED
  BY <1>1, <1>2, <1>3, <1>4 DEF Next

\* The histories are sequences of messages, rounds and stored plans are well
\* typed; with them ContextInv holds of every reachable state: results stand
\* behind their message in the order of its calls, whatever was stopped or cut
\* (replay, stopped rounds and edits in the agent's chat).
THEOREM ContextInvariant == Spec => [](TypeOK /\ ContextInv)
<1>1. Init => TypeOK /\ ContextInv
  BY ContextInit
<1>2. TypeOK /\ ContextInv /\ [Next]_vars => (TypeOK /\ ContextInv)'
  BY ContextNext
<1> QED
  BY <1>1, <1>2, PTL DEF Spec

\* Every request is one a provider accepts: sanitizeToolCallPairs leaves each
\* call followed by its answers in order and no answer without its call.
THEOREM RequestsPaired == Spec => []WirePaired
<1>1. ContextInv => WirePaired
  BY DEF ContextInv, ConvInv, Paired, WirePaired
<1> QED
  BY <1>1, ContextInvariant, PTL

\* No plan ever omits a read that nothing later and kept replaces:
\* computeStaleStubs and planCompaction, for every history, threshold and
\* boundary.
THEOREM OmissionsCovered == Spec => []OmissionsAreCovered
<1>1. ContextInv => OmissionsAreCovered
  BY DEF ContextInv, ConvInv, Sound, CoveredBy, OmissionsAreCovered
<1> QED
  BY <1>1, ContextInvariant, PTL

-----------------------------------------------------------------------------
(* What a longer history adds to a request.                                *)

\* r is s with t behind it.
Behind(r, s, t) ==
  /\ Len(r) = Len(s) + Len(t) /\ Extends(r, s)
  /\ \A i \in 1..Len(s) : r[i] = s[i]
  /\ \A i \in Len(s) + 1..Len(r) : r[i] = t[i - Len(s)]

LEMMA Joined ==
  ASSUME NEW X, NEW s \in Seq(X), NEW t \in Seq(X)
  PROVE  Behind(s \o t, s, t)
BY DEF Behind, Extends

\* Joining more sequences only adds at the end.
LEMMA FlattenExtends ==
  ASSUME NEW X, NEW ss \in Seq(Seq(X)), NEW tt \in Seq(Seq(X)), Extends(tt, ss)
  PROVE  Extends(FlattenSeq(tt), FlattenSeq(ss))
<1>0. /\ FlattenSeq(ss) \in Seq(X) /\ FlattenSeq(tt) \in Seq(X)
      /\ Len(ss) \in Nat /\ Len(tt) \in Nat /\ Len(ss) <= Len(tt)
      /\ \A i \in 1..Len(ss) : tt[i] = ss[i]
  BY FlattenParts DEF Extends
<1>1. CASE ss = <<>>
  <2>1. FlattenSeq(ss) = <<>>
    BY <1>1 DEF FlattenSeq
  <2> QED
    BY <1>0, <2>1 DEF Extends
<1>2. CASE ss # <<>>
  <2> DEFINE K == Len(ss)
             L == Len(tt)
  <2>0. K \in Nat \ {0} /\ L \in Nat /\ K <= L /\ tt # <<>>
    BY <1>0, <1>2
  <2>1. PICK f \in [1..K -> Seq(X)] : Joins(f, ss) /\ FlattenSeq(ss) = f[K]
    BY <1>2, FlattenJoins
  <2>2. PICK g \in [1..L -> Seq(X)] : Joins(g, tt) /\ FlattenSeq(tt) = g[L]
    BY <2>0, FlattenJoins
  <2>3. \A i \in 1..K : ss[i] \in Seq(X)
    OBVIOUS
  <2>4. \A i \in 1..L : tt[i] \in Seq(X)
    OBVIOUS
  <2> HIDE DEF K, L
  <2>5. \A i \in 1..K : f[i] = IF i = 1 THEN ss[i] ELSE f[i - 1] \o ss[i]
    BY <2>1 DEF Joins
  <2>6. \A i \in 1..L : g[i] = IF i = 1 THEN tt[i] ELSE g[i - 1] \o tt[i]
    BY <2>2 DEF Joins
  <2>7. \A n \in Nat : n + 1 \in 1..K => g[n + 1] = f[n + 1]
    <3> DEFINE T == {n \in Nat : n + 1 \in 1..K => g[n + 1] = f[n + 1]}
    <3>1. 0 \in T
      <4>1. 1 \in 1..K /\ 1 \in 1..L
        BY <2>0
      <4>2. f[1] = ss[1] /\ g[1] = tt[1] /\ tt[1] = ss[1]
        BY <1>0, <2>5, <2>6, <4>1 DEF K
      <4> QED
        BY <4>2
    <3>2. ASSUME NEW n \in Nat, n \in T PROVE n + 1 \in T
      <4> SUFFICES ASSUME n + 2 \in 1..K PROVE g[n + 2] = f[n + 2]
        OBVIOUS
      <4>1. n + 1 \in 1..K /\ n + 2 \in 1..L /\ n + 2 # 1 /\ (n + 2) - 1 = n + 1
        BY <2>0
      <4>2. g[n + 1] = f[n + 1]
        BY <3>2, <4>1
      <4>3. f[n + 2] = f[n + 1] \o ss[n + 2]
        BY <2>5, <4>1
      <4>4. g[n + 2] = g[n + 1] \o tt[n + 2]
        BY <2>6, <4>1
      <4>5. tt[n + 2] = ss[n + 2]
        BY <1>0 DEF K
      <4> QED
        BY <4>2, <4>3, <4>4, <4>5
    <3> HIDE DEF T
    <3>3. Nat \subseteq T
      BY <3>1, <3>2, Induction
    <3> QED
      BY <3>3 DEF T
  <2>8. g[K] = f[K]
    <3>1. K - 1 \in Nat /\ (K - 1) + 1 = K
      BY <2>0
    <3>2. (K - 1) + 1 \in 1..K => g[(K - 1) + 1] = f[(K - 1) + 1]
      BY <2>7, <3>1
    <3> QED
      BY <2>0, <3>1, <3>2
  <2>9. \A n \in Nat : K + n \in 1..L => Extends(g[K + n], g[K])
    <3> DEFINE T == {n \in Nat : K + n \in 1..L => Extends(g[K + n], g[K])}
    <3>1. 0 \in T
      <4>1. g[K] \in Seq(X) /\ K + 0 = K
        BY <2>0
      <4>2. Extends(g[K], g[K])
        BY <4>1 DEF Extends
      <4> QED
        BY <4>1, <4>2
    <3>2. ASSUME NEW n \in Nat, n \in T PROVE n + 1 \in T
      <4> SUFFICES ASSUME K + (n + 1) \in 1..L PROVE Extends(g[K + (n + 1)], g[K])
        OBVIOUS
      <4> DEFINE i == K + n
      <4>1. i \in 1..L /\ i + 1 \in 1..L /\ i + 1 = K + (n + 1) /\ i + 1 # 1 /\ (i + 1) - 1 = i
        BY <2>0
      <4>2. Extends(g[i], g[K])
        BY <3>2, <4>1
      <4> HIDE DEF i
      <4>3. g[i + 1] = g[i] \o tt[i + 1]
        BY <2>6, <4>1
      <4>4. g[i] \in Seq(X) /\ tt[i + 1] \in Seq(X) /\ g[K] \in Seq(X)
        BY <2>0, <2>4, <4>1
      <4>5. Len(g[i + 1]) >= Len(g[i]) /\ \A x \in 1..Len(g[i]) : g[i + 1][x] = g[i][x]
        <5>1. Behind(g[i + 1], g[i], tt[i + 1])
          BY <4>3, <4>4, Joined
        <5>2. Len(g[i]) \in Nat /\ Len(g[i + 1]) \in Nat
          BY <4>1, <4>4
        <5> QED
          BY <5>1, <5>2 DEF Behind, Extends
      <4>6. Extends(g[i + 1], g[K])
        <5>1. Len(g[K]) <= Len(g[i]) /\ \A x \in 1..Len(g[K]) : g[i][x] = g[K][x]
          BY <4>2 DEF Extends
        <5>2. g[i + 1] \in Seq(X)
          BY <4>1
        <5>3. Len(g[K]) \in Nat /\ Len(g[i]) \in Nat /\ Len(g[i + 1]) \in Nat
          BY <4>4, <5>2, SMTT(30)
        <5> QED
          BY <4>5, <5>1, <5>3, SMTT(30) DEF Extends
      <4> QED
        BY <4>1, <4>6
    <3> HIDE DEF T
    <3>3. Nat \subseteq T
      BY <3>1, <3>2, Induction
    <3> QED
      BY <3>3 DEF T
  <2>10. Extends(g[L], g[K])
    <3>1. L - K \in Nat /\ K + (L - K) = L /\ L \in 1..L
      BY <2>0
    <3>2. K + (L - K) \in 1..L => Extends(g[K + (L - K)], g[K])
      BY <2>9, <3>1
    <3> QED
      BY <3>1, <3>2
  <2> QED
    BY <2>1, <2>2, <2>8, <2>10
<1> QED
  BY <1>1, <1>2

\* What is added to a wire comes after the answers to its last calls.
SealedBy(longer, wire) ==
  \/ \A i \in DOMAIN wire : wire[i].m.role # "assistant"
  \/ Len(wire) + 1 \in DOMAIN longer => longer[Len(wire) + 1].m.role = "assistant"

LEMMA SameAnswers ==
  ASSUME NEW wire \in Seq(WireEntry), NEW longer \in Seq(WireEntry), Extends(longer, wire),
         SealedBy(longer, wire), NEW i \in DOMAIN wire, wire[i].m.role = "assistant", NEW k
  PROVE  AnswerTo(longer, i, k) = AnswerTo(wire, i, k)
<1> DEFINE id == <<wire[i].m.id, k>>
           answers == {j \in (i + 1)..Len(wire) :
                         /\ \A x \in (i + 1)..j : wire[x].m.role = "tool"
                         /\ wire[j].m.id = id}
           others == {j \in (i + 1)..Len(longer) :
                         /\ \A x \in (i + 1)..j : longer[x].m.role = "tool"
                         /\ longer[j].m.id = id}
<1>0. /\ Len(wire) \in Nat /\ Len(longer) \in Nat /\ Len(wire) <= Len(longer)
      /\ i \in 1..Len(wire) /\ \A x \in 1..Len(wire) : longer[x] = wire[x]
  BY DEF Extends
<1>1. ASSUME NEW j \in (i + 1)..Len(longer), \A x \in (i + 1)..j : longer[x].m.role = "tool"
      PROVE  j <= Len(wire)
  <2> SUFFICES ASSUME j > Len(wire) PROVE FALSE
    BY <1>0
  <2> DEFINE n == Len(wire) + 1
  <2>1. n \in (i + 1)..j /\ n \in DOMAIN longer
    BY <1>0
  <2>2. longer[n].m.role = "tool"
    BY <1>1, <2>1
  <2>3. longer[n].m.role = "assistant"
    BY <2>1 DEF SealedBy
  <2> QED
    BY <2>2, <2>3
<1>2. \A j \in (i + 1)..Len(wire) : \A x \in (i + 1)..j : longer[x] = wire[x]
  BY <1>0
<1>3. (i + 1)..Len(wire) \subseteq (i + 1)..Len(longer)
  BY <1>0
<1>4. others = answers
  <2>1. ASSUME NEW j \in others PROVE j \in answers
    <3>1. j \in (i + 1)..Len(wire)
      BY <1>0, <1>1
    <3>2. j \in (i + 1)..j
      BY <1>0, <3>1
    <3> QED
      BY <1>2, <3>1, <3>2
  <2>2. ASSUME NEW j \in answers PROVE j \in others
    <3>1. j \in (i + 1)..j
      BY <1>0
    <3> QED
      BY <1>2, <1>3, <3>1
  <2> QED
    BY <2>1, <2>2
<1>5. longer[i] = wire[i]
  BY <1>0
<1> DEFINE last == CHOOSE j \in answers : \A x \in answers : x <= j
           note == [m |-> Result(id[1], k, wire[i].m.calls[k], "small"), form |-> "none",
                    banner |-> NoBanner]
<1>6. AnswerTo(wire, i, k) = IF answers # {} THEN wire[last] ELSE note
  BY DEF AnswerTo
<1>7. AnswerTo(longer, i, k) = IF answers # {} THEN longer[last] ELSE note
  <2> DEFINE d == <<longer[i].m.id, k>>
             alike == {j \in (i + 1)..Len(longer) :
                         /\ \A x \in (i + 1)..j : longer[x].m.role = "tool"
                         /\ longer[j].m.id = d}
  <2>1. d = id
    BY <1>5
  <2>2. alike = answers
    BY <1>4, <2>1
  <2>3. AnswerTo(longer, i, k) =
          IF alike # {} THEN longer[CHOOSE j \in alike : \A x \in alike : x <= j]
          ELSE [m |-> Result(d[1], k, longer[i].m.calls[k], "small"), form |-> "none",
                banner |-> NoBanner]
    BY DEF AnswerTo
  <2> HIDE DEF d, alike, answers, id
  <2> QED
    BY <1>5, <2>1, <2>2, <2>3
<1>8. answers # {} => last \in 1..Len(wire)
  <2> SUFFICES ASSUME answers # {} PROVE last \in 1..Len(wire)
    OBVIOUS
  <2>1. answers \subseteq 0..Len(wire)
    BY <1>0
  <2> HIDE DEF answers
  <2>2. \E n \in answers : \A x \in answers : x <= n
    BY <1>0, <2>1, Greatest
  <2>3. last \in answers
    BY <2>2
  <2> HIDE DEF last
  <2> QED
    BY <1>0, <2>3 DEF answers
<1> HIDE DEF last, note, answers
<1> QED
  BY <1>0, <1>6, <1>7, <1>8

\* The request for a longer wire begins with the request for the shorter one.
LEMMA SanitizeExtends ==
  ASSUME NEW wire \in Seq(WireEntry), NEW longer \in Seq(WireEntry), Extends(longer, wire),
         SealedBy(longer, wire)
  PROVE  Extends(Sanitize(longer), Sanitize(wire))
<1> DEFINE ss == [i \in DOMAIN wire |-> Piece(wire, i)]
           tt == [i \in DOMAIN longer |-> Piece(longer, i)]
<1>0. /\ Len(wire) \in Nat /\ Len(longer) \in Nat /\ Len(wire) <= Len(longer)
      /\ DOMAIN wire = 1..Len(wire) /\ DOMAIN longer = 1..Len(longer)
      /\ \A x \in 1..Len(wire) : longer[x] = wire[x]
  BY DEF Extends
<1>1. Sanitize(wire) = FlattenSeq(ss) /\ Sanitize(longer) = FlattenSeq(tt)
  BY DEF Sanitize, Piece
<1>2. ss \in Seq(Seq(WireEntry)) /\ tt \in Seq(Seq(WireEntry))
  <2>1. \A i \in DOMAIN wire : Piece(wire, i) \in Seq(WireEntry)
    BY Pieces
  <2>2. \A i \in DOMAIN longer : Piece(longer, i) \in Seq(WireEntry)
    BY Pieces
  <2> QED
    BY <1>0, <2>1, <2>2
<1>3. ASSUME NEW i \in 1..Len(wire)
      PROVE  Piece(longer, i) = Piece(wire, i)
  <2>1. longer[i] = wire[i] /\ i \in DOMAIN wire
    BY <1>0
  <2>2. CASE wire[i].m.role = "assistant"
    <3>1. \A k \in DOMAIN wire[i].m.calls : AnswerTo(longer, i, k) = AnswerTo(wire, i, k)
      BY <2>1, <2>2, SameAnswers
    <3>2. [k \in DOMAIN wire[i].m.calls |-> AnswerTo(longer, i, k)]
            = [k \in DOMAIN wire[i].m.calls |-> AnswerTo(wire, i, k)]
      BY <3>1
    <3> QED
      BY <2>1, <2>2, <3>2 DEF Piece
  <2>3. CASE wire[i].m.role # "assistant"
    <3>1. wire[i].m.role \in {"user", "assistant", "tool"}
      BY <2>1, EntryKinds
    <3> QED
      BY <2>1, <2>3, <3>1 DEF Piece
  <2> QED
    BY <2>2, <2>3
<1>4. Extends(tt, ss)
  <2>1. Len(ss) = Len(wire) /\ Len(tt) = Len(longer)
    BY <1>0, <1>2
  <2>2. \A i \in 1..Len(wire) : ss[i] = Piece(wire, i) /\ tt[i] = Piece(longer, i)
    BY <1>0
  <2> HIDE DEF ss, tt
  <2> QED
    BY <1>0, <1>3, <2>1, <2>2 DEF Extends
<1> HIDE DEF ss, tt
<1> QED
  BY <1>1, <1>2, <1>4, FlattenExtends

\* Messages a round adds leave the form of those before them.
LEMMA SameEntries ==
  ASSUME NEW msgs \in Seq(Message), NEW longer \in Seq(Message), Extends(longer, msgs),
         \A j \in Len(msgs) + 1..Len(longer) : longer[j].role # "user",
         NEW plan, NEW i \in 1..Len(msgs)
  PROVE  Entry(longer, i, plan) = Entry(msgs, i, plan)
<1>0. /\ Len(msgs) \in Nat /\ Len(longer) \in Nat /\ Len(msgs) <= Len(longer)
      /\ \A x \in 1..Len(msgs) : longer[x] = msgs[x]
  BY DEF Extends
<1>1. Turns(longer) = Turns(msgs)
  <2>1. ASSUME NEW x \in Turns(longer) PROVE x \in Turns(msgs)
    <3>1. x \in 1..Len(longer) /\ longer[x].role = "user"
      BY DEF Turns
    <3>2. x \in 1..Len(msgs)
      BY <1>0, <3>1
    <3> QED
      BY <1>0, <3>1, <3>2 DEF Turns
  <2>2. ASSUME NEW x \in Turns(msgs) PROVE x \in Turns(longer)
    BY <1>0 DEF Turns
  <2> QED
    BY <2>1, <2>2
<1>2. Before(longer, KeepRounds) = Before(msgs, KeepRounds)
  BY <1>1 DEF Before
<1>3. longer[i] = msgs[i]
  BY <1>0
<1>4. Form(longer, i) = Form(msgs, i)
  BY <1>2, <1>3 DEF Form
<1> QED
  BY <1>3, <1>4 DEF Entry

\* How many of n messages the plan was made for, and of those how many the
\* summary stands for.
Spoken(plan, n) == IF plan.frozen < n THEN plan.frozen ELSE n
Skipped(plan, n) == IF plan.covers < Spoken(plan, n) THEN plan.covers ELSE Spoken(plan, n)

\* The summary joins the first message kept, or is one itself.
Leads(msgs, plan) == plan.covers < Spoken(plan, Len(msgs)) /\ msgs[plan.covers + 1].role = "user"
BannerOf(plan) == [of |-> plan.summary, covers |-> plan.covers]

WireShape(wire, msgs, plan) ==
  LET n == Len(msgs)
  IN /\ plan.summary = {} =>
          Len(wire) = n /\ \A i \in 1..n : wire[i] = Entry(msgs, i, plan)
     /\ plan.summary # {} /\ Leads(msgs, plan) =>
          /\ Len(wire) = n - plan.covers
          /\ wire[1] = [Entry(msgs, plan.covers + 1, plan) EXCEPT !.banner = BannerOf(plan)]
          /\ \A i \in 2..Len(wire) : wire[i] = Entry(msgs, plan.covers + i, plan)
     /\ plan.summary # {} /\ ~Leads(msgs, plan) =>
          /\ Len(wire) = 1 + (n - Skipped(plan, n))
          /\ wire[1] = [m |-> User("summary"), form |-> "whole", banner |-> BannerOf(plan)]
          /\ \A i \in 2..Len(wire) : wire[i] = Entry(msgs, (Skipped(plan, n) + i) - 1, plan)

LEMMA WireShapes ==
  ASSUME NEW msgs \in Seq(Message), NEW plan \in StateType
  PROVE  WireShape(BuildWire(msgs, plan), msgs, plan)
<1> DEFINE n == Len(msgs)
           f == Spoken(plan, n)
           c == plan.covers
           all  == [i \in 1..n |-> Entry(msgs, i, plan)]
           head == SubSeq(all, 1, f)
           kept == From(head, c)
           tail == From(all, f)
           wire == BuildWire(msgs, plan)
<1>1. plan.frozen \in Nat /\ c \in Nat /\ n \in Nat /\ f \in 0..n
  BY DEF StateType, Spoken
<1>2. all \in Seq(WireEntry) /\ Len(all) = n /\ \A i \in 1..n : all[i] = Entry(msgs, i, plan)
  BY <1>1, EntryType
<1>3. wire = (IF plan.summary # {} THEN Fold(kept, BannerOf(plan)) ELSE head) \o tail
  BY DEF BuildWire, Spoken, BannerOf
<1> HIDE DEF all, f, wire
<1>4. head \in Seq(WireEntry) /\ Len(head) = f /\ \A i \in 1..f : head[i] = all[i]
  <2>1. f \in Int /\ 1 \in Int /\ \A i \in 1..f : all[i] \in WireEntry
    BY <1>1, <1>2
  <2>2. /\ head \in Seq(WireEntry)
        /\ Len(head) = IF 1 <= f THEN f - 1 + 1 ELSE 0
        /\ \A i \in 1..f - 1 + 1 : head[i] = all[1 + i - 1]
    BY <2>1, SubSeqProperties
  <2>3. \A i \in 1..f : i \in 1..f - 1 + 1 /\ 1 + i - 1 = i
    BY <2>1
  <2>4. Len(head) = f
    BY <1>1, <2>2
  <2> QED
    BY <2>2, <2>3, <2>4
<1> HIDE DEF head
<1>5. /\ kept \in Seq(WireEntry) /\ Len(kept) = IF c <= f THEN f - c ELSE 0
      /\ \A i \in 1..Len(kept) : c + i \in DOMAIN head /\ kept[i] = head[c + i]
  BY <1>1, <1>4, FromProperties, SMTT(30)
<1>6. /\ tail \in Seq(WireEntry) /\ Len(tail) = n - f
      /\ \A i \in 1..n - f : tail[i] = all[f + i]
  <2>1. /\ tail \in Seq(WireEntry) /\ Len(tail) = IF f <= Len(all) THEN Len(all) - f ELSE 0
        /\ \A i \in 1..Len(tail) : f + i \in DOMAIN all /\ tail[i] = all[f + i]
    BY <1>1, <1>2, FromProperties
  <2> QED
    BY <1>1, <1>2, <2>1
<1> HIDE DEF kept, tail
<1>7. \A i \in 1..Len(kept) : c + i \in 1..f /\ kept[i] = all[c + i]
  BY <1>4, <1>5
<1>8. CASE plan.summary = {}
  <2>1. wire = head \o tail
    BY <1>3, <1>8
  <2>j. /\ Len(wire) = Len(head) + Len(tail)
        /\ \A i \in 1..Len(head) : wire[i] = head[i]
        /\ \A i \in Len(head) + 1..Len(wire) : wire[i] = tail[i - Len(head)]
    <3>1. Behind(wire, head, tail)
      BY <1>4, <1>6, <2>1, Joined
    <3> QED
      BY <3>1 DEF Behind
  <2>2. Len(wire) = n
    BY <1>1, <1>4, <1>6, <2>j
  <2>3. ASSUME NEW i \in 1..n PROVE wire[i] = all[i]
    <3>1. CASE i <= f
      <4>1. i \in 1..Len(head) /\ i \in 1..f
        BY <1>1, <1>4, <3>1
      <4> QED
        BY <1>4, <2>j, <4>1
    <3>2. CASE i > f
      <4>1. i - f \in 1..n - f /\ f + (i - f) = i /\ i \in f + 1..n
        BY <1>1, <3>2
      <4>2. wire[i] = tail[i - f]
        BY <1>4, <2>j, <2>2, <4>1
      <4> QED
        BY <1>6, <4>1, <4>2
    <3> QED
      BY <1>1, <3>1, <3>2
  <2> QED
    BY <1>2, <1>8, <2>2, <2>3 DEF WireShape, wire
<1>9. CASE plan.summary # {} /\ Leads(msgs, plan)
  <2>1. c < f /\ msgs[c + 1].role = "user"
    BY <1>9 DEF Leads, f
  <2>2. Len(kept) = f - c /\ 1 \in 1..Len(kept) /\ kept # <<>> /\ c + 1 \in 1..n
    BY <1>1, <1>5, <2>1
  <2>3. kept[1] = Entry(msgs, c + 1, plan)
    BY <1>2, <1>7, <2>2
  <2>4. kept[1].m.role = "user"
    BY <2>1, <2>3 DEF Entry
  <2> DEFINE lead == [kept EXCEPT ![1].banner = BannerOf(plan)]
  <2>5. Fold(kept, BannerOf(plan)) = lead
    BY <2>2, <2>4 DEF Fold
  <2>6. /\ Len(lead) = f - c /\ lead[1] = [kept[1] EXCEPT !.banner = BannerOf(plan)]
        /\ \A i \in 2..f - c : lead[i] = kept[i]
    BY <1>1, <1>5, <2>1, <2>2, SMTT(30)
  <2>7. BannerOf(plan) \in Banner
    BY <1>1 DEF BannerOf, Banner, StateType
  <2>8. lead \in Seq(WireEntry)
    <3>1. Fold(kept, BannerOf(plan)) \in Seq(WireEntry)
      <4> HIDE DEF lead, kept
      <4> QED
        BY <1>5, <2>7, FoldType
    <3> QED
      BY <2>5, <3>1
  <2> HIDE DEF lead
  <2>9. wire = lead \o tail
    BY <1>3, <1>9, <2>5
  <2>j. /\ Len(wire) = Len(lead) + Len(tail)
        /\ \A i \in 1..Len(lead) : wire[i] = lead[i]
        /\ \A i \in Len(lead) + 1..Len(wire) : wire[i] = tail[i - Len(lead)]
    <3>1. Behind(wire, lead, tail)
      BY <1>6, <2>8, <2>9, Joined
    <3> QED
      BY <3>1 DEF Behind
  <2>10. Len(wire) = n - c
    BY <1>1, <1>6, <2>6, <2>j
  <2>11. wire[1] = lead[1]
    <3>1. 1 \in 1..Len(lead)
      BY <1>1, <2>1, <2>6
    <3> QED
      BY <2>j, <3>1
  <2>12. ASSUME NEW i \in 2..n - c PROVE wire[i] = all[c + i]
    <3>1. CASE i <= f - c
      <4>1. i \in 2..f - c /\ i \in 1..Len(kept) /\ i \in 1..Len(lead)
        BY <1>1, <2>2, <2>6, <3>1
      <4> QED
        BY <1>7, <2>6, <2>j, <4>1
    <3>2. CASE i > f - c
      <4>1. /\ i - (f - c) \in 1..n - f /\ f + (i - (f - c)) = c + i
            /\ i \in (f - c) + 1..n - c
        BY <1>1, <2>1, <3>2
      <4>2. wire[i] = tail[i - (f - c)]
        BY <2>6, <2>j, <2>10, <4>1
      <4> QED
        BY <1>6, <4>1, <4>2
    <3> QED
      BY <1>1, <3>1, <3>2
  <2>13. \A i \in 2..n - c : c + i \in 1..n
    BY <1>1
  <2>14. /\ wire[1] = [Entry(msgs, c + 1, plan) EXCEPT !.banner = BannerOf(plan)]
         /\ \A i \in 2..Len(wire) : wire[i] = Entry(msgs, c + i, plan)
    BY <1>2, <2>3, <2>6, <2>10, <2>11, <2>12, <2>13
  <2> QED
    BY <1>9, <2>10, <2>14 DEF WireShape, wire
<1>10. CASE plan.summary # {} /\ ~Leads(msgs, plan)
  <2> DEFINE e == Skipped(plan, n)
             note == [m |-> User("summary"), form |-> "whole", banner |-> BannerOf(plan)]
  <2>1. e = (IF c < f THEN c ELSE f) /\ e \in 0..n /\ Len(kept) = f - e /\ e <= f
    BY <1>1, <1>5 DEF Skipped, f
  <2>2. ~(kept # <<>> /\ kept[1].m.role = "user")
    <3> SUFFICES ASSUME kept # <<>>, kept[1].m.role = "user" PROVE FALSE
      OBVIOUS
    <3>1. Len(kept) # 0
      BY <1>5
    <3>2. c < f /\ 1 \in 1..Len(kept) /\ c + 1 \in 1..n
      BY <1>1, <1>5, <3>1
    <3>3. kept[1] = Entry(msgs, c + 1, plan)
      BY <1>2, <1>7, <3>2
    <3>4. kept[1].m = msgs[c + 1]
      BY <3>3 DEF Entry
    <3> QED
      BY <1>10, <3>2, <3>4 DEF Leads, f
  <2>3. Fold(kept, BannerOf(plan)) = <<note>> \o kept
    BY <2>2 DEF Fold
  <2>4. note \in WireEntry
    <3>1. BannerOf(plan) \in Banner
      BY <1>1 DEF BannerOf, Banner, StateType
    <3> QED
      BY <3>1 DEF WireEntry, Forms
  <2> HIDE DEF e, note
  <2>5. wire = (<<note>> \o kept) \o tail
    BY <1>3, <1>10, <2>3
  <2> DEFINE folded == <<note>> \o kept
  <2>k. /\ folded \in Seq(WireEntry) /\ Len(folded) = 1 + Len(kept) /\ folded[1] = note
        /\ \A i \in 2..Len(folded) : folded[i] = kept[i - 1]
    <3> DEFINE one == <<note>>
    <3>1. one \in Seq(WireEntry) /\ Len(one) = 1 /\ one[1] = note /\ folded = one \o kept
      BY <2>4
    <3> HIDE DEF one, folded
    <3>2. /\ folded \in Seq(WireEntry) /\ Len(folded) = Len(one) + Len(kept)
          /\ \A i \in 1..Len(one) : folded[i] = one[i]
          /\ \A i \in Len(one) + 1..Len(folded) : folded[i] = kept[i - Len(one)]
      <4>1. Behind(folded, one, kept)
        BY <1>5, <3>1, Joined
      <4>2. folded \in Seq(WireEntry)
        BY <1>5, <3>1
      <4> QED
        BY <4>1, <4>2 DEF Behind
    <3> QED
      BY <3>1, <3>2
  <2>j. /\ Len(wire) = Len(folded) + Len(tail)
        /\ \A i \in 1..Len(folded) : wire[i] = folded[i]
        /\ \A i \in Len(folded) + 1..Len(wire) : wire[i] = tail[i - Len(folded)]
    <3> HIDE DEF folded
    <3>1. wire = folded \o tail
      BY <2>5 DEF folded
    <3>2. Behind(wire, folded, tail)
      BY <1>6, <2>k, <3>1, Joined
    <3> QED
      BY <3>2 DEF Behind
  <2> HIDE DEF folded
  <2>l. Len(folded) = 1 + (f - e) /\ 1 \in 1..Len(folded)
    BY <1>1, <2>1, <2>k
  <2>6. Len(wire) = 1 + (n - e)
    BY <1>1, <1>6, <2>1, <2>j, <2>l, SMTT(30)
  <2>7. wire[1] = note
    BY <2>j, <2>k, <2>l
  <2>8. ASSUME NEW i \in 2..1 + (n - e) PROVE wire[i] = all[(e + i) - 1]
    <3>1. CASE i - 1 <= f - e
      <4>0. i - 1 \in 1..Len(kept) /\ i \in 2..Len(folded) /\ i \in 1..Len(folded)
        BY <1>1, <2>1, <2>l, <3>1
      <4>1. wire[i] = kept[i - 1] /\ i - 1 \in 1..Len(kept)
        BY <2>j, <2>k, <4>0
      <4>2. e = c
        BY <1>1, <2>1, <3>1
      <4>3. c + (i - 1) = (e + i) - 1
        BY <1>1, <4>2
      <4> QED
        BY <1>7, <4>1, <4>3
    <3>2. CASE i - 1 > f - e
      <4>1. /\ i - (1 + (f - e)) \in 1..n - f /\ f + (i - (1 + (f - e))) = (e + i) - 1
            /\ i \in (1 + (f - e)) + 1..1 + (n - e)
        <5>1. i \in Nat /\ f \in Nat /\ e \in Nat /\ i <= 1 + (n - e) /\ i - 1 > f - e /\ f <= n
          BY <1>1, <2>1, <3>2
        <5> QED
          BY <1>1, <5>1
      <4>2. wire[i] = tail[i - (1 + (f - e))]
        BY <2>6, <2>j, <2>l, <4>1
      <4> QED
        BY <1>6, <4>1, <4>2
    <3> QED
      BY <1>1, <2>1, <3>1, <3>2
  <2>9. \A i \in 2..1 + (n - e) : (e + i) - 1 \in 1..n
    BY <1>1, <2>1, SMTT(30)
  <2>10. \A i \in 2..Len(wire) : wire[i] = Entry(msgs, (e + i) - 1, plan)
    BY <1>2, <2>6, <2>8, <2>9
  <2> QED
    BY <1>10, <2>6, <2>7, <2>10 DEF WireShape, wire, e, note
<1> QED
  BY <1>8, <1>9, <1>10

\* The history has grown by a reply and what its calls returned.
GrownBy(longer, msgs) ==
  /\ Extends(longer, msgs) /\ Len(msgs) < Len(longer)
  /\ longer[Len(msgs) + 1].role = "assistant"
  /\ \A j \in Len(msgs) + 1..Len(longer) : longer[j].role # "user"

LEMMA WireExtends ==
  ASSUME NEW msgs \in Seq(Message), NEW longer \in Seq(Message), GrownBy(longer, msgs),
         NEW plan \in StateType, NEW wire, NEW wire2,
         WireShape(wire, msgs, plan), WireShape(wire2, longer, plan),
         wire \in Seq(WireEntry), wire2 \in Seq(WireEntry)
  PROVE  Extends(wire2, wire) /\ SealedBy(wire2, wire)
<1> DEFINE n == Len(msgs)
           L == Len(longer)
           F == plan.frozen
           c == plan.covers
<1>1. /\ n \in Nat /\ L \in Nat /\ n < L /\ F \in Nat /\ c \in Nat
      /\ \A x \in 1..n : longer[x] = msgs[x]
      /\ longer[n + 1].role = "assistant"
      /\ \A j \in n + 1..L : longer[j].role # "user"
  BY DEF StateType, GrownBy, Extends
<1>2. \A i \in 1..n : Entry(longer, i, plan) = Entry(msgs, i, plan)
  BY SameEntries DEF GrownBy
<1>3. Entry(longer, n + 1, plan).m.role = "assistant"
  BY <1>1 DEF Entry
<1>4. Leads(longer, plan) <=> Leads(msgs, plan)
  <2>1. ASSUME Leads(msgs, plan) PROVE Leads(longer, plan)
    <3>1. c < F /\ c + 1 \in 1..n /\ msgs[c + 1].role = "user"
      BY <1>1, <2>1 DEF Leads, Spoken
    <3>2. longer[c + 1].role = "user"
      BY <1>1, <3>1
    <3>3. c < L
      BY <1>1, <3>1
    <3> QED
      BY <3>1, <3>2, <3>3 DEF Leads, Spoken
  <2>2. ASSUME Leads(longer, plan) PROVE Leads(msgs, plan)
    <3>1. c < F /\ c + 1 \in 1..L /\ longer[c + 1].role = "user"
      BY <1>1, <2>2 DEF Leads, Spoken
    <3>2. c + 1 \in 1..n
      BY <1>1, <3>1
    <3>3. msgs[c + 1].role = "user"
      BY <1>1, <3>1, <3>2
    <3>4. c < n
      BY <1>1, <3>2
    <3> QED
      BY <3>1, <3>3, <3>4 DEF Leads, Spoken
  <2> QED
    BY <2>1, <2>2
<1> HIDE DEF n, L, F, c
<1>5. CASE plan.summary = {}
  <2>1. /\ Len(wire) = n /\ \A i \in 1..n : wire[i] = Entry(msgs, i, plan)
        /\ Len(wire2) = L /\ \A i \in 1..L : wire2[i] = Entry(longer, i, plan)
    BY <1>5 DEF WireShape, n, L
  <2>2. Extends(wire2, wire)
    <3>1. \A i \in 1..n : i \in 1..L
      BY <1>1
    <3> QED
      BY <1>1, <1>2, <2>1, <3>1 DEF Extends
  <2>3. wire2[Len(wire) + 1].m.role = "assistant"
    <3>1. n + 1 \in 1..L
      BY <1>1
    <3> QED
      BY <1>3, <2>1, <3>1
  <2> QED
    BY <2>2, <2>3 DEF SealedBy
<1>6. CASE plan.summary # {} /\ Leads(msgs, plan)
  <2>1. /\ Len(wire) = n - c /\ Len(wire2) = L - c
        /\ wire[1] = [Entry(msgs, c + 1, plan) EXCEPT !.banner = BannerOf(plan)]
        /\ wire2[1] = [Entry(longer, c + 1, plan) EXCEPT !.banner = BannerOf(plan)]
        /\ \A i \in 2..Len(wire) : wire[i] = Entry(msgs, c + i, plan)
        /\ \A i \in 2..Len(wire2) : wire2[i] = Entry(longer, c + i, plan)
    BY <1>4, <1>6 DEF WireShape, n, L, c
  <2>2. c + 1 \in 1..n
    <3>1. c < Spoken(plan, n)
      BY <1>6 DEF Leads, n, c
    <3> QED
      BY <1>1, <3>1 DEF Spoken, F
  <2>3. ASSUME NEW i \in 1..n - c PROVE wire2[i] = wire[i]
    <3>1. c + i \in 1..n /\ (i # 1 => i \in 2..Len(wire) /\ i \in 2..Len(wire2))
      BY <1>1, <2>1, <2>2, SMTT(30)
    <3>2. CASE i = 1
      BY <1>2, <2>1, <2>2, <3>2
    <3>3. CASE i # 1
      BY <1>2, <2>1, <3>1, <3>3
    <3> QED
      BY <3>2, <3>3
  <2>4. Extends(wire2, wire)
    BY <1>1, <2>1, <2>2, <2>3 DEF Extends
  <2>5. wire2[Len(wire) + 1].m.role = "assistant"
    <3>1. Len(wire) + 1 \in 2..Len(wire2) /\ c + (Len(wire) + 1) = n + 1
      <4>1. (n - c) + 1 \in 2..L - c /\ c + ((n - c) + 1) = n + 1
        BY <1>1, <2>2
      <4> QED
        BY <2>1, <4>1
    <3>2. wire2[Len(wire) + 1] = Entry(longer, n + 1, plan)
      BY <2>1, <3>1
    <3> QED
      BY <1>3, <3>2
  <2> QED
    BY <2>4, <2>5 DEF SealedBy
<1>7. CASE plan.summary # {} /\ ~Leads(msgs, plan)
  <2> DEFINE d == Skipped(plan, n)
             e == Skipped(plan, L)
             note == [m |-> User("summary"), form |-> "whole", banner |-> BannerOf(plan)]
  <2>1. /\ Len(wire) = 1 + (n - d) /\ Len(wire2) = 1 + (L - e)
        /\ wire[1] = note /\ wire2[1] = note
        /\ \A i \in 2..Len(wire) : wire[i] = Entry(msgs, (d + i) - 1, plan)
        /\ \A i \in 2..Len(wire2) : wire2[i] = Entry(longer, (e + i) - 1, plan)
    BY <1>4, <1>7 DEF WireShape, n, L
  <2>2. d \in 0..n /\ e \in 0..L /\ (e = d \/ (d = n /\ e > n))
    BY <1>1 DEF Skipped, Spoken, F, c
  <2>3. note.m.role = "user"
    BY DEF User
  <2> HIDE DEF d, e, note
  <2>4. CASE e = d
    <3>1. ASSUME NEW i \in 1..1 + (n - d) PROVE wire2[i] = wire[i]
      <4>1. CASE i = 1
        BY <2>1, <4>1
      <4>2. CASE i # 1
        <5>1. i \in 2..Len(wire) /\ i \in 2..Len(wire2) /\ (d + i) - 1 \in 1..n
          BY <1>1, <2>1, <2>2, <2>4, <4>2
        <5> QED
          BY <1>2, <2>1, <2>4, <5>1
      <4> QED
        BY <4>1, <4>2
    <3>2. Extends(wire2, wire)
      BY <1>1, <2>1, <2>2, <2>4, <3>1 DEF Extends
    <3>3. wire2[Len(wire) + 1].m.role = "assistant"
      <4>1. Len(wire) + 1 \in 2..Len(wire2) /\ (e + (Len(wire) + 1)) - 1 = n + 1
        BY <1>1, <2>1, <2>2, <2>4
      <4>2. wire2[Len(wire) + 1] = Entry(longer, n + 1, plan)
        BY <2>1, <4>1
      <4> QED
        BY <1>3, <4>2
    <3> QED
      BY <3>2, <3>3 DEF SealedBy
  <2>5. CASE d = n /\ e > n
    <3>1. Len(wire) = 1 /\ Len(wire2) >= 1 /\ Len(wire2) \in Nat
      BY <1>1, <2>1, <2>2, <2>5
    <3>2. \A i \in 1..1 : i = 1
      OBVIOUS
    <3>3. Extends(wire2, wire)
      BY <2>1, <3>1, <3>2 DEF Extends
    <3>4. \A i \in DOMAIN wire : wire[i].m.role # "assistant"
      <4>1. DOMAIN wire = 1..Len(wire)
        OBVIOUS
      <4>2. DOMAIN wire = {1}
        BY <3>1, <3>2, <4>1
      <4>3. wire[1].m.role # "assistant"
        BY <2>1, <2>3
      <4> QED
        BY <4>2, <4>3
    <3> QED
      BY <3>3, <3>4 DEF SealedBy
  <2> QED
    BY <2>2, <2>4, <2>5
<1> QED
  BY <1>5, <1>6, <1>7

\* A request made after a reply begins with the one the reply was to.
LEMMA RequestExtends ==
  ASSUME NEW msgs \in Seq(Message), NEW longer \in Seq(Message), GrownBy(longer, msgs),
         NEW plan \in StateType
  PROVE  IsPrefix(Request(msgs, plan), Request(longer, plan))
<1> DEFINE wire == BuildWire(msgs, plan)
           wire2 == BuildWire(longer, plan)
           s == Request(msgs, plan)
           t == Request(longer, plan)
<1>1. wire \in Seq(WireEntry) /\ wire2 \in Seq(WireEntry)
  BY BuildWireType
<1>2. WireShape(wire, msgs, plan) /\ WireShape(wire2, longer, plan)
  BY WireShapes
<1>3. s = Sanitize(wire) /\ t = Sanitize(wire2)
  BY DEF Request
<1>4. s \in Seq(WireEntry) /\ t \in Seq(WireEntry)
  BY RequestPaired
<1> HIDE DEF wire, wire2, s, t
<1>5. Extends(wire2, wire) /\ SealedBy(wire2, wire)
  BY <1>1, <1>2, WireExtends
<1>6. Extends(t, s)
  BY <1>1, <1>3, <1>5, SanitizeExtends
<1>7. Len(s) \in Nat /\ Len(t) \in Nat /\ Len(s) <= Len(t) /\ \A i \in 1..Len(s) : t[i] = s[i]
  BY <1>4, <1>6 DEF Extends
<1> DEFINE n == Len(s)
<1>8. SubSeq(s, 1, n) = SubSeq(t, 1, n)
  <2>0. n \in Nat
    BY <1>7
  <2>1. /\ SubSeq(s, 1, n) \in Seq(WireEntry)
        /\ Len(SubSeq(s, 1, n)) = IF 1 <= n THEN n - 1 + 1 ELSE 0
        /\ \A i \in 1..n - 1 + 1 : SubSeq(s, 1, n)[i] = s[1 + i - 1]
    <3>1. \A i \in 1..n : s[i] \in WireEntry
      BY <1>4
    <3> HIDE DEF n
    <3> QED
      BY <2>0, <3>1, SubSeqProperties
  <2>2. /\ SubSeq(t, 1, n) \in Seq(WireEntry)
        /\ Len(SubSeq(t, 1, n)) = IF 1 <= n THEN n - 1 + 1 ELSE 0
        /\ \A i \in 1..n - 1 + 1 : SubSeq(t, 1, n)[i] = t[1 + i - 1]
    <3>1. \A i \in 1..n : t[i] \in WireEntry
      BY <1>4, <1>7
    <3> HIDE DEF n
    <3> QED
      BY <2>0, <3>1, SubSeqProperties
  <2> DEFINE a == SubSeq(s, 1, n)  b == SubSeq(t, 1, n)
  <2>3. Len(a) = Len(b) /\ \A i \in 1..Len(a) : a[i] = b[i]
    <3>1. \A i \in 1..n : i \in 1..n - 1 + 1 /\ 1 + i - 1 = i
      BY <2>0
    <3>2. \A i \in 1..n : a[i] = s[i] /\ b[i] = t[i]
      BY <2>1, <2>2, <3>1
    <3>3. Len(a) = n /\ Len(b) = n
      BY <2>0, <2>1, <2>2
    <3> HIDE DEF a, b
    <3> QED
      BY <1>7, <3>2, <3>3
  <2> HIDE DEF a, b, n
  <2>4. a \in Seq(WireEntry) /\ b \in Seq(WireEntry)
    BY <2>1, <2>2 DEF a, b
  <2>5. a = b
    BY <2>3, <2>4, SeqEqual
  <2> QED
    BY <2>5 DEF a, b
<1> QED
  BY <1>7, <1>8 DEF IsPrefix, s, t

-----------------------------------------------------------------------------
(* What a round has sent.                                                  *)

\* In the course of a round the last request was made of what the history was
\* then, by the plan the round still has; since, the round only added to it.
SentConv(msgs, r) ==
  /\ r.phase \in {"starting", "summarising"} => r.sent = <<>>
  /\ r.phase \in {"calling", "running"} /\ r.sent # <<>> =>
       \E m \in Seq(Message) : GrownBy(msgs, m) /\ r.sent = Request(m, r.state)

SentInv == \A c \in Conv : SentConv(buffer[c], round[c])

\* A round that is over or has sent nothing.
Settled(r) == r.phase = "idle" \/ r.sent = <<>>

LEMMA SettledIsSent ==
  ASSUME NEW msgs, NEW r, Settled(r)
  PROVE  SentConv(msgs, r)
BY DEF Settled, SentConv

LEMMA GrowsByReply ==
  ASSUME NEW msgs \in Seq(Message), NEW a, a.role = "assistant"
  PROVE  GrownBy(Append(msgs, a), msgs)
<1> DEFINE longer == Append(msgs, a)
<1>1. /\ Len(longer) = Len(msgs) + 1 /\ Len(msgs) \in Nat /\ longer[Len(msgs) + 1] = a
      /\ \A i \in 1..Len(msgs) : longer[i] = msgs[i]
  OBVIOUS
<1> HIDE DEF longer
<1>2. \A j \in Len(msgs) + 1..Len(longer) : j = Len(msgs) + 1
  BY <1>1
<1>3. GrownBy(longer, msgs)
  BY <1>1, <1>2 DEF GrownBy, Extends
<1> QED
  BY <1>3 DEF longer

LEMMA GrowsByResult ==
  ASSUME NEW m \in Seq(Message), NEW msgs \in Seq(Message), GrownBy(msgs, m),
         NEW a, a.role = "tool"
  PROVE  GrownBy(Append(msgs, a), m)
<1> DEFINE longer == Append(msgs, a)
<1>1. /\ Len(longer) = Len(msgs) + 1 /\ Len(msgs) \in Nat /\ longer[Len(msgs) + 1] = a
      /\ \A i \in 1..Len(msgs) : longer[i] = msgs[i]
  OBVIOUS
<1>2. /\ Len(m) \in Nat /\ Len(m) < Len(msgs) /\ \A i \in 1..Len(m) : msgs[i] = m[i]
      /\ msgs[Len(m) + 1].role = "assistant"
      /\ \A j \in Len(m) + 1..Len(msgs) : msgs[j].role # "user"
  BY DEF GrownBy, Extends
<1> HIDE DEF longer
<1>3. \A i \in 1..Len(m) : longer[i] = m[i]
  BY <1>1, <1>2
<1>4. longer[Len(m) + 1].role = "assistant"
  <2>1. Len(m) + 1 \in 1..Len(msgs)
    BY <1>1, <1>2
  <2> QED
    BY <1>1, <1>2, <2>1
<1>5. ASSUME NEW j \in Len(m) + 1..Len(longer) PROVE longer[j].role # "user"
  <2>1. CASE j = Len(msgs) + 1
    BY <1>1, <2>1
  <2>2. CASE j # Len(msgs) + 1
    <3>0. /\ Len(m) \in Nat /\ Len(msgs) \in Nat /\ Len(longer) = Len(msgs) + 1
          /\ j # Len(msgs) + 1
      BY <1>1, <1>2, <2>2
    <3>1. j \in 1..Len(msgs) /\ j \in Len(m) + 1..Len(msgs)
      BY <3>0
    <3>2. longer[j] = msgs[j]
      BY <1>1, <3>1
    <3> QED
      BY <1>2, <3>1, <3>2
  <2> QED
    BY <2>1, <2>2
<1>6. GrownBy(longer, m)
  BY <1>1, <1>2, <1>3, <1>4, <1>5 DEF GrownBy, Extends
<1> QED
  BY <1>6 DEF longer

\* Steps of one conversation leave the others alone.
LEMMA SentElsewhere ==
  ASSUME TypeOK, SentInv, NEW c \in Conv, NEW r, round' = [round EXCEPT ![c] = r],
         \A d \in Conv \ {c} : buffer'[d] = buffer[d], SentConv(buffer'[c], r)
  PROVE  SentInv'
<1> SUFFICES ASSUME NEW d \in Conv PROVE SentConv(buffer'[d], round'[d])
  BY DEF SentInv
<1>1. CASE d = c
  <2>1. round'[c] = r
    BY DEF TypeOK
  <2> QED
    BY <1>1, <2>1
<1>2. CASE d # c
  <2>1. round'[d] = round[d] /\ buffer'[d] = buffer[d]
    BY <1>2 DEF TypeOK
  <2> QED
    BY <2>1 DEF SentInv
<1> QED
  BY <1>1, <1>2

\* Every step of a round but asking and answering leaves it settled.
LEMMA SettlingSteps ==
  ASSUME TypeOK, SentInv, NEW c \in Conv,
         \/ Send(c) \/ PlanRound(c) \/ NoCompaction(c) \/ CompactNow(c)
         \/ Summarised(c) \/ Stop(c) \/ Edit(c)
  PROVE  /\ \E r : Settled(r) /\ round' = [round EXCEPT ![c] = r]
         /\ \A d \in Conv \ {c} : buffer'[d] = buffer[d]
<1>0. round \in [Conv -> RoundType] /\ buffer \in [Conv -> Seq(Message)] /\ round[c] \in RoundType
  BY DEF TypeOK
<1>1. \A d \in Conv \ {c} : buffer'[d] = buffer[d]
  BY <1>0 DEF Send, PlanRound, NoCompaction, CompactNow, Summarised, Stop, Edit, Append1
<1>2. round[c].phase = "starting" => round[c].sent = <<>>
  BY DEF SentInv, SentConv
<1>3. ASSUME NEW force \in BOOLEAN, Compact(c, force),
             ~force => round[c].phase = "starting"
      PROVE  \E r : Settled(r) /\ round' = [round EXCEPT ![c] = r]
  <2>1. ASSUME NEW plan, NEW state, Settle(c, plan, state, force)
        PROVE  \E r : Settled(r) /\ round' = [round EXCEPT ![c] = r]
    <3> DEFINE r == [round[c] EXCEPT !.phase = AfterPlan(force), !.plan = plan, !.state = state]
    <3>1. round' = [round EXCEPT ![c] = r]
      BY <2>1 DEF Settle
    <3>2. r.phase = AfterPlan(force) /\ r.sent = round[c].sent
      BY <1>0 DEF RoundType
    <3> HIDE DEF r
    <3>3. Settled(r)
      BY <1>2, <1>3, <3>2 DEF Settled, AfterPlan
    <3> QED
      BY <3>1, <3>3
  <2>2. ASSUME NEW plan, NEW prior,
               round' = [round EXCEPT ![c] = [Idle EXCEPT !.phase = "summarising", !.plan = plan,
                                                          !.force = force, !.prior = prior]]
        PROVE  \E r : Settled(r) /\ round' = [round EXCEPT ![c] = r]
    <3> DEFINE r == [Idle EXCEPT !.phase = "summarising", !.plan = plan, !.force = force,
                                 !.prior = prior]
    <3>1. r.sent = <<>>
      BY DEF Idle
    <3>2. round' = [round EXCEPT ![c] = r]
      BY <2>2
    <3> HIDE DEF r
    <3> QED
      BY <3>1, <3>2 DEF Settled
  <2> QED
    BY <1>3, <2>1, <2>2 DEF Compact
<1>4. CASE Send(c) \/ Edit(c)
  <2> DEFINE r == [Idle EXCEPT !.phase = "starting"]
  <2>1. r.sent = <<>> /\ round' = [round EXCEPT ![c] = r]
    BY <1>4 DEF Send, Edit, Idle
  <2> HIDE DEF r
  <2> QED
    BY <1>1, <2>1 DEF Settled
<1>5. CASE PlanRound(c)
  <2>1. Compact(c, FALSE) /\ round[c].phase = "starting"
    BY <1>5 DEF PlanRound
  <2> QED
    BY <1>1, <1>3, <2>1
<1>6. CASE CompactNow(c)
  <2>1. Compact(c, TRUE)
    BY <1>6 DEF CompactNow
  <2> QED
    BY <1>1, <1>3, <2>1
<1>7. CASE NoCompaction(c)
  <2>1. PICK s \in {round[c].state, ref} :
          round' = [round EXCEPT ![c] = [round[c] EXCEPT !.phase = "calling", !.state = s]]
    <3>1. CASE manual
      BY <1>0, <1>7, <3>1 DEF NoCompaction
    <3>2. CASE ~manual
      <4>1. round' = [round EXCEPT ![c] = [round[c] EXCEPT !.phase = "calling"]]
        BY <1>0, <1>7, <3>2 DEF NoCompaction
      <4>2. [round[c] EXCEPT !.phase = "calling"]
              = [round[c] EXCEPT !.phase = "calling", !.state = round[c].state]
        BY <1>0 DEF RoundType
      <4> QED
        BY <4>1, <4>2
    <3> QED
      BY <3>1, <3>2
  <2> DEFINE r == [round[c] EXCEPT !.phase = "calling", !.state = s]
  <2>2. r.sent = round[c].sent
    BY <1>0 DEF RoundType
  <2>3. r.sent = <<>>
    BY <1>2, <1>7, <2>2 DEF NoCompaction
  <2>4. round' = [round EXCEPT ![c] = r]
    BY <2>1
  <2> HIDE DEF r
  <2> QED
    BY <1>1, <2>3, <2>4 DEF Settled
<1>8. CASE Summarised(c)
  <2>1. PICK text \in {round[c].prior, {}} :
          round' = [round EXCEPT ![c] = [Idle EXCEPT !.phase = AfterPlan(round[c].force),
                      !.plan = round[c].plan, !.state = StateOf(round[c].plan, text, 0)]]
    BY <1>8 DEF Summarised
  <2> DEFINE r == [Idle EXCEPT !.phase = AfterPlan(round[c].force), !.plan = round[c].plan,
                               !.state = StateOf(round[c].plan, text, 0)]
  <2>2. r.sent = <<>> /\ round' = [round EXCEPT ![c] = r]
    BY <2>1 DEF Idle
  <2> HIDE DEF r
  <2> QED
    BY <1>1, <2>2 DEF Settled
<1>9. CASE Stop(c)
  <2>1. Settled(Idle) /\ round' = [round EXCEPT ![c] = Idle]
    BY <1>9 DEF Stop, Settled, Idle
  <2> QED
    BY <1>1, <2>1
<1> QED
  BY <1>4, <1>5, <1>6, <1>7, <1>8, <1>9

\* What asking does to the round and the history.
LEMMA AskSends ==
  ASSUME TypeOK, NEW c \in Conv, Ask(c)
  PROVE  \E r, a :
           /\ round' = [round EXCEPT ![c] = r] /\ buffer' = [buffer EXCEPT ![c] = Append(buffer[c], a)]
           /\ a.role = "assistant" /\ r.sent = Request(buffer[c], round[c].state)
           /\ r.phase = "idle" \/ r.state = round[c].state
<1> DEFINE sent == Request(buffer[c], round[c].state)
           Result1(r, a) ==
             /\ round' = [round EXCEPT ![c] = r]
             /\ buffer' = [buffer EXCEPT ![c] = Append(buffer[c], a)]
             /\ a.role = "assistant" /\ r.sent = sent
             /\ r.phase = "idle" \/ r.state = round[c].state
<1>0. round \in [Conv -> RoundType] /\ round[c] \in RoundType
  BY DEF TypeOK
<1>1. ASSUME NEW phase, NEW a, a.role = "assistant", Append1(c, a),
             round' = [round EXCEPT ![c].phase = phase, ![c].sent = sent]
      PROVE  \E r, b : Result1(r, b)
  <2> HIDE DEF sent
  <2> DEFINE r == [round[c] EXCEPT !.phase = phase, !.sent = sent]
  <2>1. round' = [round EXCEPT ![c] = r]
    BY <1>0, <1>1
  <2>2. r.sent = sent /\ r.state = round[c].state
    BY <1>0 DEF RoundType
  <2> HIDE DEF r
  <2>3. buffer' = [buffer EXCEPT ![c] = Append(buffer[c], a)]
    BY <1>1 DEF Append1
  <2>4. Result1(r, a)
    BY <1>1, <2>1, <2>2, <2>3
  <2> HIDE DEF Result1
  <2> QED
    BY <2>4
<1>2. ASSUME NEW calls \in Batch, Append1(c, Assistant(Next1(c), calls)),
             round' = [round EXCEPT ![c].phase = "running", ![c].sent = sent]
      PROVE  \E r, b : Result1(r, b)
  <2>1. Assistant(Next1(c), calls).role = "assistant"
    BY DEF Assistant
  <2> HIDE DEF Result1, sent
  <2> QED
    BY <1>1, <1>2, <2>1
<1>3. ASSUME Append1(c, EmptyReply(Next1(c))),
             round' = [round EXCEPT ![c].phase = "calling", ![c].sent = sent]
      PROVE  \E r, b : Result1(r, b)
  <2>1. EmptyReply(Next1(c)).role = "assistant"
    BY DEF EmptyReply
  <2> HIDE DEF Result1, sent
  <2> QED
    BY <1>1, <1>3, <2>1
<1>4. ASSUME Append1(c, Assistant(Next1(c), <<>>)),
             round' = [round EXCEPT ![c] = [Idle EXCEPT !.sent = sent]]
      PROVE  \E r, b : Result1(r, b)
  <2> DEFINE reply == Assistant(Next1(c), <<>>)
             last  == [Idle EXCEPT !.sent = sent]
  <2>1. reply.role = "assistant" /\ last.sent = sent /\ last.phase = "idle"
    BY DEF Assistant, Idle
  <2>2. /\ buffer' = [buffer EXCEPT ![c] = Append(buffer[c], reply)]
        /\ round' = [round EXCEPT ![c] = last]
    BY <1>4 DEF Append1
  <2> HIDE DEF reply, last, sent
  <2>3. Result1(last, reply)
    BY <2>1, <2>2
  <2> HIDE DEF Result1
  <2> QED
    BY <2>3
<1>5. \E r, b : Result1(r, b)
  <2> HIDE DEF Result1
  <2> QED
    BY <1>2, <1>3, <1>4 DEF Ask
<1> QED
  BY <1>5

LEMMA SentNext ==
  ASSUME TypeOK, SentInv, [Next]_vars
  PROVE  SentInv'
<1>1. ASSUME NEW c \in Conv,
             \/ Send(c) \/ PlanRound(c) \/ NoCompaction(c) \/ CompactNow(c)
             \/ Summarised(c) \/ Stop(c) \/ Edit(c)
      PROVE  SentInv'
  <2>1. PICK r : Settled(r) /\ round' = [round EXCEPT ![c] = r]
    BY <1>1, SettlingSteps
  <2>2. \A d \in Conv \ {c} : buffer'[d] = buffer[d]
    BY <1>1, SettlingSteps
  <2>3. SentConv(buffer'[c], r)
    BY <2>1, SettledIsSent
  <2> QED
    BY <2>1, <2>2, <2>3, SentElsewhere
<1>2. ASSUME NEW c \in Conv, Ask(c)
      PROVE  SentInv'
  <2>1. PICK r, a :
           /\ round' = [round EXCEPT ![c] = r] /\ buffer' = [buffer EXCEPT ![c] = Append(buffer[c], a)]
           /\ a.role = "assistant" /\ r.sent = Request(buffer[c], round[c].state)
           /\ r.phase = "idle" \/ r.state = round[c].state
    BY <1>2, AskSends
  <2>2. /\ buffer[c] \in Seq(Message) /\ buffer'[c] = Append(buffer[c], a)
        /\ \A d \in Conv \ {c} : buffer'[d] = buffer[d]
    BY <2>1 DEF TypeOK
  <2>3. GrownBy(buffer'[c], buffer[c])
    BY <2>1, <2>2, GrowsByReply
  <2>4. SentConv(buffer'[c], r)
    <3>1. CASE r.phase = "idle"
      BY <3>1, SettledIsSent DEF Settled
    <3>2. CASE r.phase # "idle" /\ r.phase \in {"calling", "running"}
      BY <2>1, <2>2, <2>3, <3>2 DEF SentConv
    <3>3. r.phase \in {"idle", "calling", "running"}
      <4>1. round'[c] = r
        BY <2>1 DEF TypeOK
      <4>2. round'[c].phase \in {"idle", "calling", "running"}
        BY <1>2 DEF Ask, Idle, TypeOK, RoundType
      <4> QED
        BY <4>1, <4>2
    <3> QED
      BY <3>1, <3>2, <3>3
  <2> QED
    BY <2>1, <2>2, <2>4, SentElsewhere
<1>3. ASSUME NEW c \in Conv, ToolResult(c)
      PROVE  SentInv'
  <2>1. PICK phase \in {"calling", "running"} :
          round' = [round EXCEPT ![c] = [round[c] EXCEPT !.phase = phase]]
    BY <1>3 DEF ToolResult, TypeOK
  <2> DEFINE r == [round[c] EXCEPT !.phase = phase]
  <2>2. r.phase = phase /\ r.sent = round[c].sent /\ r.state = round[c].state
    <3>1. round[c] \in RoundType
      BY DEF TypeOK
    <3> QED
      BY <3>1 DEF RoundType
  <2>3. round' = [round EXCEPT ![c] = r]
    BY <2>1
  <2> HIDE DEF r
  <2>4. PICK a : a.role = "tool" /\ Append1(c, a)
    <3>1. PICK size : Append1(c, Result(buffer[c][Open(c)].id, Len(buffer[c]) - Open(c) + 1,
                                        buffer[c][Open(c)].calls[Len(buffer[c]) - Open(c) + 1], size))
      BY <1>3 DEF ToolResult
    <3>2. Result(buffer[c][Open(c)].id, Len(buffer[c]) - Open(c) + 1,
                 buffer[c][Open(c)].calls[Len(buffer[c]) - Open(c) + 1], size).role = "tool"
      BY DEF Result
    <3> QED
      BY <3>1, <3>2
  <2>5. /\ buffer[c] \in Seq(Message) /\ buffer'[c] = Append(buffer[c], a)
        /\ \A d \in Conv \ {c} : buffer'[d] = buffer[d]
    BY <2>4 DEF Append1, TypeOK
  <2>6. SentConv(buffer[c], round[c]) /\ round[c].phase = "running"
    BY <1>3 DEF SentInv, ToolResult
  <2>7. SentConv(buffer'[c], r)
    <3> SUFFICES ASSUME r.sent # <<>>
                 PROVE  \E m \in Seq(Message) : GrownBy(buffer'[c], m) /\ r.sent = Request(m, r.state)
      BY <2>2 DEF SentConv
    <3>1. PICK m \in Seq(Message) :
            GrownBy(buffer[c], m) /\ round[c].sent = Request(m, round[c].state)
      BY <2>2, <2>6 DEF SentConv
    <3>2. GrownBy(buffer'[c], m)
      BY <2>4, <2>5, <3>1, GrowsByResult
    <3> QED
      BY <2>2, <3>1, <3>2
  <2> QED
    BY <2>3, <2>5, <2>7, SentElsewhere
<1>4. ASSUME UNCHANGED <<buffer, round>> PROVE SentInv'
  BY <1>4 DEF SentInv
<1>5. CASE NewChat \/ UNCHANGED vars \/ \E c \in Conv : SwitchTo(c) \/ Switched(c)
  BY <1>4, <1>5 DEF NewChat, vars, SwitchTo, Switched
<1>6. CASE Restart
  <2>1. \A c \in Conv : round'[c] = Idle /\ Settled(Idle)
    BY <1>6 DEF Restart, Settled, Idle
  <2> QED
    BY <2>1, SettledIsSent DEF SentInv
<1> QED
  BY <1>1, <1>2, <1>3, <1>5, <1>6 DEF Next

\* What becomes of a conversation's last request: it is the same, or it is
\* forgotten, or the conversation is the one that asks.
LEMMA LastRequest ==
  ASSUME TypeOK, [Next]_vars, NEW c \in Conv, round[c].phase = "calling", ~Ask(c)
  PROVE  round'[c].sent \in {round[c].sent, <<>>}
<1>0. round \in [Conv -> RoundType] /\ round[c] \in RoundType
  BY DEF TypeOK
<1>1. ASSUME NEW d \in Conv, d # c, NEW r, round' = [round EXCEPT ![d] = r]
      PROVE  round'[c].sent = round[c].sent
  BY <1>0, <1>1
<1>2. CASE UNCHANGED round
  BY <1>2
<1>3. CASE NewChat \/ UNCHANGED vars \/ \E d \in Conv : SwitchTo(d) \/ Switched(d)
  BY <1>2, <1>3 DEF NewChat, vars, SwitchTo, Switched
<1>4. CASE Restart
  BY <1>4 DEF Restart, Idle
<1>5. CASE Stop(c)
  BY <1>0, <1>5 DEF Stop, Idle
<1>6. ASSUME NEW d \in Conv,
             \/ Send(d) \/ PlanRound(d) \/ NoCompaction(d) \/ CompactNow(d)
             \/ Summarised(d) \/ Ask(d) \/ ToolResult(d) \/ Stop(d) \/ Edit(d),
             d # c
      PROVE  round'[c] = round[c]
  BY <1>0, <1>6 DEF Send, PlanRound, NoCompaction, CompactNow, Compact, Settle, Summarised, Ask,
                    ToolResult, Stop, Edit
<1>7. ~( \/ Send(c) \/ PlanRound(c) \/ NoCompaction(c) \/ CompactNow(c)
         \/ Summarised(c) \/ Ask(c) \/ ToolResult(c) \/ Edit(c))
  BY DEF Send, PlanRound, NoCompaction, CompactNow, Summarised, ToolResult, Edit
<1> QED
  BY <1>3, <1>4, <1>5, <1>6, <1>7 DEF Next

LEMMA PrefixNext ==
  ASSUME TypeOK, SentInv, [Next]_vars, NEW c \in Conv,
         round[c].phase = "calling", round[c].sent # <<>>, round'[c].sent # <<>>
  PROVE  IsPrefix(round[c].sent, round'[c].sent)
<1>0. round[c].sent \in Seq(WireEntry) /\ buffer[c] \in Seq(Message) /\ round[c].state \in StateType
  BY DEF TypeOK, RoundType
<1>1. CASE ~Ask(c)
  <2>1. round'[c].sent = round[c].sent
    BY <1>1, LastRequest
  <2> QED
    BY <1>0, <2>1 DEF IsPrefix
<1>2. CASE Ask(c)
  <2>1. round'[c].sent = Request(buffer[c], round[c].state)
    <3>1. PICK r, a :
             /\ round' = [round EXCEPT ![c] = r] /\ buffer' = [buffer EXCEPT ![c] = Append(buffer[c], a)]
             /\ a.role = "assistant" /\ r.sent = Request(buffer[c], round[c].state)
             /\ r.phase = "idle" \/ r.state = round[c].state
      BY <1>2, AskSends
    <3>2. round'[c] = r
      BY <3>1 DEF TypeOK
    <3> QED
      BY <3>1, <3>2
  <2>2. PICK m \in Seq(Message) : GrownBy(buffer[c], m) /\ round[c].sent = Request(m, round[c].state)
    BY DEF SentInv, SentConv
  <2> QED
    BY <1>0, <2>1, <2>2, RequestExtends
<1> QED
  BY <1>1, <1>2

\* Within a round of chatSend every request repeats the one before it, message
\* for message, and only adds to it: what buildWireContext makes of a frozen
\* plan and sanitizeToolCallPairs of a growing history, however the plan came
\* about and whatever the user opens meanwhile.
THEOREM PrefixStays == Spec => PrefixStable
<1> DEFINE Longer == \A c \in Conv :
             round[c].phase = "calling" /\ round[c].sent # <<>> /\ round'[c].sent # <<>>
               => IsPrefix(round[c].sent, round'[c].sent)
           Safe == TypeOK /\ ContextInv
<1>1. Init => SentInv
  BY SettledIsSent DEF Init, SentInv, Settled, Idle
<1>2. Safe /\ SentInv /\ [Next]_vars => SentInv'
  BY SentNext
<1>3. Safe /\ SentInv /\ [Next]_vars => [Longer]_vars
  BY PrefixNext
<1>4. Spec => []Safe
  BY ContextInvariant
<1> HIDE DEF Longer, Safe
<1>5. Spec => [][Longer]_vars
  BY <1>1, <1>2, <1>3, <1>4, PTL DEF Spec
<1> QED
  BY <1>5 DEF PrefixStable, Longer
=============================================================================
