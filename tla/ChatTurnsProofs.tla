--------------------------- MODULE ChatTurnsProofs ---------------------------
(***************************************************************************)
(* Proofs about ChatTurns for any number of clients, calls, conversations  *)
(* and messages.                                                           *)
(***************************************************************************)
EXTENDS ChatTurns, TLAPS, FiniteSetTheorems, SequenceTheorems, WellFoundedInduction

-----------------------------------------------------------------------------
(* The invariant. *)

\* What a call that is about to write has read: a conversation that exists, and
\* that has lost nothing since.  Of a client with the whole history, the request
\* begins with what it read.
ViewAt(t) ==
    LET r == turn[t]
        x == r.context
        v == x.conversation
    IN  /\ x.matched <= Len(r.request)
        /\ r.client \notin Bound /\ r.kind # "dictation" => x.matched = x.existing
        /\ x # NoContext =>
             /\ v \in Made
             /\ x.existing <= Len(messages[v])
             /\ (r.client \notin Bound /\ r.kind # "dictation" /\ x.existing = Len(messages[v]))
                  => Transcript(v) = SubSeq(r.request, 1, x.existing)

TurnAt(t) ==
    /\ turn[t].pc # "idle" => turn[t].client \in Client /\ turn[t].request # <<>>
    /\ turn[t].pc = "commit" => ViewAt(t)

\* In a conversation that only clients with the whole history have written to,
\* each on top of what it had read, the messages are numbered from 0 without
\* gaps or repetitions, through failed turns, retries, dictations and new chats.
SequentialIndices ==
    \A v \in Conversation \ mixed :
        \A i \in DOMAIN messages[v] : messages[v][i].index = i - 1

BindingsMade == \A c \in Client : binding[c] # None => binding[c] \in Made

UnmadeBlank == \A v \in Conversation \ Made : messages[v] = <<>>

Inv ==
    /\ TypeOK
    /\ SequentialIndices
    /\ BindingsMade
    /\ UnmadeBlank
    /\ \A t \in Turn : TurnAt(t)

-----------------------------------------------------------------------------
(* Operators. *)

LEMMA LeastExists ==
    ASSUME NEW I \in SUBSET Nat, I # {}
    PROVE  Min(I) \in I
<1>1. PICK x \in I : \A y \in I : ~(<<y, x>> \in OpToRel(<, Nat))
  BY NatLessThanWellFounded, WFMin
<1>2. ASSUME NEW y \in I PROVE x <= y
  <2>1. x \in Nat /\ y \in Nat /\ ~(y < x)
    BY <1>1 DEF OpToRel
  <2> QED
    BY <2>1
<1> QED
  BY <1>2 DEF Min

LEMMA InSeq ==
    ASSUME NEW S, NEW s \in Seq(S), NEW n, n = Len(s)
    PROVE  /\ \A i \in 1..n : s[i] \in ToSet(s)
           /\ \A x \in ToSet(s) : \E i \in 1..n : x = s[i]
           /\ ToSet(s) \subseteq S
<1>1. DOMAIN s = 1..n /\ \A i \in 1..n : s[i] \in S
  BY LenProperties, ElementOfSeq
<1> QED
  BY <1>1 DEF ToSet

\* A sequence of conversations, and where something is in it.
LEMMA PlaceOf ==
    ASSUME NEW s \in Seq(Conversation), NEW v \in ToSet(s)
    PROVE  SelectInSeq(s, LAMBDA w : w = v) \in 1..Len(s)
           /\ s[SelectInSeq(s, LAMBDA w : w = v)] = v
<1> DEFINE I == {i \in 1..Len(s) : s[i] = v}
<1>1. PICK n \in Nat : n = Len(s) /\ DOMAIN s = 1..n
  BY LenProperties
<1>2. I \subseteq Nat /\ I # {}
  BY <1>1 DEF ToSet
<1>3. Min(I) \in I
  <2> HIDE DEF I
  <2> QED
    BY <1>2, LeastExists
<1>4. SelectInSeq(s, LAMBDA w : w = v) = Min(I)
  BY <1>2 DEF SelectInSeq
<1> QED
  BY <1>3, <1>4

\* What is touched is first, and is there once.
LEMMA TouchedFacts ==
    ASSUME NEW s \in Seq(Conversation), IsInjective(s), NEW v \in Conversation
    PROVE  /\ Touched(s, v) \in Seq(Conversation)
           /\ IsInjective(Touched(s, v))
           /\ ToSet(Touched(s, v)) = ToSet(s) \cup {v}
<1>1. PICK n \in Nat : n = Len(s) /\ DOMAIN s = 1..n
  BY LenProperties
<1>2. /\ <<v>> \in Seq(Conversation) /\ Len(<<v>>) = 1 /\ <<v>>[1] = v
  OBVIOUS
<1>3. CASE v \notin ToSet(s)
  <2>1. Touched(s, v) = <<v>> \o s
    BY <1>1, <1>3 DEF Touched, RemoveFirst, ToSet
  <2> DEFINE u == <<v>> \o s
  <2>2. /\ u \in Seq(Conversation) /\ Len(u) = n + 1
        /\ \A i \in 1..n + 1 : u[i] = IF i <= 1 THEN v ELSE s[i - 1]
    BY <1>1, <1>2, ConcatProperties
  <2>3. DOMAIN u = 1..n + 1
    BY <2>2, LenProperties
  <2> HIDE DEF u
  <2>4. IsInjective(u)
    <3>1. ASSUME NEW a \in 1..n + 1, NEW b \in 1..n + 1, u[a] = u[b], a # b
          PROVE  FALSE
      <4>1. ASSUME NEW i \in 2..n + 1 PROVE u[i] # v
        <5>1. i - 1 \in 1..n /\ u[i] = s[i - 1]
          BY <2>2
        <5> QED
          BY <1>1, <1>3, <5>1, InSeq
      <4>2. a \in 2..n + 1 /\ b \in 2..n + 1
        BY <2>2, <3>1, <4>1
      <4>3. s[a - 1] = s[b - 1] /\ a - 1 \in 1..n /\ b - 1 \in 1..n
        BY <2>2, <3>1, <4>2
      <4>4. a - 1 = b - 1
        BY <1>1, <4>3 DEF IsInjective
      <4> QED
        BY <3>1, <4>2, <4>4
    <3> QED
      BY <2>3, <3>1 DEF IsInjective
  <2>5. ToSet(u) = ToSet(s) \cup {v}
    <3>1. ASSUME NEW i \in 1..n PROVE \E j \in 1..n + 1 : u[j] = s[i]
      <4>1. i + 1 \in 1..n + 1 /\ u[i + 1] = s[i]
        BY <2>2
      <4> QED
        BY <4>1
    <3>2. 1 \in 1..n + 1 /\ u[1] = v
      BY <2>2
    <3>3. ASSUME NEW j \in 1..n + 1 PROVE u[j] = v \/ \E i \in 1..n : u[j] = s[i]
      <4>1. j # 1 => j - 1 \in 1..n /\ u[j] = s[j - 1]
        BY <2>2
      <4> QED
        BY <3>2, <4>1
    <3>4. ASSUME NEW x \in ToSet(u) PROVE x \in ToSet(s) \cup {v}
      BY <1>1, <2>2, <3>3, InSeq
    <3>5. ASSUME NEW x \in ToSet(s) PROVE x \in ToSet(u)
      <4>1. PICK i \in 1..n : x = s[i]
        BY <1>1, InSeq
      <4>2. PICK j \in 1..n + 1 : u[j] = s[i]
        BY <3>1
      <4> QED
        BY <2>2, <4>1, <4>2, InSeq
    <3>6. v \in ToSet(u)
      BY <2>2, <3>2, InSeq
    <3> QED
      BY <3>4, <3>5, <3>6
  <2> QED
    BY <2>1, <2>2, <2>4, <2>5 DEF u
<1>4. CASE v \in ToSet(s)
  <2>1. PICK p \in 1..n : p = SelectInSeq(s, LAMBDA w : w = v) /\ s[p] = v
    BY <1>1, <1>4, PlaceOf
  <2> DEFINE a == SubSeq(s, 1, p - 1)
             b == SubSeq(s, p + 1, n)
             u == <<v>> \o (a \o b)
  <2>2. Touched(s, v) = u
    BY <1>1, <2>1 DEF Touched, RemoveFirst, RemoveAt
  <2>3. /\ a \in Seq(Conversation) /\ Len(a) = p - 1
        /\ \A i \in 1..p - 1 : a[i] = s[i]
    <3>1. \A i \in 1..p - 1 : s[i] \in Conversation
      BY <1>1, ElementOfSeq
    <3> QED
      BY <3>1, SubSeqProperties
  <2>4. /\ b \in Seq(Conversation) /\ Len(b) = n - p
        /\ \A i \in 1..n - p : b[i] = s[p + i]
    <3>1. \A i \in p + 1..n : s[i] \in Conversation
      BY <1>1, ElementOfSeq
    <3>2. /\ SubSeq(s, p + 1, n) \in Seq(Conversation)
          /\ Len(SubSeq(s, p + 1, n)) = IF p + 1 <= n THEN n - (p + 1) + 1 ELSE 0
          /\ \A i \in 1..n - (p + 1) + 1 : SubSeq(s, p + 1, n)[i] = s[p + 1 + i - 1]
      BY <3>1, SubSeqProperties
    <3> QED
      BY <3>2
  <2> HIDE DEF a, b
  <2>5. /\ a \o b \in Seq(Conversation) /\ Len(a \o b) = n - 1
        /\ \A i \in 1..n - 1 : (a \o b)[i] = IF i <= p - 1 THEN a[i] ELSE b[i - (p - 1)]
    <3>1. /\ a \o b \in Seq(Conversation) /\ Len(a \o b) = Len(a) + Len(b)
          /\ \A i \in 1..Len(a) + Len(b) :
               (a \o b)[i] = IF i <= Len(a) THEN a[i] ELSE b[i - Len(a)]
      BY <2>3, <2>4, ConcatProperties
    <3>2. Len(a) + Len(b) = n - 1
      BY <2>3, <2>4
    <3> QED
      BY <2>3, <3>1, <3>2
  <2>6. ASSUME NEW i \in 1..n - 1 PROVE (a \o b)[i] = IF i < p THEN s[i] ELSE s[i + 1]
    <3>1. CASE i < p
      <4>1. i \in 1..p - 1 /\ i <= p - 1
        BY <3>1
      <4> QED
        BY <2>3, <2>5, <3>1, <4>1
    <3>2. CASE ~(i < p)
      <4>1. i - (p - 1) \in 1..n - p /\ ~(i <= p - 1) /\ p + (i - (p - 1)) = i + 1
        BY <3>2
      <4>2. (a \o b)[i] = b[i - (p - 1)]
        BY <2>5, <4>1
      <4>3. b[i - (p - 1)] = s[p + (i - (p - 1))]
        BY <2>4, <4>1
      <4> QED
        BY <3>2, <4>1, <4>2, <4>3
    <3> QED
      BY <3>1, <3>2
  <2>7. /\ u \in Seq(Conversation) /\ Len(u) = n
        /\ \A i \in 1..n : u[i] = IF i <= 1 THEN v ELSE (a \o b)[i - 1]
    <3>1. /\ u \in Seq(Conversation) /\ Len(u) = 1 + (n - 1)
          /\ \A i \in 1..1 + (n - 1) : u[i] = IF i <= 1 THEN <<v>>[i] ELSE (a \o b)[i - 1]
      BY <1>2, <2>5, ConcatProperties
    <3> QED
      BY <3>1
  <2>8. DOMAIN u = 1..n
    BY <2>7, LenProperties
  <2> HIDE DEF u
  \* The new places are the old ones, with p moved to the front.
  <2> DEFINE old(i) == IF i = 1 THEN p ELSE IF i <= p THEN i - 1 ELSE i
  <2>9. \A i \in 1..n : old(i) \in 1..n /\ u[i] = s[old(i)]
    <3>1. ASSUME NEW i \in 1..n, i # 1 PROVE u[i] = IF i <= p THEN s[i - 1] ELSE s[i]
      <4>1. i - 1 \in 1..n - 1 /\ (i - 1 < p <=> i <= p) /\ i - 1 + 1 = i /\ ~(i <= 1)
        BY <3>1
      <4>2. u[i] = (a \o b)[i - 1]
        BY <2>7, <4>1
      <4>3. (a \o b)[i - 1] = IF i - 1 < p THEN s[i - 1] ELSE s[i - 1 + 1]
        BY <2>6, <4>1
      <4> QED
        BY <4>1, <4>2, <4>3
    <3>2. n >= 1 /\ u[1] = v
      BY <2>7
    <3>3. ASSUME NEW i \in 1..n PROVE old(i) \in 1..n /\ u[i] = s[old(i)]
      <4>1. CASE i = 1
        BY <2>1, <3>2, <4>1
      <4>2. CASE i # 1
        BY <3>1, <4>2
      <4> QED
        BY <4>1, <4>2
    <3> QED
      BY <3>3
  <2>10. \A i, j \in 1..n : old(i) = old(j) => i = j
    OBVIOUS
  <2>11. \A k \in 1..n : \E i \in 1..n : old(i) = k
    <3>1. ASSUME NEW k \in 1..n PROVE \E i \in 1..n : old(i) = k
      <4>1. CASE k = p
        <5>1. 1 \in 1..n /\ old(1) = k
          BY <4>1
        <5> QED
          BY <5>1
      <4>2. CASE k < p
        <5>1. k + 1 \in 1..n /\ old(k + 1) = k
          BY <4>2
        <5> QED
          BY <5>1
      <4>3. CASE k > p
        <5>1. old(k) = k
          BY <4>3
        <5> QED
          BY <5>1
      <4> QED
        BY <4>1, <4>2, <4>3
    <3> QED
      BY <3>1
  <2> HIDE DEF old
  <2>12. IsInjective(u)
    BY <1>1, <2>8, <2>9, <2>10 DEF IsInjective
  <2>13. ToSet(u) = ToSet(s)
    <3>1. ASSUME NEW x \in ToSet(s) PROVE x \in ToSet(u)
      <4>1. PICK k \in 1..n : x = s[k]
        BY <1>1, InSeq
      <4>2. PICK i \in 1..n : old(i) = k
        BY <2>11
      <4> QED
        BY <2>7, <2>9, <4>1, <4>2, InSeq
    <3>2. ASSUME NEW x \in ToSet(u) PROVE x \in ToSet(s)
      <4>1. PICK i \in 1..n : x = u[i]
        BY <2>7, InSeq
      <4> QED
        BY <1>1, <2>9, <4>1, InSeq
    <3> QED
      BY <3>1, <3>2
  <2> QED
    BY <1>4, <2>2, <2>7, <2>12, <2>13
<1> QED
  BY <1>3, <1>4

-----------------------------------------------------------------------------
(* Transcripts. *)

Sequential(list) == \A i \in DOMAIN list : list[i].index = i - 1

\* What is numbered without gaps is read in the order it was written in.
LEMMA SequentialIsOrdered ==
    ASSUME NEW list \in Seq(Message), Sequential(list)
    PROVE  Ordered(list) = [k \in DOMAIN list |-> Seen(list[k])]
<1>1. PICK n \in Nat : n = Len(list) /\ DOMAIN list = 1..n
  BY LenProperties
<1>2. ASSUME NEW i \in 1..n PROVE Place(list, i) = i
  <2> DEFINE B == {j \in DOMAIN list : \/ list[j].index < list[i].index
                                       \/ list[j].index = list[i].index /\ j < i}
  <2>1. Place(list, i) = 1 + Cardinality(B)
    BY DEF Place
  <2>2. ASSUME NEW j \in 1..n PROVE j \in B <=> j < i
    BY <1>1 DEF Sequential
  <2>3. B = 1..i - 1
    <3>1. B \subseteq 1..n
      BY <1>1
    <3> HIDE DEF B
    <3>2. ASSUME NEW j \in B PROVE j \in 1..i - 1
      BY <2>2, <3>1
    <3>3. ASSUME NEW j \in 1..i - 1 PROVE j \in B
      <4>1. j \in 1..n /\ j < i
        OBVIOUS
      <4> QED
        BY <2>2, <4>1
    <3> QED
      BY <3>2, <3>3
  <2>4. Cardinality(1..i - 1) = i - 1
    BY FS_Interval
  <2> HIDE DEF B
  <2> QED
    BY <2>1, <2>3, <2>4
<1>3. ASSUME NEW k \in 1..n PROVE (CHOOSE i \in DOMAIN list : Place(list, i) = k) = k
  BY <1>1, <1>2
<1> QED
  <2>1. Ordered(list) = [k \in DOMAIN list |->
            Seen(list[CHOOSE i \in DOMAIN list : Place(list, i) = k])]
    BY DEF Ordered
  <2> QED
    BY <1>1, <1>3, <2>1

\* The rows that a turn leaves: numbered from what it read on, and what the
\* client has on its screen from there on.
LEMMA AppendedFacts ==
    ASSUME NEW request \in Seq(Said), NEW x, x.matched \in Nat, x.existing \in Nat,
           x.matched <= Len(request)
    PROVE  /\ Appended(request, x) \in Seq(Message)
           /\ Len(Appended(request, x)) = Len(request) - x.matched
           /\ \A i \in 1..Len(request) - x.matched :
                /\ Appended(request, x)[i].index = x.existing + i - 1
                /\ Seen(Appended(request, x)[i]) = request[x.matched + i]
<1>1. PICK n \in Nat : n = Len(request)
  BY LenProperties
<1>2. PICK d \in Nat : d = n - x.matched
  BY <1>1
<1>3. ASSUME NEW i \in 1..d
      PROVE  LET m == At(request[x.matched + i], x.existing + i - 1)
             IN  m \in Message /\ m.index = x.existing + i - 1 /\ Seen(m) = request[x.matched + i]
  <2>1. request[x.matched + i] \in Said
    <3>1. x.matched + i \in 1..n
      BY <1>2
    <3> QED
      BY <1>1, <3>1, ElementOfSeq
  <2>2. x.existing + i - 1 \in Nat
    OBVIOUS
  <2> QED
    BY <2>1, <2>2 DEF Said, Message, At, Seen, Assistant
<1>4. Appended(request, x) = [i \in 1..d |-> At(request[x.matched + i], x.existing + i - 1)]
  BY <1>1, <1>2 DEF Appended
<1>5. Appended(request, x) \in [1..d -> Message]
  BY <1>3, <1>4
<1>6. Appended(request, x) \in Seq(Message) /\ Len(Appended(request, x)) = d
  BY <1>5
<1> QED
  BY <1>1, <1>2, <1>3, <1>4, <1>6

LEMMA StoredFacts ==
    ASSUME NEW request \in Seq(Said), NEW x, x.matched \in Nat, x.existing \in Nat,
           x.matched <= Len(request), NEW answered \in BOOLEAN
    PROVE  LET rows == Stored(request, x, answered)
               d    == Len(request) - x.matched
           IN  /\ rows \in Seq(Message)
               /\ Len(rows) = IF answered THEN d + 1 ELSE d
               /\ \A i \in 1..d : /\ rows[i].index = x.existing + i - 1
                                  /\ Seen(rows[i]) = request[x.matched + i]
               /\ answered => rows[d + 1].index = Len(request) /\ Seen(rows[d + 1]) = Assistant
<1> DEFINE new == Appended(request, x)
           answer == At(Assistant, AnswerIndex(request))
           rows == Stored(request, x, answered)
<1>1. PICK n \in Nat : n = Len(request)
  BY LenProperties
<1>2. PICK d \in Nat : d = n - x.matched
  BY <1>1
<1>3. /\ new \in Seq(Message) /\ Len(new) = d
      /\ \A i \in 1..d : /\ new[i].index = x.existing + i - 1
                         /\ Seen(new[i]) = request[x.matched + i]
  BY <1>1, <1>2, AppendedFacts
<1>4. answer \in Message /\ answer.index = n /\ Seen(answer) = Assistant
  BY <1>1 DEF Message, At, Assistant, AnswerIndex, Seen
<1> HIDE DEF new, answer, rows
<1> DEFINE Right ==
      /\ rows \in Seq(Message)
      /\ Len(rows) = IF answered THEN d + 1 ELSE d
      /\ \A i \in 1..d : /\ rows[i].index = x.existing + i - 1
                         /\ Seen(rows[i]) = request[x.matched + i]
      /\ answered => rows[d + 1].index = n /\ Seen(rows[d + 1]) = Assistant
<1>5. ASSUME answered PROVE Right
  <2>1. rows = new \o <<answer>>
    BY <1>5 DEF Stored, new, answer, rows
  <2>2. <<answer>> \in Seq(Message) /\ Len(<<answer>>) = 1 /\ <<answer>>[1] = answer
    BY <1>4
  <2>3. /\ rows \in Seq(Message) /\ Len(rows) = d + 1
        /\ \A i \in 1..d + 1 : rows[i] = IF i <= d THEN new[i] ELSE <<answer>>[i - d]
    BY <1>3, <2>1, <2>2, ConcatProperties
  <2>4. rows[d + 1] = answer /\ \A i \in 1..d : rows[i] = new[i]
    BY <2>2, <2>3
  <2> QED
    BY <1>1, <1>2, <1>3, <1>4, <1>5, <2>3, <2>4
<1>6. ASSUME ~answered PROVE Right
  <2>1. rows = new
    BY <1>3, <1>6, ConcatEmptySeq DEF Stored, new, rows
  <2>2. rows \in Seq(Message) /\ Len(rows) = d
    BY <1>3, <2>1
  <2>3. \A i \in 1..d : rows[i].index = x.existing + i - 1 /\ Seen(rows[i]) = request[x.matched + i]
    BY <1>3, <2>1
  <2> QED
    BY <1>6, <2>2, <2>3
<1>7. Right
  BY <1>5, <1>6
<1>8. Len(request) - x.matched = d
  BY <1>1, <1>2
<1> QED
  BY <1>1, <1>7, <1>8 DEF rows

\* The transcript that is left by rows which were added where they belong.
LEMMA ExtendedBy ==
    ASSUME NEW list \in Seq(Message), Sequential(list), NEW rows \in Seq(Message),
           \A i \in 1..Len(rows) : rows[i].index = Len(list) + i - 1
    PROVE  /\ list \o rows \in Seq(Message)
           /\ Len(list \o rows) = Len(list) + Len(rows)
           /\ \A i \in 1..Len(list) : (list \o rows)[i] = list[i]
           /\ \A i \in 1..Len(rows) : (list \o rows)[Len(list) + i] = rows[i]
           /\ Sequential(list \o rows)
<1>1. PICK n \in Nat : n = Len(list) /\ DOMAIN list = 1..n
  BY LenProperties
<1>2. PICK d \in Nat : d = Len(rows) /\ \A i \in 1..d : rows[i].index = n + i - 1
  BY <1>1, LenProperties
<1> DEFINE u == list \o rows
<1>3. /\ u \in Seq(Message) /\ Len(u) = n + d
      /\ \A i \in 1..n + d : u[i] = IF i <= n THEN list[i] ELSE rows[i - n]
  BY <1>1, <1>2, ConcatProperties
<1>4. DOMAIN u = 1..n + d
  BY <1>3, LenProperties
<1> HIDE DEF u
<1>5. \A i \in 1..n : u[i] = list[i]
  BY <1>3
<1>6. ASSUME NEW i \in 1..d PROVE u[n + i] = rows[i]
  <2>1. n + i \in 1..n + d /\ ~(n + i <= n) /\ n + i - n = i
    OBVIOUS
  <2> QED
    BY <1>3, <2>1
<1>7. ASSUME NEW i \in 1..n + d PROVE u[i].index = i - 1
  <2>1. CASE i <= n
    BY <1>1, <1>5, <2>1 DEF Sequential
  <2>2. CASE ~(i <= n)
    <3>1. i - n \in 1..d /\ n + (i - n) - 1 = i - 1
      BY <2>2
    <3>2. u[i] = rows[i - n]
      BY <1>3, <2>2
    <3>3. rows[i - n].index = n + (i - n) - 1
      BY <1>2, <3>1
    <3> QED
      BY <3>1, <3>2, <3>3
  <2> QED
    BY <2>1, <2>2
<1>8. Sequential(u)
  BY <1>4, <1>7 DEF Sequential
<1> QED
  BY <1>1, <1>2, <1>3, <1>5, <1>6, <1>8 DEF u


\* A turn on top of what its client has seen leaves what is on its screen.
LEMMA TurnExtends ==
    ASSUME NEW list \in Seq(Message), Sequential(list),
           NEW request \in Seq(Said), NEW x, NEW answered \in BOOLEAN,
           x.matched = x.existing, x.existing = Len(list), Len(list) <= Len(request)
    PROVE  LET new == list \o Stored(request, x, answered)
           IN  /\ Sequential(new)
               /\ Ordered(list) = SubSeq(request, 1, Len(list)) =>
                    Ordered(new) = IF answered THEN Append(request, Assistant) ELSE request
<1> DEFINE rows == Stored(request, x, answered)
<1>1. PICK n \in Nat : n = Len(list) /\ DOMAIN list = 1..n
  BY LenProperties
<1>2. PICK q \in Nat : q = Len(request) /\ DOMAIN request = 1..q
  BY LenProperties
<1>3. PICK e \in 0..1 : e = IF answered THEN 1 ELSE 0
  OBVIOUS
<1>4. PICK d \in Nat : d = q - n
  BY <1>1, <1>2
<1>5. /\ rows \in Seq(Message) /\ Len(rows) = d + e
      /\ \A i \in 1..d : rows[i].index = n + i - 1 /\ Seen(rows[i]) = request[n + i]
      /\ e = 1 => rows[d + 1].index = q /\ Seen(rows[d + 1]) = Assistant
  <2>1. x.matched \in Nat /\ x.existing \in Nat /\ x.matched <= Len(request)
    BY <1>1, <1>2
  <2>2. x.matched = n /\ x.existing = n /\ Len(request) - x.matched = d
    BY <1>1, <1>2, <1>4
  <2>3. /\ rows \in Seq(Message)
        /\ Len(rows) = IF answered THEN d + 1 ELSE d
        /\ \A i \in 1..d : /\ rows[i].index = x.existing + i - 1
                           /\ Seen(rows[i]) = request[x.matched + i]
        /\ answered => rows[d + 1].index = Len(request) /\ Seen(rows[d + 1]) = Assistant
    BY <2>1, <2>2, StoredFacts
  <2> QED
    BY <1>2, <1>3, <2>2, <2>3
<1> HIDE DEF rows
<1>6. ASSUME NEW i \in 1..d + e PROVE rows[i].index = n + i - 1
  <2>1. CASE i \in 1..d
    BY <1>5, <2>1
  <2>2. CASE i \notin 1..d
    <3>1. e = 1 /\ i = d + 1 /\ n + i - 1 = q
      BY <1>4, <2>2
    <3> QED
      BY <1>5, <3>1
  <2> QED
    BY <2>1, <2>2
<1> DEFINE u == list \o rows
<1>7. /\ u \in Seq(Message) /\ Len(u) = q + e /\ Sequential(u)
      /\ \A i \in 1..n : u[i] = list[i]
      /\ \A i \in 1..d + e : u[n + i] = rows[i]
  <2>1. d + e \in Nat /\ n + (d + e) = q + e
    BY <1>4
  <2>2. /\ u \in Seq(Message) /\ Len(u) = n + (d + e) /\ Sequential(u)
        /\ \A i \in 1..n : u[i] = list[i]
        /\ \A i \in 1..d + e : u[n + i] = rows[i]
    <3>1. Len(rows) = d + e /\ Len(list) = n
      BY <1>1, <1>5
    <3>2. \A i \in 1..Len(rows) : rows[i].index = Len(list) + i - 1
      BY <1>6, <3>1
    <3>3. /\ u \in Seq(Message) /\ Len(u) = Len(list) + Len(rows) /\ Sequential(u)
          /\ \A i \in 1..Len(list) : u[i] = list[i]
          /\ \A i \in 1..Len(rows) : u[Len(list) + i] = rows[i]
      BY <1>5, <3>2, ExtendedBy
    <3> QED
      BY <3>1, <3>3
  <2> QED
    BY <2>1, <2>2
<1> HIDE DEF u
<1>8. DOMAIN u = 1..q + e
  BY <1>7, LenProperties
<1> DEFINE want == IF answered THEN Append(request, Assistant) ELSE request
<1>9. ASSUME Ordered(list) = SubSeq(request, 1, n)
      PROVE  Ordered(u) = want
  <2>1. Ordered(u) = [k \in 1..q + e |-> Seen(u[k])]
    BY <1>7, <1>8, SequentialIsOrdered
  <2>2. ASSUME NEW k \in 1..n PROVE Seen(u[k]) = request[k]
    <3>1. Ordered(list)[k] = Seen(list[k])
      BY <1>1, SequentialIsOrdered
    <3>2. SubSeq(request, 1, n)[k] = request[k]
      <4>1. \A i \in 1..n : request[i] \in Said
        BY <1>1, <1>2, ElementOfSeq
      <4> QED
        BY <4>1, SubSeqProperties
    <3> QED
      BY <1>7, <1>9, <3>1, <3>2
  <2>3. ASSUME NEW k \in n + 1..q PROVE Seen(u[k]) = request[k]
    <3>1. k - n \in 1..d /\ k - n \in 1..d + e /\ n + (k - n) = k
      BY <1>4
    <3> QED
      BY <1>5, <1>7, <3>1
  <2>4. ASSUME NEW k \in 1..q PROVE Seen(u[k]) = request[k]
    BY <2>2, <2>3
  <2>5. e = 1 => Seen(u[q + 1]) = Assistant
    <3>1. SUFFICES ASSUME e = 1 PROVE Seen(u[q + 1]) = Assistant
      OBVIOUS
    <3>2. d + 1 \in 1..d + e /\ n + (d + 1) = q + 1
      BY <1>4, <3>1
    <3>3. u[n + (d + 1)] = rows[d + 1]
      BY <1>7, <3>2
    <3> QED
      BY <1>5, <3>1, <3>2, <3>3
  <2>6. CASE answered
    <3> DEFINE w == Append(request, Assistant)
    <3>1. w \in Seq(Said) /\ Len(w) = q + 1
          /\ \A k \in 1..q + 1 : w[k] = IF k = q + 1 THEN Assistant ELSE request[k]
      <4>1. Assistant \in Said
        BY DEF Said
      <4> QED
        BY <1>2, <4>1, AppendProperties
    <3>2. \A k \in 1..q + 1 : Seen(u[k]) = IF k = q + 1 THEN Assistant ELSE request[k]
      BY <1>3, <2>4, <2>5, <2>6
    <3>3. DOMAIN w = 1..q + 1
      BY <3>1, LenProperties
    <3> HIDE DEF w
    <3>4. w = [k \in 1..q + 1 |-> w[k]]
      BY <3>1, <3>3, LenProperties
    <3>5. Ordered(u) = w
      BY <1>3, <2>1, <2>6, <3>1, <3>2, <3>4
    <3> QED
      BY <2>6, <3>5 DEF w
  <2>7. CASE ~answered
    <3>1. want = [k \in 1..q |-> request[k]]
      BY <1>2, <2>7, LenProperties
    <3> QED
      BY <1>3, <2>1, <2>4, <2>7, <3>1
  <2> QED
    BY <2>6, <2>7
<1> QED
  BY <1>1, <1>5, <1>7, <1>9 DEF u, rows

-----------------------------------------------------------------------------
(* Resolution. *)

LEMMA MadeType ==
    ASSUME TypeOK
    PROVE  Made \subseteq Conversation
BY InSeq DEF TypeOK, Made

LEMMA PrefixFacts ==
    ASSUME NEW v \in Conversation, NEW request \in Seq(Said), Matches(v, request),
           messages[v] \in Seq(Message)
    PROVE  /\ Len(messages[v]) <= Len(request)
           /\ Transcript(v) = SubSeq(request, 1, Len(messages[v]))
<1>1. PICK n \in Nat : n = Len(messages[v]) /\ DOMAIN messages[v] = 1..n
  BY LenProperties
<1> DEFINE T == {Transcript(v)[i] : i \in 1..n}
<1>2. Transcript(v) \in Seq(T) /\ Len(Transcript(v)) = n
  <2>1. DOMAIN Transcript(v) = 1..n /\ Transcript(v) = [i \in 1..n |-> Transcript(v)[i]]
    BY <1>1 DEF Transcript, Ordered
  <2>2. Transcript(v) \in [1..n -> T]
    BY <2>1
  <2> HIDE DEF T
  <2> QED
    BY <2>2
<1>3. SubSeq(Transcript(v), 1, n) = Transcript(v)
  BY <1>2, SubSeqFull
<1> QED
  BY <1>1, <1>2, <1>3 DEF Matches, IsPrefix

\* The best match is a conversation that matches.
LEMMA BestFacts ==
    ASSUME TypeOK, NEW request, Best(request) # None
    PROVE  Best(request) \in Matching(request)
<1> DEFINE found == Matching(request)
           I == {i \in 1..Len(recent) :
                    /\ recent[i] \in found
                    /\ \A w \in found : Len(messages[w]) <= Len(messages[recent[i]])}
<1>1. PICK n \in Nat : n = Len(recent)
  BY LenProperties DEF TypeOK
<1>2. Best(request) = LET place == IF I # {} THEN Min(I) ELSE 0
                      IN  IF place = 0 THEN None ELSE recent[place]
  BY DEF Best, SelectInSeq
<1>3. I \subseteq Nat
  BY <1>1
<1>4. I # {} => Min(I) \in I
  <2> HIDE DEF I
  <2> QED
    BY <1>3, LeastExists
<1>5. I # {}
  <2> HIDE DEF I
  <2> QED
    BY <1>2
<1>6. Best(request) = recent[Min(I)]
  <2>1. Min(I) # 0
    BY <1>1, <1>4, <1>5
  <2> HIDE DEF I
  <2> QED
    BY <1>2, <1>5, <2>1
<1> QED
  BY <1>4, <1>5, <1>6

\* Whatever a call finds is a conversation that exists, as it is at that moment,
\* and for a client with the whole history the beginning of its request.
ResolvedAt(c, request, x) ==
    LET v == x.conversation
    IN  /\ x \in Context
        /\ x.matched <= Len(request)
        /\ c \notin Bound => x.matched = x.existing
        /\ x # NoContext =>
             /\ v \in Made /\ x.existing = Len(messages[v])
             /\ c \notin Bound => Transcript(v) = SubSeq(request, 1, x.existing)

LEMMA FoundFacts ==
    ASSUME TypeOK, NEW v \in Made, NEW matched \in Nat
    PROVE  /\ v \in Conversation /\ v # None
           /\ Found(v, matched) \in Context
           /\ Found(v, matched).conversation = v
           /\ Found(v, matched).existing = Len(messages[v])
           /\ Found(v, matched).matched = matched
<1>1. v \in Conversation
  BY MadeType
<1>2. Len(messages[v]) \in Nat
  BY <1>1, LenProperties DEF TypeOK
<1> QED
  BY <1>1, <1>2, TurnConstants DEF Found, Context, TurnConstants

LEMMA MatchedFacts ==
    ASSUME TypeOK, NEW c, NEW request \in Seq(Said), NEW v \in Made, Matches(v, request)
    PROVE  ResolvedAt(c, request, Found(v, Len(messages[v])))
<1>1. v \in Conversation
  BY MadeType
<1>2. messages[v] \in Seq(Message) /\ Len(messages[v]) \in Nat
  BY <1>1, LenProperties DEF TypeOK
<1> QED
  BY <1>1, <1>2, PrefixFacts, FoundFacts DEF ResolvedAt

LEMMA ResolvedFacts ==
    ASSUME TypeOK, BindingsMade, NEW c \in Client, NEW request \in Seq(Said), NEW hint,
           NEW x \in Resolved(c, request, hint)
    PROVE  ResolvedAt(c, request, x)
<1> DEFINE bound == IF c \in Bound THEN binding[c] ELSE None
           best == Best(request)
<1>1. PICK n \in Nat : n = Len(request)
  BY LenProperties
<1>2. CASE bound # None
  <2>1. c \in Bound /\ x = Found(binding[c], 0) /\ binding[c] \in Made
    BY <1>2 DEF Resolved, BindingsMade
  <2> QED
    BY <1>1, <2>1, FoundFacts DEF ResolvedAt
<1>3. CASE bound = None /\ hint # None
  <2>1. hint \in Made /\ Matches(hint, request) /\ x = Found(hint, Len(messages[hint]))
    BY <1>3 DEF Resolved
  <2> QED
    BY <2>1, MatchedFacts
<1>4. CASE bound = None /\ hint = None /\ best # None
  <2>1. x = Found(best, Len(messages[best]))
    BY <1>4 DEF Resolved
  <2>2. best \in Made /\ Matches(best, request)
    BY <1>4, BestFacts DEF Matching
  <2> QED
    BY <2>1, <2>2, MatchedFacts
<1>5. CASE bound = None /\ hint = None /\ best = None
  <2>1. x = NoContext
    BY <1>5 DEF Resolved
  <2> QED
    BY <1>1, <2>1 DEF ResolvedAt, NoContext, Context
<1> QED
  BY <1>2, <1>3, <1>4, <1>5

\* A dictation is appended to what is there.
LEMMA AppendTargetFacts ==
    ASSUME TypeOK, NEW hint, NEW x \in AppendTarget(hint)
    PROVE  /\ x \in Context /\ x.matched = 0
           /\ x # NoContext => /\ x.conversation \in Made
                               /\ x.existing = Len(messages[x.conversation])
<1>1. CASE x = NoContext
  BY <1>1 DEF NoContext, Context
<1>2. CASE x # NoContext
  <2>1. hint \in Made /\ x = Found(hint, 0)
    BY <1>2 DEF AppendTarget
  <2> QED
    BY <2>1, FoundFacts
<1> QED
  BY <1>1, <1>2


-----------------------------------------------------------------------------
(* What a step leaves alone. *)

\* Conversations stay, and lose no message.
Grows ==
    /\ Made \subseteq Made'
    /\ \A v \in Made : /\ Len(messages'[v]) \in Nat
                       /\ Len(messages[v]) <= Len(messages'[v])
                       /\ Len(messages[v]) = Len(messages'[v]) => messages'[v] = messages[v]

LEMMA TranscriptStays ==
    ASSUME NEW v, messages'[v] = messages[v]
    PROVE  Transcript(v)' = Transcript(v)
BY DEF Transcript

\* What a call has read stays true while others write.
LEMMA TurnStays ==
    ASSUME TypeOK, Grows, NEW t \in Turn, TurnAt(t), turn'[t] = turn[t]
    PROVE  TurnAt(t)'
<1>1. SUFFICES ASSUME turn[t].pc = "commit", turn[t].context # NoContext
               PROVE  ViewAt(t)'
  BY DEF TurnAt, ViewAt
<1>2. PICK r : r = turn[t] /\ r = turn'[t]
  OBVIOUS
<1>3. PICK v : v = r.context.conversation
  OBVIOUS
<1>4. v \in Made /\ ViewAt(t)
  BY <1>1, <1>2, <1>3 DEF TurnAt, ViewAt
<1>5. v \in Conversation /\ v \in Made'
  BY <1>4, MadeType DEF Grows
<1>6. r.context.existing \in Nat
  BY <1>2 DEF TypeOK, TurnState, Context
<1>7. PICK n, m, e \in Nat : n = Len(messages[v]) /\ m = Len(messages'[v]) /\ e = r.context.existing
  BY <1>4, <1>5, <1>6, LenProperties DEF Grows, TypeOK
<1>8. e <= n /\ n <= m /\ (n = m => messages'[v] = messages[v])
  BY <1>1, <1>2, <1>3, <1>4, <1>7 DEF ViewAt, Grows
<1>9. n = m => Transcript(v)' = Transcript(v)
  BY <1>7, <1>8, TranscriptStays
<1>10. e <= m /\ (e = m => n = m /\ e = n)
  BY <1>8
<1> QED
  BY <1>1, <1>2, <1>3, <1>4, <1>5, <1>7, <1>9, <1>10 DEF ViewAt

\* A call that is idle, or has not read for its transaction yet.
LEMMA TurnMoves ==
    ASSUME NEW t \in Turn,
           \/ turn'[t].pc = "idle"
           \/ /\ turn'[t].pc \in {"prepare", "run", "failed"}
              /\ turn'[t].client \in Client /\ turn'[t].request # <<>>
    PROVE  TurnAt(t)'
BY DEF TurnAt

\* Steps that store nothing.
LEMMA StorageStays ==
    ASSUME Inv, UNCHANGED Storage, TypeOK', NEW t \in Turn, TurnAt(t)',
           \A u \in Turn \ {t} : turn'[u] = turn[u]
    PROVE  Inv'
<1>1. Made' = Made /\ Grows
  <2>1. \A v \in Conversation : Len(messages[v]) \in Nat
    BY LenProperties DEF Inv, TypeOK
  <2>2. Made \subseteq Conversation
    BY MadeType DEF Inv
  <2> QED
    BY <2>1, <2>2 DEF Grows, Storage, Made
<1>2. \A u \in Turn : TurnAt(u)'
  BY <1>1, TurnStays DEF Inv
<1>3. SequentialIndices' /\ BindingsMade' /\ UnmadeBlank'
  BY <1>1 DEF Inv, SequentialIndices, BindingsMade, UnmadeBlank, Storage
<1> QED
  BY <1>2, <1>3 DEF Inv


-----------------------------------------------------------------------------
(* Every action preserves the invariant. *)

LEMMA InitInv == Init => Inv
<1> SUFFICES ASSUME Init PROVE Inv
  OBVIOUS
<1>1. ToSet(<<>>) = {} /\ IsInjective(<<>>)
  BY DEF ToSet, IsInjective
<1>2. <<>> \in Seq(Conversation) /\ <<>> \in Seq(Message) /\ <<>> \in Seq(Said)
  OBVIOUS
<1>3. Idle \in TurnState
  BY <1>2 DEF Idle, TurnState, Kind, NoContext, Context
<1>4. TypeOK
  BY <1>1, <1>2, <1>3 DEF TypeOK, Init
<1>5. SequentialIndices
  BY DEF Init, SequentialIndices
<1> QED
  BY <1>4, <1>5 DEF Inv, Init, BindingsMade, UnmadeBlank, TurnAt, Idle

LEMMA TurnType ==
    ASSUME TypeOK, NEW t \in Turn
    PROVE  turn[t] \in TurnState /\ turn[t].request \in Seq(Said)
           /\ turn[t].context \in Context /\ turn[t].answered \in BOOLEAN
           /\ turn[t].hint \in Conversation \cup {None}
BY DEF TypeOK, TurnState

LEMMA SeqOfSaid ==
    ASSUME NEW s \in Seq(Said), NEW m \in Said
    PROVE  Append(s, m) \in Seq(Said) /\ Append(s, m) # <<>>
BY AppendProperties

LEMMA ScreensType ==
    ASSUME TypeOK, NEW t \in Turn, Streamed(t) \/ UNCHANGED Screens
    PROVE  /\ screen' \in [Client -> Seq(Said)]
           /\ header' \in [Client -> Conversation \cup {None}]
<1>1. Append(turn[t].request, Assistant) \in Seq(Said)
  BY TurnType, SeqOfSaid DEF Said
<1> QED
  BY <1>1, TurnType DEF TypeOK, Streamed, Screens

LEMMA BeginInv ==
    ASSUME Inv, NEW t \in Turn, NEW c \in Client, NEW w \in Text, NEW kind \in Kind,
           Begin(t, c, w, kind)
    PROVE  Inv'
<1> DEFINE request == IF c \in Bound THEN <<User(w)>> ELSE Append(screen[c], User(w))
<1>1. request \in Seq(Said) /\ request # <<>>
  <2>1. User(w) \in Said
    BY DEF User, Said
  <2>2. screen[c] \in Seq(Said)
    BY DEF Inv, TypeOK
  <2>3. <<User(w)>> \in Seq(Said) /\ <<User(w)>> # <<>>
    BY <2>1
  <2> QED
    BY <2>1, <2>2, <2>3, SeqOfSaid
<1> HIDE DEF request
<1> DEFINE begun(hint, x, pc) == [Idle EXCEPT !.client = c, !.kind = kind, !.request = request,
                                              !.hint = hint, !.context = x, !.pc = pc]
<1>2. PICK hint \in {None, header[c]} :
        \E x \in Resolved(c, request, hint) \cup {NoContext}, pc \in {"prepare", "run"} :
          turn' = [turn EXCEPT ![t] = begun(hint, x, pc)]
  <2> DEFINE prepared(hint) == kind = "pinned" \/ c \in Bound \/ (kind = "plain" /\ hint # None)
  <2>1. PICK hint \in {None, header[c]} :
          \E x \in IF prepared(hint) THEN Resolved(c, request, hint) ELSE {NoContext} :
            turn' = [turn EXCEPT ![t] =
              begun(hint, x, IF prepared(hint) THEN "prepare" ELSE "run")]
    BY DEF Begin, request
  <2> HIDE DEF prepared, begun
  <2>2. CASE prepared(hint)
    <3>1. PICK x \in Resolved(c, request, hint) :
            turn' = [turn EXCEPT ![t] = begun(hint, x, "prepare")]
      BY <2>1, <2>2
    <3> QED
      BY <3>1
  <2>3. CASE ~prepared(hint)
    <3>1. turn' = [turn EXCEPT ![t] = begun(hint, NoContext, "run")]
      BY <2>1, <2>3
    <3> QED
      BY <3>1
  <2> QED
    BY <2>2, <2>3
<1>3. PICK x \in Resolved(c, request, hint) \cup {NoContext}, pc \in {"prepare", "run"} :
         turn' = [turn EXCEPT ![t] = begun(hint, x, pc)]
  BY <1>2
<1>4. UNCHANGED <<Storage, Screens>>
  BY DEF Begin
<1>5. x \in Context
  <2>1. x \in Resolved(c, request, hint) => x \in Context
    BY <1>1, ResolvedFacts DEF Inv, ResolvedAt
  <2>2. NoContext \in Context
    BY DEF NoContext, Context
  <2> QED
    BY <1>3, <2>1, <2>2
<1>6. hint \in Conversation \cup {None}
  BY <1>3 DEF Inv, TypeOK
<1>7. begun(hint, x, pc) \in TurnState
  BY <1>1, <1>5, <1>6 DEF Idle, TurnState
<1>8. TypeOK'
  BY <1>3, <1>4, <1>7 DEF Inv, TypeOK, Storage, Screens
<1>9. turn'[t].pc = pc /\ turn'[t].client = c /\ turn'[t].request = request
  BY <1>3 DEF Idle, Inv, TypeOK
<1>10. TurnAt(t)'
  BY <1>1, <1>3, <1>9, TurnMoves
<1>11. \A u \in Turn \ {t} : turn'[u] = turn[u]
  BY <1>3 DEF Inv, TypeOK
<1> QED
  BY <1>4, <1>8, <1>10, <1>11, StorageStays

LEMMA NewChatInv ==
    ASSUME Inv, NEW c \in Client, NewChat(c)
    PROVE  Inv'
<1>1. TypeOK'
  <2>1. <<>> \in Seq(Said)
    OBVIOUS
  <2> QED
    BY <2>1 DEF Inv, TypeOK, NewChat, Storage
<1>2. \A t \in Turn : TurnAt(t)'
  <2>1. Made' = Made /\ Grows
    <3>1. \A v \in Conversation : Len(messages[v]) \in Nat
      BY LenProperties DEF Inv, TypeOK
    <3> QED
      BY <3>1, MadeType DEF Inv, Grows, NewChat, Storage, Made
  <2> QED
    BY <2>1, TurnStays DEF Inv, NewChat
<1>3. SequentialIndices' /\ BindingsMade' /\ UnmadeBlank'
  BY DEF Inv, SequentialIndices, BindingsMade, UnmadeBlank, Storage, NewChat, Made
<1> QED
  BY <1>1, <1>2, <1>3 DEF Inv

LEMMA NotStoredInv ==
    ASSUME Inv, NEW t \in Turn, NEW answered, turn[t].pc # "idle", NotStored(t, answered),
           UNCHANGED Storage
    PROVE  Inv'
<1>1. Streamed(t) \/ UNCHANGED Screens
  BY DEF NotStored, Refused
<1>2. PICK r \in TurnState :
        /\ turn' = [turn EXCEPT ![t] = r]
        /\ r.pc = "idle" \/ /\ r.pc = "failed" /\ r.client = turn[t].client
                            /\ r.request = turn[t].request
  <2>1. CASE turn' = [turn EXCEPT ![t] = Idle]
    <3>1. Idle \in TurnState /\ Idle.pc = "idle"
      <4>1. <<>> \in Seq(Said)
        OBVIOUS
      <4> QED
        BY <4>1 DEF Idle, TurnState, Kind, NoContext, Context
    <3> QED
      BY <2>1, <3>1
  <2>2. CASE turn' = [turn EXCEPT ![t].pc = "failed", ![t].answered = FALSE,
                                  ![t].context = NoContext]
    <3> DEFINE r == [turn[t] EXCEPT !.pc = "failed", !.answered = FALSE, !.context = NoContext]
    <3>1. NoContext \in Context
      BY DEF NoContext, Context
    <3>2. r \in TurnState /\ r.pc = "failed" /\ r.client = turn[t].client
          /\ r.request = turn[t].request
      BY <3>1, TurnType DEF Inv, TurnState
    <3>3. turn' = [turn EXCEPT ![t] = r]
      BY <2>2 DEF Inv, TypeOK
    <3> QED
      BY <3>2, <3>3
  <2> QED
    BY <2>1, <2>2 DEF NotStored, Refused
<1>3. turn'[t] = r /\ \A u \in Turn \ {t} : turn'[u] = turn[u]
  BY <1>2 DEF Inv, TypeOK
<1>4. TypeOK'
  BY <1>1, <1>2, ScreensType DEF Inv, TypeOK, Storage
<1>5. TurnAt(t)'
  BY <1>2, <1>3, TurnMoves DEF Inv, TurnAt
<1> QED
  BY <1>3, <1>4, <1>5, StorageStays


\* Where a client's turns go.
LEMMA BindingFacts ==
    ASSUME TypeOK, BindingsMade, NEW c \in Client, NEW v \in Conversation
    PROVE  /\ Bindings(c, v) \in [Client -> Conversation \cup {None}]
           /\ Into(c, v) \in Made \cup {v}
           /\ c \notin Bound => Into(c, v) = v
           /\ \A b \in Client : \/ Bindings(c, v)[b] = binding[b]
                                \/ /\ binding[b] = None
                                   /\ Bindings(c, v)[b] = v /\ Into(c, v) = v
BY DEF TypeOK, BindingsMade, Bindings, Into, Rebound

\* What a transaction does that writes to v by the view x of it.
Written(t, v, x) ==
    /\ recent' \in Seq(Conversation) /\ IsInjective(recent') /\ Made' = Made \cup {v}
    /\ messages' \in [Conversation -> Seq(Message)]
    /\ \A u \in Conversation \ {v} : messages'[u] = messages[u]
    /\ Len(messages[v]) <= Len(messages'[v])
    /\ Len(messages[v]) = Len(messages'[v]) => messages'[v] = messages[v]
    /\ mixed \subseteq mixed' /\ mixed' \subseteq Conversation
    /\ v \notin mixed' =>
         /\ Sequential(messages'[v])
         /\ turn[t].kind # "dictation" /\ Transcript(v) = SubSeq(turn[t].request, 1, x.existing) =>
              Transcript(v)' = IF turn[t].answered THEN Append(turn[t].request, Assistant)
                               ELSE turn[t].request
    /\ screen' \in [Client -> Seq(Said)] /\ header' \in [Client -> Conversation \cup {None}]
    /\ turn' = [turn EXCEPT ![t] = Idle]

LEMMA WriteFacts ==
    ASSUME TypeOK, SequentialIndices, NEW t \in Turn, turn[t].request # <<>>,
           NEW v \in Conversation, NEW x \in Context, x.matched <= Len(turn[t].request),
           turn[t].client \notin Bound /\ turn[t].kind # "dictation" => x.matched = x.existing,
           Write(t, v, x)
    PROVE  Written(t, v, x)
<1> DEFINE list == messages[v]
           request == turn[t].request
           rows == IF turn[t].kind = "dictation"
                   THEN <<At(request[Len(request)], x.existing)>>
                   ELSE Stored(request, x, turn[t].answered)
<1>1. /\ messages' = [messages EXCEPT ![v] = @ \o rows]
      /\ recent' = Touched(recent, v)
      /\ mixed' = IF turn[t].client \in Bound \/ x.existing # Len(list)
                  THEN mixed \cup {v} ELSE mixed
      /\ Shown(t, v)
  BY DEF Write
<1>2. /\ request \in Seq(Said) /\ turn[t].answered \in BOOLEAN /\ list \in Seq(Message)
      /\ x.matched \in Nat /\ x.existing \in Nat
  BY TurnType DEF TypeOK, Context
<1>3. PICK n, q \in Nat : n = Len(list) /\ q = Len(request) /\ q > 0
  BY <1>2, LenProperties, EmptySeq
<1>4. turn[t].kind = "dictation" =>
        /\ rows \in Seq(Message) /\ Len(rows) = 1 /\ rows[1].index = x.existing
  <2>1. request[q] \in Said
    BY <1>2, <1>3, ElementOfSeq
  <2>2. At(request[q], x.existing) \in Message /\ At(request[q], x.existing).index = x.existing
    BY <1>2, <2>1 DEF Said, Message, At, Assistant
  <2> QED
    BY <1>3, <2>2
<1>5. turn[t].kind # "dictation" => rows \in Seq(Message)
  BY <1>2, StoredFacts
<1>6. rows \in Seq(Message)
  BY <1>4, <1>5
<1> DEFINE new == list \o rows
<1>7. messages'[v] = new /\ \A u \in Conversation \ {v} : messages'[u] = messages[u]
  BY <1>1 DEF TypeOK
<1>8. PICK d \in Nat : d = Len(rows)
  BY <1>6, LenProperties
<1>9. new \in Seq(Message) /\ Len(new) = n + d
  BY <1>2, <1>3, <1>6, <1>8, ConcatProperties
<1>10. d = 0 => new = list
  <2>1. d = 0 => rows = <<>>
    BY <1>6, <1>8, EmptySeq
  <2> QED
    BY <1>2, <2>1, ConcatEmptySeq
<1>11. messages' \in [Conversation -> Seq(Message)]
  BY <1>1, <1>9 DEF TypeOK
<1>12. Len(messages[v]) <= Len(messages'[v])
       /\ (Len(messages[v]) = Len(messages'[v]) => messages'[v] = messages[v])
  <2>1. Len(messages[v]) = n /\ Len(messages'[v]) = n + d
    BY <1>3, <1>7, <1>9
  <2>2. n <= n + d /\ (n = n + d => d = 0)
    OBVIOUS
  <2> QED
    BY <1>7, <1>10, <2>1, <2>2
<1>13. ASSUME v \notin mixed'
       PROVE  /\ Sequential(messages'[v])
              /\ turn[t].kind # "dictation" /\ Transcript(v) = SubSeq(request, 1, x.existing) =>
                   Transcript(v)' = IF turn[t].answered THEN Append(request, Assistant)
                                    ELSE request
  <2>1. v \notin mixed /\ turn[t].client \notin Bound /\ x.existing = n
    BY <1>1, <1>3, <1>13
  <2>2. Sequential(list)
    BY <2>1 DEF SequentialIndices, Sequential
  <2>3. CASE turn[t].kind = "dictation"
    <3>1. \A i \in 1..Len(rows) : rows[i].index = Len(list) + i - 1
      BY <1>3, <1>4, <2>1, <2>3
    <3>2. Sequential(new)
      BY <1>2, <1>6, <2>2, <3>1, ExtendedBy
    <3> QED
      BY <1>7, <2>3, <3>2
  <2>4. CASE turn[t].kind # "dictation"
    <3>1. x.matched = x.existing /\ x.existing = Len(list) /\ Len(list) <= Len(request)
      BY <1>3, <2>1, <2>4
    <3>2. rows = Stored(request, x, turn[t].answered)
      BY <2>4
    <3> HIDE DEF rows, list, request
    <3>3. PICK answered \in BOOLEAN : answered = turn[t].answered
      BY <1>2
    <3>5. /\ Sequential(list \o Stored(request, x, answered))
          /\ Ordered(list) = SubSeq(request, 1, Len(list)) =>
               Ordered(list \o Stored(request, x, answered)) =
                 IF answered THEN Append(request, Assistant) ELSE request
      BY <1>2, <2>2, <3>1, TurnExtends
    <3>4. Transcript(v) = Ordered(list) /\ Transcript(v)' = Ordered(new)
      BY <1>7 DEF Transcript, list
    <3> QED
      BY <1>7, <3>1, <3>2, <3>3, <3>4, <3>5
  <2> QED
    BY <2>3, <2>4
<1>14. recent' \in Seq(Conversation) /\ IsInjective(recent') /\ Made' = Made \cup {v}
  BY <1>1, TouchedFacts DEF TypeOK, Made
<1>15. screen' \in [Client -> Seq(Said)] /\ header' \in [Client -> Conversation \cup {None}]
  <2>1. CASE Streamed(t) \/ UNCHANGED Screens
    BY <2>1, ScreensType
  <2>2. CASE ~Streamed(t) /\ ~UNCHANGED Screens
    <3> DEFINE said == IF turn[t].answered THEN Append(request, Assistant) ELSE request
    <3>1. said \in Seq(Said)
      BY <1>2, SeqOfSaid DEF Said
    <3>2. /\ screen' = [screen EXCEPT ![turn[t].client] = said]
          /\ header' = header \/ header' = [header EXCEPT ![turn[t].client] = v]
      BY <1>1, <2>2 DEF Shown
    <3> QED
      BY <3>1, <3>2 DEF TypeOK
  <2> QED
    BY <2>1, <2>2
<1>16. turn' = [turn EXCEPT ![t] = Idle]
  BY <1>1 DEF Shown
<1>17. mixed \subseteq mixed' /\ mixed' \subseteq Conversation
  BY <1>1 DEF TypeOK
<1> QED
  BY <1>7, <1>11, <1>12, <1>13, <1>14, <1>15, <1>16, <1>17 DEF Written


LEMMA LookInv ==
    ASSUME Inv, NEW t \in Turn, Look(t)
    PROVE  Inv'
<1> DEFINE r == turn[t]
           found == IF r.kind = "dictation" THEN AppendTarget(r.hint)
                    ELSE Resolved(r.client, r.request, r.hint)
<1>1. r.pc # "idle" /\ UNCHANGED Storage
  BY DEF Look
<1>2. PICK ok \in BOOLEAN :
        \/ NotStored(t, ok)
        \/ /\ \E x \in found : turn' = [turn EXCEPT ![t].pc = "commit", ![t].answered = ok,
                                                    ![t].context = x]
           /\ UNCHANGED Screens
  BY DEF Look
<1>3. CASE NotStored(t, ok)
  BY <1>1, <1>3, NotStoredInv
<1>4. ASSUME UNCHANGED Screens, NEW x \in found,
             turn' = [turn EXCEPT ![t].pc = "commit", ![t].answered = ok, ![t].context = x]
      PROVE  Inv'
  <2>1. r.client \in Client /\ r.request \in Seq(Said) /\ r.request # <<>>
    BY <1>1, TurnType DEF Inv, TurnAt
  <2>2. /\ x \in Context /\ x.matched <= Len(r.request)
        /\ r.client \notin Bound /\ r.kind # "dictation" => x.matched = x.existing
        /\ x # NoContext =>
             /\ x.conversation \in Made /\ x.existing = Len(messages[x.conversation])
             /\ r.client \notin Bound /\ r.kind # "dictation" =>
                  Transcript(x.conversation) = SubSeq(r.request, 1, x.existing)
    <3>1. CASE r.kind = "dictation"
      <4>1. 0 <= Len(r.request)
        BY <2>1, LenProperties
      <4> QED
        BY <1>4, <3>1, <4>1, AppendTargetFacts DEF Inv
    <3>2. CASE r.kind # "dictation"
      <4>1. ResolvedAt(r.client, r.request, x)
        BY <1>4, <2>1, <3>2, ResolvedFacts DEF Inv
      <4> QED
        BY <3>2, <4>1 DEF ResolvedAt
    <3> QED
      BY <3>1, <3>2
  <2> DEFINE new == [r EXCEPT !.pc = "commit", !.answered = ok, !.context = x]
  <2>3. /\ new \in TurnState /\ new.pc = "commit" /\ new.client = r.client
        /\ new.kind = r.kind /\ new.request = r.request /\ new.context = x
    BY <2>2, TurnType DEF Inv, TurnState
  <2>4. turn' = [turn EXCEPT ![t] = new]
    BY <1>4 DEF Inv, TypeOK
  <2> HIDE DEF new
  <2>5. turn'[t] = new /\ \A u \in Turn \ {t} : turn'[u] = turn[u]
    BY <2>4 DEF Inv, TypeOK
  <2>6. TypeOK'
    BY <1>1, <1>4, <2>3, <2>4 DEF Inv, TypeOK, Storage, Screens
  <2>7. TurnAt(t)'
    <3>1. PICK y, q, c, k : y = x /\ q = r.request /\ c = r.client /\ k = r.kind
      OBVIOUS
    <3>2. ASSUME y # NoContext
          PROVE  /\ y.conversation \in Made'
                 /\ y.existing <= Len(messages'[y.conversation])
                 /\ c \notin Bound /\ k # "dictation" =>
                      Transcript(y.conversation)' = SubSeq(q, 1, y.existing)
      <4>1. messages' = messages /\ Made' = Made
        BY <1>1 DEF Storage, Made
      <4>2. y.existing \in Nat
        BY <2>2, <3>1 DEF Context
      <4>3. PICK n \in Nat : n = y.existing
        BY <4>2
      <4>4. n <= Len(messages[y.conversation])
        BY <2>2, <3>1, <3>2, <4>3
      <4>5. Transcript(y.conversation)' = Transcript(y.conversation)
        BY <4>1, TranscriptStays
      <4> QED
        BY <2>2, <3>1, <3>2, <4>1, <4>3, <4>4, <4>5
    <3>3. /\ turn'[t].context = y /\ turn'[t].request = q /\ turn'[t].client = c
          /\ turn'[t].kind = k /\ turn'[t].pc = "commit"
      BY <2>3, <2>5, <3>1
    <3>4. ViewAt(t)'
      BY <2>2, <3>1, <3>2, <3>3 DEF ViewAt
    <3> QED
      BY <2>1, <3>1, <3>3, <3>4 DEF TurnAt
  <2> QED
    BY <1>1, <2>5, <2>6, <2>7, StorageStays
<1> QED
  BY <1>2, <1>3, <1>4


LEMMA PrepareInv ==
    ASSUME Inv, NEW t \in Turn, Prepare(t)
    PROVE  Inv'
<1> DEFINE c == turn[t].client
           x == turn[t].context
           ready(v) == [turn[t] EXCEPT !.pc = "run", !.context = NoContext,
                          !.hint = IF turn[t].kind = "plain" THEN @ ELSE v]
<1>1. turn[t].pc # "idle" /\ c \in Client /\ turn[t].request # <<>>
  BY DEF Prepare, Inv, TurnAt
<1>2. ASSUME NEW v \in Conversation \cup {None}, turn' = [turn EXCEPT ![t] = ready(v)]
      PROVE  /\ turn' \in [Turn -> TurnState] /\ TurnAt(t)'
             /\ \A u \in Turn \ {t} : turn'[u] = turn[u]
  <2>1. NoContext \in Context
    BY DEF NoContext, Context
  <2>2. /\ ready(v) \in TurnState /\ ready(v).pc = "run" /\ ready(v).client = c
        /\ ready(v).request = turn[t].request
    BY <2>1, TurnType DEF Inv, TurnState
  <2> HIDE DEF ready
  <2>3. turn'[t] = ready(v) /\ \A u \in Turn \ {t} : turn'[u] = turn[u]
    BY <1>2 DEF Inv, TypeOK
  <2>4. TurnAt(t)'
    BY <1>1, <2>2, <2>3, TurnMoves
  <2> QED
    BY <1>2, <2>2, <2>3, <2>4 DEF Inv, TypeOK
<1>3. ASSUME NEW v, turn' = [turn EXCEPT ![t].pc = "run", ![t].context = NoContext,
                       ![t].hint = IF turn[t].kind = "plain" THEN @ ELSE v]
      PROVE  turn' = [turn EXCEPT ![t] = ready(v)]
  BY <1>3 DEF Inv, TypeOK
<1>4. CASE Refused(t) /\ UNCHANGED Storage
  <2>1. NotStored(t, FALSE)
    BY <1>4 DEF NotStored
  <2> QED
    BY <1>1, <1>4, <2>1, NotStoredInv
<1>5. CASE /\ turn' = [turn EXCEPT ![t].pc = "run", ![t].context = NoContext,
                 ![t].hint = IF turn[t].kind = "plain" THEN @ ELSE x.conversation]
           /\ UNCHANGED <<Storage, Screens>>
  <2>1. x.conversation \in Conversation \cup {None}
    BY TurnType DEF Inv, Context
  <2>2. /\ turn' \in [Turn -> TurnState] /\ TurnAt(t)'
        /\ \A u \in Turn \ {t} : turn'[u] = turn[u]
    BY <1>2, <1>3, <1>5, <2>1
  <2>3. TypeOK'
    BY <1>5, <2>2 DEF Inv, TypeOK, Storage, Screens
  <2> QED
    BY <1>5, <2>2, <2>3, StorageStays
<1>6. ASSUME NEW v \in Conversation \ Made,
             binding' = Bindings(c, v),
             recent' = IF Into(c, v) = v THEN <<v>> \o recent ELSE recent,
             turn' = [turn EXCEPT ![t].pc = "run", ![t].context = NoContext,
                        ![t].hint = IF turn[t].kind = "plain" THEN @ ELSE Into(c, v)],
             UNCHANGED <<messages, mixed, Screens>>
      PROVE  Inv'
  <2>1. /\ Bindings(c, v) \in [Client -> Conversation \cup {None}]
        /\ Into(c, v) \in Made \cup {v}
        /\ \A b \in Client : \/ Bindings(c, v)[b] = binding[b]
                             \/ Bindings(c, v)[b] = v /\ Into(c, v) = v
    BY <1>1, BindingFacts DEF Inv
  <2>2. Into(c, v) \in Conversation
    BY <2>1, MadeType DEF Inv
  <2>3. Touched(recent, v) = <<v>> \o recent
    <3>1. ASSUME NEW i \in 1..Len(recent) PROVE recent[i] # v
      <4>1. recent \in Seq(Conversation)
        BY DEF Inv, TypeOK
      <4>2. recent[i] \in Made
        BY <4>1, InSeq DEF Made
      <4> QED
        BY <4>2
    <3> QED
      BY <3>1 DEF Touched, RemoveFirst
  <2>4. /\ recent' \in Seq(Conversation) /\ IsInjective(recent')
        /\ Made \subseteq Made' /\ (Into(c, v) = v => v \in Made')
    BY <1>6, <2>3, TouchedFacts DEF Inv, TypeOK, Made
  <2>5. /\ turn' \in [Turn -> TurnState] /\ TurnAt(t)'
        /\ \A u \in Turn \ {t} : turn'[u] = turn[u]
    BY <1>2, <1>3, <1>6, <2>2
  <2>6. TypeOK'
    BY <1>6, <2>1, <2>4, <2>5 DEF Inv, TypeOK, Screens
  <2>7. Grows
    <3>1. \A u \in Conversation : Len(messages[u]) \in Nat
      BY LenProperties DEF Inv, TypeOK
    <3> QED
      BY <1>6, <2>4, <3>1, MadeType DEF Inv, Grows
  <2>8. \A u \in Turn : TurnAt(u)'
    BY <2>5, <2>7, TurnStays DEF Inv
  <2>9. BindingsMade'
    BY <1>6, <2>1, <2>4 DEF Inv, BindingsMade
  <2>10. SequentialIndices' /\ UnmadeBlank'
    BY <1>6, <2>4 DEF Inv, SequentialIndices, UnmadeBlank
  <2> QED
    BY <2>6, <2>8, <2>9, <2>10 DEF Inv
<1> QED
  BY <1>4, <1>5, <1>6 DEF Prepare

\* What a transaction that commits has written, and where.
LEMMA CommitWrites ==
    ASSUME Inv, NEW t \in Turn, Commit(t)
    PROVE  \/ NotStored(t, turn[t].answered) /\ UNCHANGED Storage
           \/ \E v \in Conversation, x \in Context :
                /\ Written(t, v, x)
                /\ binding' \in [Client -> Conversation \cup {None}]
                /\ \A b \in Client : \/ binding'[b] = binding[b]
                                     \/ binding[b] = None /\ binding'[b] = v
                /\ v \notin mixed' /\ turn[t].kind # "dictation" =>
                     Transcript(v) = SubSeq(turn[t].request, 1, x.existing)
<1> DEFINE c == turn[t].client
           x == turn[t].context
           request == turn[t].request
<1>1. /\ turn[t].pc = "commit" /\ c \in Client /\ request # <<>> /\ ViewAt(t)
      /\ x \in Context /\ request \in Seq(Said) /\ TypeOK /\ BindingsMade
  BY TurnType DEF Commit, Inv, TurnAt
<1>2. CASE x # NoContext /\ Write(t, x.conversation, x) /\ UNCHANGED binding
  <2>1. PICK v \in Conversation : v = x.conversation /\ v \in Made
    BY <1>1, <1>2, MadeType DEF ViewAt
  <2>2. Written(t, v, x)
    BY <1>1, <1>2, <2>1, WriteFacts DEF ViewAt, Inv
  <2>3. v \notin mixed' /\ turn[t].kind # "dictation" =>
          Transcript(v) = SubSeq(request, 1, x.existing)
    BY <1>1, <1>2, <2>1 DEF ViewAt, Write
  <2> QED
    BY <1>1, <1>2, <2>1, <2>2, <2>3 DEF TypeOK
<1>3. ASSUME x = NoContext, NEW v \in Conversation \ Made, binding' = Bindings(c, v),
             Write(t, Into(c, v), IF Into(c, v) = v THEN x ELSE Found(Into(c, v), 0))
      PROVE  \E u \in Conversation, y \in Context :
                /\ Written(t, u, y)
                /\ binding' \in [Client -> Conversation \cup {None}]
                /\ \A b \in Client : \/ binding'[b] = binding[b]
                                     \/ binding[b] = None /\ binding'[b] = u
                /\ u \notin mixed' /\ turn[t].kind # "dictation" =>
                     Transcript(u) = SubSeq(request, 1, y.existing)
  <2>1. /\ binding' \in [Client -> Conversation \cup {None}]
        /\ Into(c, v) \in Made \cup {v}
        /\ c \notin Bound => Into(c, v) = v
        /\ \A b \in Client : \/ binding'[b] = binding[b]
                             \/ binding[b] = None /\ binding'[b] = v /\ Into(c, v) = v
    BY <1>1, <1>3, BindingFacts
  <2>2. 0 <= Len(request) /\ x.matched = 0 /\ x.existing = 0
    BY <1>1, <1>3, LenProperties DEF NoContext
  <2>3. CASE Into(c, v) = v
    <3>1. Written(t, v, x)
      BY <1>1, <1>3, <2>2, <2>3, WriteFacts DEF Inv
    <3>2. Transcript(v) = SubSeq(request, 1, x.existing)
      <4>1. messages[v] = <<>>
        BY DEF Inv, UnmadeBlank
      <4>2. Transcript(v) = <<>>
        BY <4>1 DEF Transcript, Ordered
      <4>3. SubSeq(request, 1, 0) = <<>>
        BY SubSeqEmpty
      <4> QED
        BY <2>2, <4>2, <4>3
    <3> QED
      BY <1>1, <2>1, <2>3, <3>1, <3>2
  <2>4. CASE Into(c, v) # v
    <3>1. PICK u \in Made : u = Into(c, v) /\ c \in Bound
      BY <2>1, <2>4
    <3>2. PICK y \in Context : y = Found(u, 0) /\ y.matched = 0 /\ u \in Conversation
      BY <1>1, FoundFacts
    <3>3. Write(t, u, y)
      BY <1>3, <2>4, <3>1, <3>2
    <3>4. Written(t, u, y)
      BY <1>1, <2>2, <3>1, <3>2, <3>3, WriteFacts DEF Inv
    <3>5. u \in mixed'
      BY <3>1, <3>3 DEF Write
    <3> QED
      BY <2>1, <2>4, <3>1, <3>2, <3>4, <3>5
  <2> QED
    BY <2>3, <2>4
<1> QED
  BY <1>2, <1>3, <1>1 DEF Commit

LEMMA CommitInv ==
    ASSUME Inv, NEW t \in Turn, Commit(t)
    PROVE  Inv'
<1>1. CASE NotStored(t, turn[t].answered) /\ UNCHANGED Storage
  <2>1. turn[t].pc # "idle"
    BY DEF Commit
  <2> QED
    BY <1>1, <2>1, NotStoredInv
<1>2. ASSUME NEW v \in Conversation, NEW x \in Context, Written(t, v, x),
             binding' \in [Client -> Conversation \cup {None}],
             \A b \in Client : binding'[b] = binding[b] \/ binding'[b] = v
      PROVE  Inv'
  <2>1. Idle \in TurnState /\ Idle.pc = "idle"
    <3>1. <<>> \in Seq(Said)
      OBVIOUS
    <3> QED
      BY <3>1 DEF Idle, TurnState, Kind, NoContext, Context
  <2>2. turn'[t].pc = "idle" /\ \A u \in Turn \ {t} : turn'[u] = turn[u]
    BY <1>2, <2>1 DEF Written, Inv, TypeOK
  <2>3. TypeOK'
    BY <1>2, <2>1 DEF Written, Inv, TypeOK
  <2>4. Grows
    <3>1. \A u \in Conversation : Len(messages[u]) \in Nat /\ Len(messages'[u]) \in Nat
      BY <2>3, LenProperties DEF Inv, TypeOK
    <3>2. ASSUME NEW u \in Made
          PROVE  /\ Len(messages'[u]) \in Nat
                 /\ Len(messages[u]) <= Len(messages'[u])
                 /\ Len(messages[u]) = Len(messages'[u]) => messages'[u] = messages[u]
      <4>1. u \in Conversation
        BY MadeType DEF Inv
      <4>2. CASE u = v
        BY <1>2, <3>1, <4>1, <4>2 DEF Written
      <4>3. CASE u # v
        <5>1. messages'[u] = messages[u]
          BY <1>2, <4>1, <4>3 DEF Written
        <5>2. PICK n \in Nat : n = Len(messages[u])
          BY <3>1, <4>1
        <5> QED
          BY <5>1, <5>2
      <4> QED
        BY <4>2, <4>3
    <3> QED
      BY <1>2, <3>2 DEF Grows, Written
  <2>5. \A u \in Turn : TurnAt(u)'
    BY <2>2, <2>4, TurnStays, TurnMoves DEF Inv
  <2>6. SequentialIndices'
    <3>1. ASSUME NEW u \in Conversation \ mixed'
          PROVE  \A i \in DOMAIN messages'[u] : messages'[u][i].index = i - 1
      BY <1>2, <3>1 DEF Written, Inv, SequentialIndices, Sequential
    <3> QED
      BY <3>1 DEF SequentialIndices
  <2>7. BindingsMade' /\ UnmadeBlank'
    BY <1>2 DEF Written, Inv, BindingsMade, UnmadeBlank
  <2> QED
    BY <2>3, <2>5, <2>6, <2>7 DEF Inv
<1> QED
  BY <1>1, <1>2, CommitWrites

LEMMA NextInv == Inv /\ [Next]_vars => Inv'
<1> SUFFICES ASSUME Inv, [Next]_vars PROVE Inv'
  OBVIOUS
<1>1. CASE UNCHANGED vars
  BY <1>1 DEF vars, Inv, TypeOK, SequentialIndices, BindingsMade, UnmadeBlank, TurnAt, ViewAt,
     Made, Transcript
<1>2. CASE Next
  BY <1>2, BeginInv, NewChatInv, PrepareInv, LookInv, CommitInv DEF Next
<1> QED
  BY <1>1, <1>2


-----------------------------------------------------------------------------
(* Theorems. *)

\* What a call has read before it writes stays good enough to write by: the
\* conversation is still there, has lost nothing, and when it has gained nothing
\* the client's request still begins with it.
THEOREM Invariance == Spec => []Inv
BY InitInv, NextInv, PTL DEF Spec

\* Storage, screens and calls keep their types.
THEOREM TypeCorrect == Spec => []TypeOK
<1>1. Inv => TypeOK
  BY DEF Inv
<1> QED
  BY <1>1, Invariance, PTL

\* Outside of the conversations that were written to blindly, messages are
\* numbered without gaps (insert_request_messages, record_transcription).
THEOREM NoGaps == Spec => []SequentialIndices
<1>1. Inv => SequentialIndices
  BY DEF Inv
<1> QED
  BY <1>1, Invariance, PTL

\* A whole history that is matched to a conversation becomes its transcript
\* (_resolve_by_transcript_prefix, record_successful_completion).
THEOREM Extends == Spec => TurnExtendsTranscript
<1>1. ASSUME Inv, Next, NEW t \in Turn, NEW v \in Conversation, Writes(t, v), v \notin mixed',
             turn[t].kind # "dictation"
      PROVE  Transcript(v)' = IF turn[t].answered THEN Append(turn[t].request, Assistant)
                              ELSE turn[t].request
  <2>1. messages'[v] # messages[v] /\ turn'[t] # turn[t]
    BY <1>1 DEF Writes
  <2>2. PICK u \in Turn : Commit(u)
    BY <1>1, <2>1 DEF Next, Begin, NewChat, Prepare, Look, Storage
  <2>3. PICK w \in Conversation, x \in Context :
          /\ Written(u, w, x)
          /\ w \notin mixed' /\ turn[u].kind # "dictation" =>
               Transcript(w) = SubSeq(turn[u].request, 1, x.existing)
    BY <1>1, <2>1, <2>2, CommitWrites DEF Storage
  <2>4. w = v
    BY <2>1, <2>3 DEF Written
  <2>5. u = t
    BY <1>1, <2>1, <2>3 DEF Written, Inv, TypeOK
  <2> QED
    BY <1>1, <2>3, <2>4, <2>5 DEF Written
<1>2. Inv /\ [Next]_vars =>
        [\A t \in Turn, v \in Conversation :
           /\ Writes(t, v)
           /\ v \notin mixed'
           /\ turn[t].kind # "dictation"
           => Transcript(v)' = IF turn[t].answered THEN Append(turn[t].request, Assistant)
                               ELSE turn[t].request]_vars
  BY <1>1
<1> QED
  BY <1>2, Invariance, PTL DEF Spec, TurnExtendsTranscript

\* Once a chat has a conversation, it keeps it, whoever races it
\* (_upsert_client_conversation_binding, _create_client_bound_conversation).
THEOREM KeepsBinding == Spec => BindingIsKept
<1>1. ASSUME Inv, Next, NEW c \in Client, binding[c] # None
      PROVE  binding'[c] = binding[c]
  <2>1. CASE \E t \in Turn : Prepare(t)
    <3>1. PICK t \in Turn : Prepare(t)
      BY <2>1
    <3>2. CASE UNCHANGED binding
      BY <3>2
    <3>3. ASSUME NEW v \in Conversation, binding' = Bindings(turn[t].client, v)
          PROVE  binding'[c] = binding[c]
      <4>1. turn[t].client \in Client
        <5>1. turn[t].pc = "prepare"
          BY <3>1 DEF Prepare
        <5> QED
          BY <1>1, <5>1 DEF Inv, TurnAt
      <4> QED
        BY <1>1, <3>3, <4>1, BindingFacts DEF Inv
    <3> QED
      BY <3>1, <3>2, <3>3 DEF Prepare, Storage
  <2>2. CASE \E t \in Turn : Commit(t)
    BY <1>1, <2>2, CommitWrites DEF Storage
  <2> QED
    BY <1>1, <2>1, <2>2 DEF Next, Begin, NewChat, Look, Storage
<1>2. Inv /\ Inv' /\ [Next]_vars =>
        [\A c \in Client : binding[c] # None =>
           binding'[c] = binding[c] /\ binding[c] \in ToSet(recent')]_vars
  BY <1>1 DEF Inv, BindingsMade, Made
<1> QED
  BY <1>2, Invariance, PTL DEF Spec, BindingIsKept

=============================================================================
