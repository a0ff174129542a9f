---------------------------- MODULE ServiceProofs ----------------------------
(***************************************************************************)
(* What the services of a client promise their user, for any number of     *)
(* peers, links, messages, versions and streams: the chat shows what was   *)
(* written, in its order and once, and says nothing was received that was  *)
(* not shown; an update is the one the user was shown; a screen shows one  *)
(* stream, in whole pictures that never go back; and what the client       *)
(* thinks of its connection to the server is true of the server; and a     *)
(* peer of the mesh is kept while it is within reach, and missed when not. *)
(***************************************************************************)
EXTENDS
  ServerSession, Messaging, Updates, ScreenShare, ScreenVideo, Reachability,
  SequenceTheorems, FiniteSetTheorems, TLAPS

-----------------------------------------------------------------------------
(* The chat: what a peer keeps.                                            *)

Ids     == 1..MaxMessages
Clocks  == 0..MaxLogicalClock
Texts   == [kind : {"message"}, id : Ids, clock : Clocks] \cup [kind : {"ack"}, id : Ids]
Entries == [id : Ids, from : Peers, clock : Clocks]
Tracks  == [id : Ids, expected : SUBSET Peers, acknowledged : SUBSET Peers]

IsMessage(t) == t.kind = "message"
IsAck(t)     == t.kind = "ack"

\* What is remembered is the end of what was shown.
Window(s, l) ==
  /\ Len(s) <= MaxSeenMessages /\ Len(s) <= Len(l)
  /\ Len(s) < MaxSeenMessages => Len(s) = Len(l)
  /\ \A i \in 1..Len(s) : s[i] = l[(Len(l) - Len(s)) + i].id

\* Shown again only after many others.
FarApart(l) ==
  \A i, j \in 1..Len(l) : (i < j /\ l[i].id = l[j].id) => j - i > MaxSeenMessages

\* The clock k has caught up with everything shown.
CaughtUp(l, k) == \A i \in 1..Len(l) : l[i].clock <= k

\* What p wrote itself is later than what it had seen.
AnswersOf(p, l) ==
  \A i, j \in 1..Len(l) : (i < j /\ l[j].from = p) => l[i].clock < l[j].clock

Memory(p, k, s, l) ==
  Window(s, l) /\ FarApart(l) /\ CaughtUp(l, k) /\ AnswersOf(p, l)

\* Of n messages shown to whom shown says, p has been shown what it remembers,
\* and what it counts as acknowledged was shown.
ShownWhatItKnows(p, s, n, shown) ==
  \A i \in 1..Len(s) : s[i] <= n /\ p \in shown[s[i]]

Delivered(s, n, shown) ==
  \A i \in 1..Len(s) :
    s[i].id <= n /\ s[i].acknowledged \subseteq (s[i].expected \cap shown[s[i].id])

-----------------------------------------------------------------------------
(* The chat: what is on its way, in the channel q and in the queue r.      *)

Rising(q) ==
  \A i, j \in 1..Len(q) : (i < j /\ IsMessage(q[i]) /\ IsMessage(q[j])) => q[i].id < q[j].id

AllBefore(q, r) ==
  \A i \in 1..Len(q), j \in 1..Len(r) :
    (IsMessage(q[i]) /\ IsMessage(r[j])) => q[i].id < r[j].id

UpTo(q, n) == \A i \in 1..Len(q) : q[i].id <= n

\* w acknowledges what it has shown.
TrueAcks(q, w, shown) == \A i \in 1..Len(q) : IsAck(q[i]) => w \in shown[q[i].id]

Carries(w, q, r, n, shown) ==
  /\ Rising(q) /\ Rising(r) /\ AllBefore(q, r)
  /\ UpTo(q, n) /\ UpTo(r, n)
  /\ TrueAcks(q, w, shown) /\ TrueAcks(r, w, shown)

ChatTyped ==
  /\ chatClock \in [Peers -> Clocks]
  /\ chatSeen \in [Peers -> Seq(Ids)]
  /\ chatDelivery \in [Peers -> Seq(Tracks)]
  /\ chatQueue \in [Channels -> Seq(Texts)]
  /\ chatChannel \in [Channels -> Seq(Texts)]
  /\ chatLog \in [Peers -> Seq(Entries)]
  /\ chatShownTo \in [Ids -> SUBSET Peers]
  /\ chatSent \in 0..MaxMessages

Keeps(p) ==
  /\ Memory(p, chatClock[p], chatSeen[p], chatLog[p])
  /\ ShownWhatItKnows(p, chatSeen[p], chatSent, chatShownTo)
  /\ Delivered(chatDelivery[p], chatSent, chatShownTo)

OnItsWay(c) == Carries(c[1], chatChannel[c], chatQueue[c], chatSent, chatShownTo)

ChatInv ==
  /\ ChatTyped
  /\ \A p \in Peers : Keeps(p)
  /\ \A c \in Channels : OnItsWay(c)

-----------------------------------------------------------------------------
(* Sequences.                                                              *)

\* One element more.
LEMMA More ==
  ASSUME NEW S, NEW q \in Seq(S), NEW x \in S
  PROVE  /\ Append(q, x) \in Seq(S)
         /\ Len(q) \in Nat /\ Len(Append(q, x)) = Len(q) + 1
         /\ \A i \in 1..Len(q) : Append(q, x)[i] = q[i]
         /\ Append(q, x)[Len(q) + 1] = x
  OBVIOUS

\* One element less.
LEMMA Less ==
  ASSUME NEW S, NEW q \in Seq(S), q # <<>>
  PROVE  /\ Tail(q) \in Seq(S) /\ Head(q) \in S /\ Head(q) = q[1]
         /\ Len(q) \in Nat \ {0} /\ Len(Tail(q)) = Len(q) - 1
         /\ \A i \in 1..Len(q) - 1 : Tail(q)[i] = q[i + 1]
<1>1. Len(q) \in Nat \ {0}
  BY EmptySeq
<1>2. Tail(q) \in Seq(S) /\ Head(q) \in S /\ Head(q) = q[1] /\ Len(Tail(q)) = Len(q) - 1
  BY <1>1
<1>3. \A i \in 1..Len(q) - 1 : Tail(q)[i] = q[i + 1]
  BY <1>1
<1> QED
  BY <1>1, <1>2, <1>3

\* So many and one more, and one less.
LEMMA Counting ==
  ASSUME NEW n \in Nat
  PROVE  /\ \A i \in 1..n + 1 : i \in 1..n \/ i = n + 1
         /\ \A i \in 1..n : i \in 1..n + 1 /\ i < n + 1
         /\ \A i \in 1..n - 1 : i + 1 \in 1..n
         /\ \A i, j \in 1..n - 1 : i < j => i + 1 < j + 1
         /\ n # 0 => 1 \in 1..n
         /\ \A i \in 1..n - 1 : 1 < i + 1
         /\ \A i, j \in 1..n + 1 : i < j => i \in 1..n
  OBVIOUS

\* The elements of a sequence.
LEMMA Elements ==
  ASSUME NEW S, NEW q \in Seq(S)
  PROVE  /\ Len(q) \in Nat /\ DOMAIN q = 1..Len(q)
         /\ \A i \in 1..Len(q) : q[i] \in S
  OBVIOUS

-----------------------------------------------------------------------------
(* What a peer remembers.                                                  *)

\* rememberMessage keeps the newest ids.
LEMMA Remembering ==
  ASSUME NEW S, NEW s \in Seq(S), NEW x \in S
  PROVE  /\ remember(s, x) \in Seq(S)
         /\ Len(s) < MaxSeenMessages => remember(s, x) = Append(s, x)
         /\ Len(s) >= MaxSeenMessages => s # <<>> /\ remember(s, x) = Append(Tail(s), x)
<1>1. Len(s) \in Nat /\ Len(<<>>) = 0
  BY EmptySeq
<1>2. Len(s) >= MaxSeenMessages => s # <<>>
  BY <1>1, ChatAssumption
<1>3. Len(s) >= MaxSeenMessages => Tail(s) \in Seq(S)
  BY <1>2, Less
<1>4. CASE Len(s) >= MaxSeenMessages
  BY <1>2, <1>3, <1>4, <1>1, ChatAssumption, More DEF remember
<1>5. CASE ~(Len(s) >= MaxSeenMessages)
  BY <1>5, <1>1, ChatAssumption, More DEF remember
<1> QED
  BY <1>4, <1>5

\* The window moves on with what is shown.
LEMMA WindowMoves ==
  ASSUME NEW s \in Seq(Ids), NEW l \in Seq(Entries), NEW e \in Entries, Window(s, l)
  PROVE  Window(remember(s, e.id), Append(l, e))
<1> DEFINE t == remember(s, e.id)
           m == Append(l, e)
<1>0. e.id \in Ids
  BY DEF Entries
<1>1. /\ Len(s) \in Nat /\ Len(l) \in Nat /\ Len(m) = Len(l) + 1
      /\ m[Len(l) + 1] = e
      /\ \A i \in 1..Len(l) : m[i] = l[i]
  BY More, Elements
<1>2. MaxSeenMessages \in Nat \ {0}
  BY ChatAssumption
<1> SUFFICES Window(t, m)
  OBVIOUS
<1> HIDE DEF m
<1>3. CASE Len(s) < MaxSeenMessages
  <2>1. t = Append(s, e.id)
    BY <1>3, <1>0, Remembering
  <2>2. /\ Len(t) = Len(s) + 1
        /\ t[Len(s) + 1] = e.id
        /\ \A i \in 1..Len(s) : t[i] = s[i]
    BY <2>1, <1>0, More
  <2> HIDE DEF t
  <2>3. Len(s) = Len(l)
    BY <1>3 DEF Window
  <2>4. \A i \in 1..Len(s) : t[i] = m[(Len(m) - Len(t)) + i].id
    BY <2>2, <2>3, <1>1 DEF Window
  <2>5. \A i \in 1..Len(t) : t[i] = m[(Len(m) - Len(t)) + i].id
    BY <2>2, <2>3, <2>4, <1>1
  <2> QED
    BY <2>2, <2>3, <2>5, <1>1, <1>2, <1>3 DEF Window
<1>4. CASE ~(Len(s) < MaxSeenMessages)
  <2>1. s # <<>> /\ t = Append(Tail(s), e.id) /\ Len(s) = MaxSeenMessages
    <3>1. Len(s) >= MaxSeenMessages /\ Len(s) <= MaxSeenMessages
      BY <1>4, <1>1, <1>2 DEF Window
    <3>2. s # <<>> /\ t = Append(Tail(s), e.id)
      BY <3>1, <1>0, Remembering
    <3>3. Len(s) = MaxSeenMessages
      BY <3>1, <1>1, <1>2
    <3> QED
      BY <3>2, <3>3
  <2>2. /\ Len(Tail(s)) = Len(s) - 1 /\ Tail(s) \in Seq(Ids)
        /\ \A i \in 1..Len(s) - 1 : Tail(s)[i] = s[i + 1]
    BY <2>1, Less
  <2>3. /\ Len(t) = Len(s)
        /\ t[Len(s)] = e.id
        /\ \A i \in 1..Len(s) - 1 : t[i] = s[i + 1]
    <3>1. /\ Len(t) = Len(Tail(s)) + 1
          /\ t[Len(Tail(s)) + 1] = e.id
          /\ \A i \in 1..Len(Tail(s)) : t[i] = Tail(s)[i]
      BY <2>1, <2>2, <1>0, More
    <3> HIDE DEF t
    <3> QED
      BY <3>1, <2>2, <1>1
  <2> HIDE DEF t
  <2>4. \A i \in 1..Len(s) - 1 : t[i] = m[(Len(m) - Len(t)) + i].id
    <3> SUFFICES ASSUME NEW i \in 1..Len(s) - 1
                 PROVE  t[i] = m[(Len(m) - Len(t)) + i].id
      OBVIOUS
    <3>1. i + 1 \in 1..Len(s) /\ Len(s) <= Len(l)
      BY <1>1 DEF Window
    <3>2. s[i + 1] = l[(Len(l) - Len(s)) + (i + 1)].id
      BY <3>1 DEF Window
    <3>3. /\ (Len(m) - Len(t)) + i = (Len(l) - Len(s)) + (i + 1)
          /\ (Len(l) - Len(s)) + (i + 1) \in 1..Len(l)
      BY <3>1, <2>3, <1>1
    <3> QED
      BY <3>2, <3>3, <2>3, <1>1
  <2>5. \A i \in 1..Len(t) : t[i] = m[(Len(m) - Len(t)) + i].id
    BY <2>3, <2>4, <1>1
  <2> QED
    BY <2>1, <2>3, <2>5, <1>1, <1>2 DEF Window
<1> QED
  BY <1>3, <1>4

\* What is not remembered was shown long ago, if ever.
LEMMA LongAgo ==
  ASSUME NEW s \in Seq(Ids), NEW l \in Seq(Entries), NEW id, Window(s, l),
         id \notin Content(s), NEW i \in 1..Len(l), l[i].id = id
  PROVE  (Len(l) + 1) - i > MaxSeenMessages
<1>1. Len(s) \in Nat /\ Len(l) \in Nat /\ MaxSeenMessages \in Nat /\ DOMAIN s = 1..Len(s)
  BY ChatAssumption
<1>2. SUFFICES ASSUME ~((Len(l) + 1) - i > MaxSeenMessages)
               PROVE  FALSE
  OBVIOUS
<1>3. i - (Len(l) - Len(s)) \in 1..Len(s)
  BY <1>1, <1>2 DEF Window
<1>4. s[i - (Len(l) - Len(s))] = l[(Len(l) - Len(s)) + (i - (Len(l) - Len(s)))].id
  BY <1>3 DEF Window
<1>5. (Len(l) - Len(s)) + (i - (Len(l) - Len(s))) = i
  BY <1>1
<1> QED
  BY <1>1, <1>3, <1>4, <1>5 DEF Content

\* One message more is shown.
LEMMA MemoryGrows ==
  ASSUME NEW p \in Peers, NEW k \in Nat, NEW k2 \in Nat,
         NEW s \in Seq(Ids), NEW l \in Seq(Entries), NEW e \in Entries,
         Memory(p, k, s, l), e.id \notin Content(s),
         k <= k2, e.clock <= k2, e.from = p => k < e.clock
  PROVE  Memory(p, k2, remember(s, e.id), Append(l, e))
<1> DEFINE m == Append(l, e)
<1>1. /\ Len(l) \in Nat /\ Len(m) = Len(l) + 1
      /\ m[Len(l) + 1] = e
      /\ \A i \in 1..Len(l) : m[i] = l[i]
  BY More, Elements
<1>2. \A i \in 1..Len(l) : l[i].clock \in Nat
  <2>1. \A x \in Entries : x.clock \in Nat
    BY ChatAssumption DEF Entries, Clocks
  <2>2. \A i \in 1..Len(l) : l[i] \in Entries
    BY Elements
  <2> QED
    BY <2>1, <2>2
<1>3. e.clock \in Nat
  BY ChatAssumption DEF Entries, Clocks
<1> HIDE DEF m
<1>4. \A i \in 1..Len(m) : i \in 1..Len(l) \/ i = Len(l) + 1
  BY <1>1
<1>5. \A i, j \in 1..Len(m) : i < j => i \in 1..Len(l)
  BY <1>1
<1>6. FarApart(m)
  <2> SUFFICES ASSUME NEW i \in 1..Len(m), NEW j \in 1..Len(m), i < j, m[i].id = m[j].id
               PROVE  j - i > MaxSeenMessages
    BY DEF FarApart
  <2>1. i \in 1..Len(l)
    BY <1>5
  <2>2. CASE j \in 1..Len(l)
    BY <2>1, <2>2, <1>1 DEF Memory, FarApart
  <2>3. CASE j = Len(l) + 1
    BY <2>1, <2>3, <1>1, LongAgo DEF Memory
  <2> QED
    BY <2>2, <2>3, <1>4
<1>7. CaughtUp(m, k2)
  <2> SUFFICES ASSUME NEW i \in 1..Len(m)
               PROVE  m[i].clock <= k2
    BY DEF CaughtUp
  <2>1. CASE i \in 1..Len(l)
    BY <2>1, <1>1, <1>2 DEF Memory, CaughtUp
  <2>2. CASE i = Len(l) + 1
    BY <2>2, <1>1
  <2> QED
    BY <2>1, <2>2, <1>4
<1>8. AnswersOf(p, m)
  <2> SUFFICES ASSUME NEW i \in 1..Len(m), NEW j \in 1..Len(m), i < j, m[j].from = p
               PROVE  m[i].clock < m[j].clock
    BY DEF AnswersOf
  <2>1. i \in 1..Len(l)
    BY <1>5
  <2>2. CASE j \in 1..Len(l)
    BY <2>1, <2>2, <1>1 DEF Memory, AnswersOf
  <2>3. CASE j = Len(l) + 1
    BY <2>1, <2>3, <1>1, <1>2, <1>3 DEF Memory, CaughtUp
  <2> QED
    BY <2>2, <2>3, <1>4
<1>9. Window(remember(s, e.id), m)
  BY WindowMoves DEF Memory, m
<1> QED
  BY <1>6, <1>7, <1>8, <1>9 DEF Memory, m

\* Of each id remembered something holds; it then does of one id more.
LEMMA RememberedElements ==
  ASSUME NEW S, NEW s \in Seq(S), NEW x \in S, NEW i \in 1..Len(remember(s, x))
  PROVE  remember(s, x)[i] = x \/ \E j \in 1..Len(s) : remember(s, x)[i] = s[j]
<1>1. Len(s) \in Nat
  OBVIOUS
<1>2. CASE Len(s) < MaxSeenMessages
  <2>1. i \in 1..Len(Append(s, x)) /\ remember(s, x) = Append(s, x)
    BY <1>2, Remembering
  <2> QED
    BY <2>1, More, Counting, <1>1
<1>3. CASE Len(s) >= MaxSeenMessages
  <2>1. s # <<>> /\ i \in 1..Len(Append(Tail(s), x)) /\ remember(s, x) = Append(Tail(s), x)
    BY <1>3, Remembering
  <2>2. Tail(s) \in Seq(S)
    BY <2>1, Less
  <2>3. i \in 1..Len(Tail(s)) \/ i = Len(Tail(s)) + 1
    BY <2>1, <2>2, More, Counting
  <2>4. CASE i \in 1..Len(Tail(s))
    <3>1. Append(Tail(s), x)[i] = Tail(s)[i] /\ i \in 1..Len(s) - 1 /\ Tail(s)[i] = s[i + 1]
      BY <2>1, <2>2, <2>4, More, Less
    <3>2. i + 1 \in 1..Len(s)
      BY <3>1, <1>1
    <3> QED
      BY <2>1, <3>1, <3>2
  <2>5. CASE i = Len(Tail(s)) + 1
    BY <2>1, <2>2, <2>5, More
  <2> QED
    BY <2>3, <2>4, <2>5
<1> QED
  BY <1>1, <1>2, <1>3, ChatAssumption

\* Nobody is taken back of those a message up to the n-th was shown to.
Grows(shown, more, n) == \A id \in Ids : id <= n => shown[id] \subseteq more[id]

\* What was known or received stays so.
LEMMA KnowsStill ==
  ASSUME NEW p \in Peers, NEW s \in Seq(Ids), NEW n \in Nat, NEW n2 \in Nat, n <= n2,
         NEW shown, NEW more, Grows(shown, more, n), ShownWhatItKnows(p, s, n, shown)
  PROVE  ShownWhatItKnows(p, s, n2, more)
<1> SUFFICES ASSUME NEW i \in 1..Len(s)
             PROVE  s[i] <= n2 /\ p \in more[s[i]]
  BY DEF ShownWhatItKnows
<1>1. s[i] \in Ids /\ s[i] \in Nat
  BY Elements, ChatAssumption DEF Ids
<1>2. s[i] <= n /\ p \in shown[s[i]]
  BY DEF ShownWhatItKnows
<1>3. s[i] <= n2
  BY <1>1, <1>2
<1> QED
  BY <1>1, <1>2, <1>3 DEF Grows

LEMMA DeliveredStill ==
  ASSUME NEW s \in Seq(Tracks), NEW n \in Nat, NEW n2 \in Nat, n <= n2,
         NEW shown, NEW more, Grows(shown, more, n), Delivered(s, n, shown)
  PROVE  Delivered(s, n2, more)
<1> SUFFICES ASSUME NEW i \in 1..Len(s)
             PROVE  s[i].id <= n2 /\ s[i].acknowledged \subseteq (s[i].expected \cap more[s[i].id])
  BY DEF Delivered
<1>1. s[i] \in Tracks
  BY Elements
<1>2. s[i].id \in Ids /\ s[i].id \in Nat
  BY <1>1, ChatAssumption DEF Tracks, Ids
<1>3. s[i].id <= n /\ s[i].acknowledged \subseteq (s[i].expected \cap shown[s[i].id])
  BY DEF Delivered
<1>4. s[i].id <= n2
  BY <1>2, <1>3
<1>5. shown[s[i].id] \subseteq more[s[i].id]
  BY <1>2, <1>3 DEF Grows
<1> QED
  BY <1>3, <1>4, <1>5

\* One more is remembered that was shown, or sent and not yet received.
LEMMA KnowsOneMore ==
  ASSUME NEW p \in Peers, NEW s \in Seq(Ids), NEW n \in Nat, NEW shown, NEW id \in Ids,
         ShownWhatItKnows(p, s, n, shown), id <= n, p \in shown[id]
  PROVE  ShownWhatItKnows(p, remember(s, id), n, shown)
  BY RememberedElements DEF ShownWhatItKnows

LEMMA DeliveredOneMore ==
  ASSUME NEW s \in Seq(Tracks), NEW n \in Nat, NEW shown, NEW d \in Tracks,
         Delivered(s, n, shown), d.id <= n, d.acknowledged = {}
  PROVE  Delivered(remember(s, d), n, shown)
  BY RememberedElements DEF Delivered

-----------------------------------------------------------------------------
(* What is on its way.                                                     *)

LEMMA TextFacts ==
  ASSUME NEW t \in Texts
  PROVE  /\ t.id \in Ids /\ t.id \in Nat
         /\ IsMessage(t) \/ IsAck(t)
         /\ IsMessage(t) => t.clock \in Clocks
         /\ ~(IsMessage(t) /\ IsAck(t))
  BY ChatAssumption DEF Texts, Ids, IsMessage, IsAck

LEMMA ManyTexts ==
  ASSUME NEW q \in Seq(Texts)
  PROVE  /\ Len(q) \in Nat /\ DOMAIN q = 1..Len(q)
         /\ \A i \in 1..Len(q) : q[i] \in Texts /\ q[i].id \in Ids /\ q[i].id \in Nat
  BY Elements, TextFacts

\* A text that is newer than all the others, or an acknowledgement of what was
\* shown, is appended.
Fits(t, w, n, n2, shown) ==
  /\ t.id <= n2
  /\ IsMessage(t) => n < t.id
  /\ IsAck(t) => w \in shown[t.id]

LEMMA OneTextMore ==
  ASSUME NEW q \in Seq(Texts), NEW t \in Texts, NEW n \in Nat, NEW n2 \in Nat, n <= n2,
         NEW w, NEW shown, Fits(t, w, n, n2, shown),
         Rising(q), UpTo(q, n), TrueAcks(q, w, shown)
  PROVE  /\ Append(q, t) \in Seq(Texts)
         /\ Rising(Append(q, t)) /\ UpTo(Append(q, t), n2) /\ TrueAcks(Append(q, t), w, shown)
<1> DEFINE m == Append(q, t)
<1>1. /\ m \in Seq(Texts)
      /\ Len(q) \in Nat /\ Len(m) = Len(q) + 1
      /\ m[Len(q) + 1] = t
      /\ \A i \in 1..Len(q) : m[i] = q[i]
  BY More
<1> HIDE DEF m
<1>2. \A i \in 1..Len(m) : i \in 1..Len(q) \/ i = Len(q) + 1
  BY <1>1
<1>3. \A i, j \in 1..Len(m) : i < j => i \in 1..Len(q)
  BY <1>1
<1>4. \A i \in 1..Len(q) : q[i].id \in Nat /\ q[i].id <= n
  BY ManyTexts DEF UpTo
<1>5. t.id \in Nat
  BY TextFacts
<1>6. Rising(m)
  <2> SUFFICES ASSUME NEW i \in 1..Len(m), NEW j \in 1..Len(m), i < j, IsMessage(m[i]), IsMessage(m[j])
               PROVE  m[i].id < m[j].id
    BY DEF Rising
  <2>1. i \in 1..Len(q)
    BY <1>3
  <2>2. CASE j \in 1..Len(q)
    BY <2>1, <2>2, <1>1 DEF Rising
  <2>3. CASE j = Len(q) + 1
    <3>1. m[i] = q[i] /\ m[j] = t
      BY <2>1, <2>3, <1>1
    <3>2. n < t.id
      BY <3>1 DEF Fits
    <3> QED
      BY <3>1, <3>2, <2>1, <1>4, <1>5
  <2> QED
    BY <2>2, <2>3, <1>2
<1>7. UpTo(m, n2)
  <2> SUFFICES ASSUME NEW i \in 1..Len(m)
               PROVE  m[i].id <= n2
    BY DEF UpTo
  <2>1. CASE i \in 1..Len(q)
    BY <2>1, <1>1, <1>4
  <2>2. CASE i = Len(q) + 1
    BY <2>2, <1>1 DEF Fits
  <2> QED
    BY <2>1, <2>2, <1>2
<1>8. TrueAcks(m, w, shown)
  <2> SUFFICES ASSUME NEW i \in 1..Len(m), IsAck(m[i])
               PROVE  w \in shown[m[i].id]
    BY DEF TrueAcks
  <2>1. CASE i \in 1..Len(q)
    BY <2>1, <1>1 DEF TrueAcks
  <2>2. CASE i = Len(q) + 1
    BY <2>2, <1>1 DEF Fits
  <2> QED
    BY <2>1, <2>2, <1>2
<1> QED
  BY <1>1, <1>6, <1>7, <1>8 DEF m

LEMMA OneTextLess ==
  ASSUME NEW q \in Seq(Texts), q # <<>>, NEW n, NEW w, NEW shown,
         Rising(q), UpTo(q, n), TrueAcks(q, w, shown)
  PROVE  /\ Tail(q) \in Seq(Texts)
         /\ Rising(Tail(q)) /\ UpTo(Tail(q), n) /\ TrueAcks(Tail(q), w, shown)
         /\ \A i \in 1..Len(Tail(q)) : i + 1 \in 1..Len(q) /\ 1 < i + 1 /\ Tail(q)[i] = q[i + 1]
         /\ 1 \in 1..Len(q) /\ Head(q) = q[1] /\ Head(q) \in Texts
<1>1. /\ Tail(q) \in Seq(Texts)
      /\ Len(q) \in Nat \ {0} /\ Len(Tail(q)) = Len(q) - 1
      /\ Head(q) = q[1] /\ Head(q) \in Texts
      /\ \A i \in 1..Len(q) - 1 : Tail(q)[i] = q[i + 1]
  BY Less
<1>2. \A i \in 1..Len(Tail(q)) : i + 1 \in 1..Len(q) /\ 1 < i + 1 /\ Tail(q)[i] = q[i + 1]
  BY <1>1, Counting
<1>3. \A i, j \in 1..Len(Tail(q)) : i < j => i + 1 < j + 1
  BY <1>1, Counting
<1>4. Rising(Tail(q))
  BY <1>2, <1>3 DEF Rising
<1>5. UpTo(Tail(q), n) /\ TrueAcks(Tail(q), w, shown)
  BY <1>2 DEF UpTo, TrueAcks
<1>6. 1 \in 1..Len(q)
  BY <1>1
<1> QED
  BY <1>1, <1>2, <1>4, <1>5, <1>6

LEMMA CarriesStill ==
  ASSUME NEW w, NEW q \in Seq(Texts), NEW r \in Seq(Texts), NEW n \in Nat, NEW n2 \in Nat, n <= n2,
         NEW shown, NEW more, Grows(shown, more, n), Carries(w, q, r, n, shown)
  PROVE  Carries(w, q, r, n2, more)
<1>1. ASSUME NEW s \in Seq(Texts), UpTo(s, n), TrueAcks(s, w, shown)
      PROVE  UpTo(s, n2) /\ TrueAcks(s, w, more)
  <2>1. \A i \in 1..Len(s) : s[i].id \in Ids /\ s[i].id \in Nat /\ s[i].id <= n
    BY <1>1, ManyTexts DEF UpTo
  <2>2. UpTo(s, n2)
    BY <2>1 DEF UpTo
  <2>3. TrueAcks(s, w, more)
    BY <1>1, <2>1 DEF TrueAcks, Grows
  <2> QED
    BY <2>2, <2>3
<1> QED
  BY <1>1 DEF Carries

\* A text is put into the channel, where nothing waits.
LEMMA CarriesMore ==
  ASSUME NEW w, NEW q \in Seq(Texts), NEW n \in Nat, NEW n2 \in Nat, n <= n2, NEW shown,
         Carries(w, q, <<>>, n, shown), NEW t \in Texts, Fits(t, w, n, n2, shown)
  PROVE  Append(q, t) \in Seq(Texts) /\ Carries(w, Append(q, t), <<>>, n2, shown)
<1>1. <<>> \in Seq(Texts) /\ Len(<<>>) = 0
  OBVIOUS
<1>2. 1..0 = {}
  OBVIOUS
<1>3. Rising(<<>>) /\ UpTo(<<>>, n2) /\ TrueAcks(<<>>, w, shown) /\ AllBefore(Append(q, t), <<>>)
  BY <1>1, <1>2 DEF Rising, UpTo, TrueAcks, AllBefore
<1> QED
  BY <1>3, OneTextMore DEF Carries

\* A text has to wait.
LEMMA CarriesQueued ==
  ASSUME NEW w, NEW q \in Seq(Texts), NEW r \in Seq(Texts), NEW n \in Nat, NEW n2 \in Nat, n <= n2,
         NEW shown, Carries(w, q, r, n, shown), NEW t \in Texts, Fits(t, w, n, n2, shown)
  PROVE  Append(r, t) \in Seq(Texts) /\ Carries(w, q, Append(r, t), n2, shown)
<1>1. /\ Append(r, t) \in Seq(Texts)
      /\ Rising(Append(r, t)) /\ UpTo(Append(r, t), n2) /\ TrueAcks(Append(r, t), w, shown)
  BY OneTextMore DEF Carries
<1>2. \A i \in 1..Len(q) : q[i].id \in Nat /\ q[i].id <= n
  BY ManyTexts DEF UpTo, Carries
<1>3. UpTo(q, n2)
  BY <1>2 DEF UpTo
<1>4. AllBefore(q, Append(r, t))
  <2> SUFFICES ASSUME NEW i \in 1..Len(q), NEW j \in 1..Len(Append(r, t)),
                      IsMessage(q[i]), IsMessage(Append(r, t)[j])
               PROVE  q[i].id < Append(r, t)[j].id
    BY DEF AllBefore
  <2>1. /\ Len(r) \in Nat /\ Len(Append(r, t)) = Len(r) + 1
        /\ Append(r, t)[Len(r) + 1] = t
        /\ \A k \in 1..Len(r) : Append(r, t)[k] = r[k]
    BY More
  <2>2. CASE j \in 1..Len(r)
    BY <2>1, <2>2 DEF Carries, AllBefore
  <2>3. CASE j = Len(r) + 1
    <3>1. Append(r, t)[j] = t /\ t.id \in Nat
      BY <2>1, <2>3, TextFacts
    <3>2. n < t.id
      BY <3>1 DEF Fits
    <3> QED
      BY <3>1, <3>2, <1>2
  <2> QED
    BY <2>1, <2>2, <2>3, Counting
<1> QED
  BY <1>1, <1>3, <1>4 DEF Carries

\* The first text that waits goes on.
LEMMA CarriesFlushed ==
  ASSUME NEW w, NEW q \in Seq(Texts), NEW r \in Seq(Texts), r # <<>>, NEW n \in Nat,
         NEW shown, Carries(w, q, r, n, shown)
  PROVE  /\ Append(q, Head(r)) \in Seq(Texts) /\ Tail(r) \in Seq(Texts)
         /\ Carries(w, Append(q, Head(r)), Tail(r), n, shown)
<1> DEFINE m == Append(q, Head(r))
           s == Tail(r)
<1>1. /\ s \in Seq(Texts) /\ Rising(s) /\ UpTo(s, n) /\ TrueAcks(s, w, shown)
      /\ \A i \in 1..Len(s) : i + 1 \in 1..Len(r) /\ 1 < i + 1 /\ s[i] = r[i + 1]
      /\ 1 \in 1..Len(r) /\ Head(r) = r[1] /\ Head(r) \in Texts
  BY OneTextLess DEF Carries
<1>2. /\ m \in Seq(Texts)
      /\ Len(q) \in Nat /\ Len(m) = Len(q) + 1
      /\ m[Len(q) + 1] = r[1]
      /\ \A i \in 1..Len(q) : m[i] = q[i]
  BY <1>1, More
<1> SUFFICES m \in Seq(Texts) /\ s \in Seq(Texts) /\ Carries(w, m, s, n, shown)
  OBVIOUS
<1> HIDE DEF m, s
<1>3. \A i \in 1..Len(m) : i \in 1..Len(q) \/ i = Len(q) + 1
  BY <1>2
<1>4. \A i, j \in 1..Len(m) : i < j => i \in 1..Len(q)
  BY <1>2
<1>5. Rising(m)
  <2> SUFFICES ASSUME NEW i \in 1..Len(m), NEW j \in 1..Len(m), i < j, IsMessage(m[i]), IsMessage(m[j])
               PROVE  m[i].id < m[j].id
    BY DEF Rising
  <2>1. i \in 1..Len(q) /\ m[i] = q[i]
    BY <1>2, <1>4
  <2>2. CASE j \in 1..Len(q)
    BY <2>1, <2>2, <1>2 DEF Carries, Rising
  <2>3. CASE j = Len(q) + 1
    BY <2>1, <2>3, <1>1, <1>2 DEF Carries, AllBefore
  <2> QED
    BY <2>2, <2>3, <1>3
<1>6. AllBefore(m, s)
  <2> SUFFICES ASSUME NEW i \in 1..Len(m), NEW j \in 1..Len(s), IsMessage(m[i]), IsMessage(s[j])
               PROVE  m[i].id < s[j].id
    BY DEF AllBefore
  <2>1. CASE i \in 1..Len(q)
    BY <2>1, <1>1, <1>2 DEF Carries, AllBefore
  <2>2. CASE i = Len(q) + 1
    <3>1. m[i] = r[1] /\ s[j] = r[j + 1] /\ 1 \in 1..Len(r) /\ j + 1 \in 1..Len(r) /\ 1 < j + 1
      BY <2>2, <1>1, <1>2
    <3>2. Rising(r)
      BY DEF Carries
    <3> QED
      BY <3>1, <3>2 DEF Rising
  <2> QED
    BY <2>1, <2>2, <1>3
<1>7. UpTo(m, n)
  BY <1>1, <1>2, <1>3 DEF Carries, UpTo
<1>8. TrueAcks(m, w, shown)
  BY <1>1, <1>2, <1>3 DEF Carries, TrueAcks
<1>9. Rising(s) /\ UpTo(s, n) /\ TrueAcks(s, w, shown)
  BY <1>1
<1> QED
  BY <1>1, <1>2, <1>5, <1>6, <1>7, <1>8, <1>9 DEF Carries

\* The first text of the channel is read.
LEMMA CarriesTaken ==
  ASSUME NEW w, NEW q \in Seq(Texts), NEW r \in Seq(Texts), q # <<>>, NEW n \in Nat,
         NEW shown, Carries(w, q, r, n, shown)
  PROVE  /\ Tail(q) \in Seq(Texts) /\ Carries(w, Tail(q), r, n, shown)
         /\ Head(q) \in Texts /\ Head(q).id <= n
         /\ IsAck(Head(q)) => w \in shown[Head(q).id]
<1> DEFINE s == Tail(q)
<1>1. /\ s \in Seq(Texts) /\ Rising(s) /\ UpTo(s, n) /\ TrueAcks(s, w, shown)
      /\ \A i \in 1..Len(s) : i + 1 \in 1..Len(q) /\ s[i] = q[i + 1]
      /\ 1 \in 1..Len(q) /\ Head(q) = q[1] /\ Head(q) \in Texts
  BY OneTextLess DEF Carries
<1> HIDE DEF s
<1>2. AllBefore(s, r)
  BY <1>1 DEF Carries, AllBefore
<1>3. Carries(w, s, r, n, shown)
  BY <1>1, <1>2 DEF Carries
<1>4. Head(q).id <= n
  BY <1>1 DEF Carries, UpTo
<1>5. IsAck(Head(q)) => w \in shown[Head(q).id]
  BY <1>1 DEF Carries, TrueAcks
<1> QED
  BY <1>1, <1>3, <1>4, <1>5 DEF s

\* Nothing is on its way.
LEMMA CarriesNothing ==
  ASSUME NEW w, NEW n, NEW shown
  PROVE  <<>> \in Seq(Texts) /\ Carries(w, <<>>, <<>>, n, shown)
<1>1. <<>> \in Seq(Texts) /\ Len(<<>>) = 0 /\ 1..0 = {}
  OBVIOUS
<1> QED
  BY <1>1 DEF Carries, Rising, AllBefore, UpTo, TrueAcks

-----------------------------------------------------------------------------
(* The steps of the chat.                                                  *)

LEMMA ChannelEnds ==
  ASSUME NEW c \in Channels
  PROVE  /\ c[1] \in Peers /\ c[2] \in Peers /\ c[1] # c[2]
         /\ <<c[2], c[1], c[3]>> \in Channels /\ <<c[2], c[1], c[3]>> # c
  BY DEF Channels

LEMMA SendingAll ==
  ASSUME ChatInv, NEW C \in SUBSET Channels, NEW t \in Texts, sendText(C, t),
         chatSent' \in Nat, chatSent <= chatSent', Grows(chatShownTo, chatShownTo', chatSent),
         \A c \in C : Fits(t, c[1], chatSent, chatSent', chatShownTo')
  PROVE  /\ chatQueue' \in [Channels -> Seq(Texts)]
         /\ chatChannel' \in [Channels -> Seq(Texts)]
         /\ \A c \in Channels : OnItsWay(c)'
<1>1. chatSent \in Nat
  BY ChatAssumption DEF ChatInv, ChatTyped
<1>2. ASSUME NEW c \in Channels
      PROVE  chatQueue'[c] \in Seq(Texts) /\ chatChannel'[c] \in Seq(Texts) /\ OnItsWay(c)'
  <2> DEFINE q == chatChannel[c]
             r == chatQueue[c]
  <2>1. q \in Seq(Texts) /\ r \in Seq(Texts) /\ Carries(c[1], q, r, chatSent, chatShownTo)
    BY DEF ChatInv, ChatTyped, OnItsWay
  <2>2. Carries(c[1], q, r, chatSent, chatShownTo') /\ Carries(c[1], q, r, chatSent', chatShownTo')
    BY <1>1, <2>1, CarriesStill DEF Grows
  <2>3. CASE c \in C /\ direct(c)
    <3>1. r = <<>> /\ chatChannel'[c] = Append(q, t) /\ chatQueue'[c] = <<>>
      BY <2>3 DEF sendText, direct
    <3>2. Append(q, t) \in Seq(Texts) /\ Carries(c[1], Append(q, t), <<>>, chatSent', chatShownTo')
      BY <1>1, <2>1, <2>2, <2>3, <3>1, CarriesMore
    <3> QED
      BY <3>1, <3>2, <2>1 DEF OnItsWay
  <2>4. CASE c \in C /\ ~direct(c) /\ accepts(c)
    <3>1. chatChannel'[c] = q /\ chatQueue'[c] = Append(r, t)
      BY <2>4 DEF sendText
    <3>2. Append(r, t) \in Seq(Texts) /\ Carries(c[1], q, Append(r, t), chatSent', chatShownTo')
      BY <1>1, <2>1, <2>2, <2>4, CarriesQueued
    <3> QED
      BY <3>1, <3>2, <2>1 DEF OnItsWay
  <2>5. CASE ~(c \in C /\ direct(c)) /\ ~(c \in C /\ ~direct(c) /\ accepts(c))
    <3>1. chatChannel'[c] = q /\ chatQueue'[c] = r
      BY <2>5 DEF sendText
    <3> QED
      BY <3>1, <2>1, <2>2 DEF OnItsWay
  <2> QED
    BY <2>3, <2>4, <2>5
<1>3. chatQueue' = [c \in Channels |-> chatQueue'[c]] /\ chatChannel' = [c \in Channels |-> chatChannel'[c]]
  BY DEF sendText
<1> QED
  BY <1>2, <1>3

LEMMA SendMessageStep ==
  ASSUME ChatInv, NEW p \in Peers, sendMessage(p)
  PROVE  ChatInv'
<1> DEFINE n == chatSent
           id == chatSent + 1
           k == chatClock[p]
           t == Message(id, k + 1)
           e == Shown(id, p, k + 1)
           d == [id |-> id, expected |-> {c[2] : c \in from(p)}, acknowledged |-> {}]
<1>1. n \in Nat /\ id \in Nat /\ id \in Ids /\ n <= id /\ n < id /\ chatSent' = id
  BY ChatAssumption DEF ChatInv, ChatTyped, sendMessage, Ids
<1>2. k \in Clocks /\ k \in Nat /\ k + 1 \in Clocks /\ k + 1 \in Nat /\ k < k + 1 /\ k <= k + 1
  BY ChatAssumption DEF ChatInv, ChatTyped, sendMessage, Clocks
<1>3. t \in Texts /\ t.kind = "message" /\ t.id = id
  BY <1>1, <1>2 DEF Texts, Message
<1>4. e \in Entries /\ e.id = id /\ e.from = p /\ e.clock = k + 1
  BY <1>1, <1>2 DEF Entries, Shown
<1>5. from(p) \in SUBSET Channels
  BY DEF from
<1>6. {c[2] : c \in from(p)} \in SUBSET Peers
  BY <1>5, ChannelEnds
<1>7. d \in Tracks /\ d.id = id /\ d.acknowledged = {}
  BY <1>1, <1>6 DEF Tracks
<1>8. /\ chatShownTo' = [chatShownTo EXCEPT ![id] = {p}]
      /\ chatShownTo \in [Ids -> SUBSET Peers]
  BY DEF sendMessage, ChatInv, ChatTyped
<1>9. chatShownTo' \in [Ids -> SUBSET Peers] /\ p \in chatShownTo'[id] /\ Grows(chatShownTo, chatShownTo', n)
  BY <1>1, <1>8 DEF Grows
<1>10. sendText(from(p), t)
  BY DEF sendMessage
<1>11. \A c \in from(p) : Fits(t, c[1], n, chatSent', chatShownTo')
  BY <1>1, <1>3 DEF Fits, IsMessage, IsAck
<1>12. /\ chatQueue' \in [Channels -> Seq(Texts)]
       /\ chatChannel' \in [Channels -> Seq(Texts)]
       /\ \A c \in Channels : OnItsWay(c)'
  <2> HIDE DEF t
  <2> QED
    BY <1>1, <1>3, <1>5, <1>9, <1>10, <1>11, SendingAll
<1>13. /\ chatClock' = [chatClock EXCEPT ![p] = k + 1]
       /\ chatSeen' = [chatSeen EXCEPT ![p] = remember(chatSeen[p], id)]
       /\ chatDelivery' = [chatDelivery EXCEPT ![p] = remember(chatDelivery[p], d)]
       /\ chatLog' = [chatLog EXCEPT ![p] = Append(chatLog[p], e)]
  BY DEF sendMessage
<1> HIDE DEF n, id, k, t, e, d
<1>14. /\ chatClock \in [Peers -> Clocks] /\ chatSeen \in [Peers -> Seq(Ids)]
       /\ chatDelivery \in [Peers -> Seq(Tracks)] /\ chatLog \in [Peers -> Seq(Entries)]
  BY DEF ChatInv, ChatTyped
<1>15. /\ remember(chatSeen[p], id) \in Seq(Ids)
       /\ remember(chatDelivery[p], d) \in Seq(Tracks)
       /\ Append(chatLog[p], e) \in Seq(Entries)
  BY <1>1, <1>4, <1>7, <1>14, Remembering, More
<1>16. ChatTyped'
  <2>1. id \in 0..MaxMessages
    BY <1>1, ChatAssumption DEF Ids
  <2> QED
    BY <2>1, <1>1, <1>2, <1>9, <1>12, <1>13, <1>14, <1>15 DEF ChatTyped
<1>17. ASSUME NEW q \in Peers
       PROVE  Keeps(q)'
  <2>1. /\ chatSeen[q] \in Seq(Ids) /\ chatDelivery[q] \in Seq(Tracks) /\ chatLog[q] \in Seq(Entries)
        /\ Memory(q, chatClock[q], chatSeen[q], chatLog[q])
        /\ ShownWhatItKnows(q, chatSeen[q], n, chatShownTo)
        /\ Delivered(chatDelivery[q], n, chatShownTo)
    BY <1>14 DEF ChatInv, Keeps, n
  <2>2. ShownWhatItKnows(q, chatSeen[q], id, chatShownTo') /\ Delivered(chatDelivery[q], id, chatShownTo')
    BY <2>1, <1>1, <1>9, KnowsStill, DeliveredStill
  <2>3. CASE q # p
    <3>1. /\ chatClock'[q] = chatClock[q] /\ chatSeen'[q] = chatSeen[q]
          /\ chatDelivery'[q] = chatDelivery[q] /\ chatLog'[q] = chatLog[q]
      BY <2>3, <1>13, <1>14
    <3> QED
      BY <3>1, <2>1, <2>2, <1>1 DEF Keeps
  <2>4. CASE q = p
    <3>1. /\ chatClock'[p] = k + 1 /\ chatSeen'[p] = remember(chatSeen[p], id)
          /\ chatDelivery'[p] = remember(chatDelivery[p], d) /\ chatLog'[p] = Append(chatLog[p], e)
      BY <1>13, <1>14
    <3>2. id \notin Content(chatSeen[p])
      <4> SUFFICES ASSUME NEW i \in DOMAIN chatSeen[p], chatSeen[p][i] = id
                   PROVE  FALSE
        BY DEF Content
      <4>1. i \in 1..Len(chatSeen[p])
        BY <2>1, <2>4, Elements
      <4>2. chatSeen[p][i] <= n
        BY <4>1, <2>1, <2>4 DEF ShownWhatItKnows
      <4> QED
        BY <4>2, <1>1
    <3>3. Memory(p, k + 1, remember(chatSeen[p], id), Append(chatLog[p], e))
      <4>1. Memory(p, k, chatSeen[p], chatLog[p])
        BY <2>1, <2>4 DEF k
      <4>2. e.clock <= k + 1 /\ k < e.clock
        BY <1>2, <1>4
      <4> QED
        BY <4>1, <4>2, <3>2, <1>2, <1>4, <2>1, <2>4, MemoryGrows
    <3>4. ShownWhatItKnows(p, remember(chatSeen[p], id), id, chatShownTo')
      BY <2>1, <2>2, <2>4, <1>1, <1>9, KnowsOneMore
    <3>5. Delivered(remember(chatDelivery[p], d), id, chatShownTo')
      BY <2>1, <2>2, <2>4, <1>1, <1>7, DeliveredOneMore
    <3> QED
      BY <2>4, <3>1, <3>3, <3>4, <3>5, <1>1 DEF Keeps
  <2> QED
    BY <2>3, <2>4
<1> QED
  BY <1>12, <1>16, <1>17 DEF ChatInv

\* A clock that can follow does, and stays in its range.
LEMMA ClockFollows ==
  ASSUME ChatInv, NEW p \in Peers, NEW m \in Texts, IsMessage(m), follows(p, m)
  PROVE  /\ nextClock(p, m.clock) \in Clocks
         /\ chatClock[p] <= nextClock(p, m.clock) /\ m.clock <= nextClock(p, m.clock)
<1>1. chatClock[p] \in 0..MaxLogicalClock /\ m.clock \in 0..MaxLogicalClock /\ MaxLogicalClock \in Nat
  BY ChatAssumption, TextFacts DEF ChatInv, ChatTyped, Clocks
<1> DEFINE x == chatClock[p]
           y == m.clock
<1>2. Later(x, y) # MaxLogicalClock
  BY DEF follows
<1> HIDE DEF x, y
<1>3. Later(x, y) + 1 \in Clocks /\ x <= Later(x, y) + 1 /\ y <= Later(x, y) + 1
  BY <1>1, <1>2 DEF x, y, Later, Clocks
<1> QED
  BY <1>3 DEF nextClock, x, y

\* A message that is answered has been shown, now or before.
LEMMA AnsweredIsShown ==
  ASSUME ChatInv, NEW c \in Channels, handleChatMessage(c)
  PROVE  LET m == Head(chatChannel[c]) IN
         /\ m \in Texts /\ m.id <= chatSent
         /\ chatShownTo' \in [Ids -> SUBSET Peers]
         /\ Grows(chatShownTo, chatShownTo', chatSent)
         /\ (~seen(c[2], m) /\ follows(c[2], m)) => c[2] \in chatShownTo'[m.id]
         /\ answered(c[2], m) => c[2] \in chatShownTo'[m.id]
<1> DEFINE p == c[2]
           m == Head(chatChannel[c])
<1>1. /\ p \in Peers /\ chatChannel[c] # <<>> /\ chatSent \in Nat
      /\ chatChannel[c] \in Seq(Texts) /\ chatQueue[c] \in Seq(Texts)
      /\ Carries(c[1], chatChannel[c], chatQueue[c], chatSent, chatShownTo)
  BY ChannelEnds, ChatAssumption DEF handleChatMessage, ChatInv, ChatTyped, OnItsWay
<1>2. m \in Texts /\ m.id <= chatSent /\ m.id \in Ids
  BY <1>1, CarriesTaken, TextFacts
<1>3. IF ~seen(p, m) /\ follows(p, m)
      THEN chatShownTo' = [chatShownTo EXCEPT ![m.id] = chatShownTo[m.id] \cup {p}]
      ELSE chatShownTo' = chatShownTo
  BY DEF handleChatMessage
<1>4. chatShownTo \in [Ids -> SUBSET Peers]
  BY DEF ChatInv, ChatTyped
<1>5. seen(p, m) => p \in chatShownTo[m.id]
  <2> SUFFICES ASSUME NEW i \in DOMAIN chatSeen[p], chatSeen[p][i] = m.id
               PROVE  p \in chatShownTo[m.id]
    BY DEF seen, Content
  <2>1. chatSeen[p] \in Seq(Ids) /\ ShownWhatItKnows(p, chatSeen[p], chatSent, chatShownTo)
    BY <1>1 DEF ChatInv, ChatTyped, Keeps
  <2>2. i \in 1..Len(chatSeen[p])
    BY <2>1, Elements
  <2> QED
    BY <2>1, <2>2 DEF ShownWhatItKnows
<1> HIDE DEF m, p
<1>6. chatShownTo' \in [Ids -> SUBSET Peers] /\ Grows(chatShownTo, chatShownTo', chatSent)
  BY <1>1, <1>2, <1>3, <1>4 DEF Grows
<1>7. (~seen(p, m) /\ follows(p, m)) => p \in chatShownTo'[m.id]
  BY <1>2, <1>3, <1>4
<1>8. answered(p, m) => p \in chatShownTo'[m.id]
  BY <1>3, <1>5, <1>7 DEF answered
<1> QED
  BY <1>2, <1>6, <1>7, <1>8 DEF m, p

LEMMA HandleChatMessageStep ==
  ASSUME ChatInv, NEW c \in Channels, handleChatMessage(c)
  PROVE  ChatInv'
<1> DEFINE p == c[2]
           m == Head(chatChannel[c])
           back == <<c[2], c[1], c[3]>>
           e == Shown(m.id, c[1], m.clock)
           k2 == nextClock(p, m.clock)
           n == chatSent
<1>1. /\ c[1] \in Peers /\ p \in Peers /\ c[1] # p
      /\ back \in Channels /\ back # c /\ back[1] = p
  BY ChannelEnds
<1>2. /\ m \in Texts /\ m.id <= n
      /\ chatShownTo' \in [Ids -> SUBSET Peers]
      /\ Grows(chatShownTo, chatShownTo', n)
      /\ (~seen(p, m) /\ follows(p, m)) => p \in chatShownTo'[m.id]
      /\ answered(p, m) => p \in chatShownTo'[m.id]
  BY AnsweredIsShown
<1>3. /\ IsMessage(m) /\ m.id \in Ids /\ m.clock \in Clocks /\ n \in Nat /\ chatSent' = n
      /\ chatChannel[c] # <<>>
  BY <1>2, TextFacts, ChatAssumption DEF handleChatMessage, IsMessage, ChatInv, ChatTyped
<1>4. /\ chatQueue \in [Channels -> Seq(Texts)] /\ chatChannel \in [Channels -> Seq(Texts)]
      /\ \A o \in Channels : Carries(o[1], chatChannel[o], chatQueue[o], n, chatShownTo)
  BY DEF ChatInv, ChatTyped, OnItsWay
<1>5. \A o \in Channels : Carries(o[1], chatChannel[o], chatQueue[o], n, chatShownTo')
  BY <1>2, <1>3, <1>4, CarriesStill
<1>6. Ack(m.id) \in Texts /\ (answered(p, m) => Fits(Ack(m.id), p, n, n, chatShownTo'))
  BY <1>2, <1>3 DEF Ack, Texts, Fits, IsMessage, IsAck
<1>7. /\ Tail(chatChannel[c]) \in Seq(Texts)
      /\ Carries(c[1], Tail(chatChannel[c]), chatQueue[c], n, chatShownTo')
  BY <1>3, <1>4, <1>5, CarriesTaken
<1> DEFINE q == IF answered(p, m) /\ direct(back)
                THEN Append(chatChannel[back], Ack(m.id)) ELSE chatChannel[back]
           r == IF answered(p, m) /\ ~direct(back) /\ accepts(back)
                THEN Append(chatQueue[back], Ack(m.id)) ELSE chatQueue[back]
<1>8. /\ chatChannel' = [[chatChannel EXCEPT ![c] = Tail(chatChannel[c])] EXCEPT ![back] = q]
      /\ chatQueue' = [chatQueue EXCEPT ![back] = r]
  BY <1>1, <1>4 DEF handleChatMessage
<1>9. q \in Seq(Texts) /\ r \in Seq(Texts) /\ Carries(p, q, r, n, chatShownTo')
  <2>1. /\ chatChannel[back] \in Seq(Texts) /\ chatQueue[back] \in Seq(Texts)
        /\ Carries(p, chatChannel[back], chatQueue[back], n, chatShownTo')
    BY <1>1, <1>4, <1>5
  <2>2. CASE answered(p, m) /\ direct(back)
    <3>1. chatQueue[back] = <<>> /\ q = Append(chatChannel[back], Ack(m.id)) /\ r = chatQueue[back]
      BY <2>2 DEF direct
    <3>2. Carries(p, chatChannel[back], <<>>, n, chatShownTo') /\ Fits(Ack(m.id), p, n, n, chatShownTo')
      BY <2>1, <2>2, <3>1, <1>6
    <3>3. n <= n
      BY <1>3
    <3>4. /\ Append(chatChannel[back], Ack(m.id)) \in Seq(Texts)
          /\ Carries(p, Append(chatChannel[back], Ack(m.id)), <<>>, n, chatShownTo')
      BY <1>3, <1>6, <2>1, <3>2, <3>3, CarriesMore
    <3> QED
      BY <3>1, <3>4, <2>1
  <2>3. CASE answered(p, m) /\ ~direct(back) /\ accepts(back)
    <3>1. q = chatChannel[back] /\ r = Append(chatQueue[back], Ack(m.id)) /\ n <= n
      BY <2>3, <1>3
    <3>2. /\ Append(chatQueue[back], Ack(m.id)) \in Seq(Texts)
          /\ Carries(p, chatChannel[back], Append(chatQueue[back], Ack(m.id)), n, chatShownTo')
      BY <1>3, <1>6, <2>1, <2>3, <3>1, CarriesQueued
    <3> QED
      BY <3>1, <3>2, <2>1
  <2>4. CASE ~(answered(p, m) /\ direct(back)) /\ ~(answered(p, m) /\ ~direct(back) /\ accepts(back))
    BY <2>1, <2>4
  <2> QED
    BY <2>2, <2>3, <2>4
<1>10. IF ~seen(p, m) /\ follows(p, m)
       THEN /\ chatClock' = [chatClock EXCEPT ![p] = k2]
            /\ chatSeen' = [chatSeen EXCEPT ![p] = remember(chatSeen[p], m.id)]
            /\ chatLog' = [chatLog EXCEPT ![p] = Append(chatLog[p], e)]
       ELSE chatClock' = chatClock /\ chatSeen' = chatSeen /\ chatLog' = chatLog
  BY DEF handleChatMessage
<1>11. chatDelivery' = chatDelivery
  BY DEF handleChatMessage
<1>12. e \in Entries /\ e.id = m.id /\ e.from = c[1] /\ e.clock = m.clock
  BY <1>1, <1>3 DEF Entries, Shown
<1>13. follows(p, m) => k2 \in Clocks /\ chatClock[p] <= k2 /\ m.clock <= k2
  BY <1>1, <1>2, <1>3, ClockFollows
<1>14. \A x \in Clocks : x \in Nat
  BY ChatAssumption DEF Clocks
<1> HIDE DEF q, r, n, e, k2, back, m, p
<1>15. chatQueue' \in [Channels -> Seq(Texts)] /\ chatChannel' \in [Channels -> Seq(Texts)]
  BY <1>1, <1>4, <1>7, <1>8, <1>9
<1>16. ASSUME NEW o \in Channels
       PROVE  OnItsWay(o)'
  <2>1. CASE o = c
    BY <2>1, <1>1, <1>3, <1>4, <1>7, <1>8 DEF OnItsWay
  <2>2. CASE o = back
    BY <2>2, <1>1, <1>3, <1>4, <1>8, <1>9 DEF OnItsWay
  <2>3. CASE o # c /\ o # back
    BY <2>3, <1>3, <1>4, <1>5, <1>8 DEF OnItsWay
  <2> QED
    BY <2>1, <2>2, <2>3
<1>17. /\ chatClock \in [Peers -> Clocks] /\ chatSeen \in [Peers -> Seq(Ids)]
       /\ chatDelivery \in [Peers -> Seq(Tracks)] /\ chatLog \in [Peers -> Seq(Entries)]
       /\ chatSent \in 0..MaxMessages
  BY DEF ChatInv, ChatTyped
<1>18. remember(chatSeen[p], m.id) \in Seq(Ids) /\ Append(chatLog[p], e) \in Seq(Entries)
  BY <1>1, <1>3, <1>12, <1>17, Remembering, More
<1>19. ChatTyped'
  <2>1. chatClock' \in [Peers -> Clocks] /\ chatSeen' \in [Peers -> Seq(Ids)] /\ chatLog' \in [Peers -> Seq(Entries)]
    BY <1>10, <1>13, <1>17, <1>18
  <2>2. chatSent' \in 0..MaxMessages
    BY <1>3, <1>17 DEF n
  <2> QED
    BY <2>1, <2>2, <1>2, <1>11, <1>15, <1>17 DEF ChatTyped
<1>20. ASSUME NEW o \in Peers
       PROVE  Keeps(o)'
  <2>1. /\ chatSeen[o] \in Seq(Ids) /\ chatDelivery[o] \in Seq(Tracks) /\ chatLog[o] \in Seq(Entries)
        /\ Memory(o, chatClock[o], chatSeen[o], chatLog[o])
        /\ ShownWhatItKnows(o, chatSeen[o], n, chatShownTo)
        /\ Delivered(chatDelivery[o], n, chatShownTo)
    BY <1>17 DEF ChatInv, Keeps, n
  <2>2. n <= n
    BY <1>3
  <2>3. ShownWhatItKnows(o, chatSeen[o], n, chatShownTo') /\ Delivered(chatDelivery[o], n, chatShownTo')
    BY <2>1, <2>2, <1>2, <1>3, KnowsStill, DeliveredStill
  <2>4. CASE ~(o = p /\ ~seen(p, m) /\ follows(p, m))
    <3>1. chatClock'[o] = chatClock[o] /\ chatSeen'[o] = chatSeen[o] /\ chatLog'[o] = chatLog[o]
      BY <2>4, <1>10, <1>17
    <3> QED
      BY <3>1, <2>1, <2>3, <1>3, <1>11 DEF Keeps
  <2>5. CASE o = p /\ ~seen(p, m) /\ follows(p, m)
    <3>1. /\ chatClock'[p] = k2 /\ chatSeen'[p] = remember(chatSeen[p], m.id)
          /\ chatLog'[p] = Append(chatLog[p], e)
      BY <2>5, <1>10, <1>17
    <3>2. m.id \notin Content(chatSeen[p])
      BY <2>5 DEF seen
    <3>3. /\ Memory(p, chatClock[p], chatSeen[p], chatLog[p])
          /\ chatSeen[p] \in Seq(Ids) /\ chatLog[p] \in Seq(Entries)
          /\ chatClock[p] \in Nat /\ k2 \in Nat /\ chatClock[p] <= k2 /\ m.clock <= k2
      BY <2>1, <2>5, <1>13, <1>14, <1>17
    <3>4. Memory(p, k2, remember(chatSeen[p], m.id), Append(chatLog[p], e))
      BY <3>2, <3>3, <1>1, <1>12, MemoryGrows
    <3>5. ShownWhatItKnows(p, remember(chatSeen[p], m.id), n, chatShownTo')
      BY <2>3, <2>5, <3>3, <1>1, <1>2, <1>3, KnowsOneMore
    <3> QED
      BY <2>3, <2>5, <3>1, <3>4, <3>5, <1>3, <1>11 DEF Keeps
  <2> QED
    BY <2>4, <2>5
<1> QED
  BY <1>16, <1>19, <1>20 DEF ChatInv

LEMMA Acknowledging ==
  ASSUME NEW s \in Seq(Tracks), NEW id \in Ids, NEW w \in Peers, NEW n, NEW shown,
         Delivered(s, n, shown), w \in shown[id]
  PROVE  acknowledge(s, id, w) \in Seq(Tracks) /\ Delivered(acknowledge(s, id, w), n, shown)
<1> DEFINE r == acknowledge(s, id, w)
<1>1. Len(s) \in Nat /\ DOMAIN s = 1..Len(s) /\ \A i \in 1..Len(s) : s[i] \in Tracks
  BY Elements
<1>2. \A i \in 1..Len(s) :
        r[i] = IF s[i].id = id /\ w \in s[i].expected
               THEN [s[i] EXCEPT !.acknowledged = s[i].acknowledged \cup {w}] ELSE s[i]
  BY <1>1 DEF acknowledge
<1>3. \A i \in 1..Len(s) :
        /\ r[i] \in Tracks /\ r[i].id = s[i].id /\ r[i].expected = s[i].expected
        /\ r[i].acknowledged = s[i].acknowledged
           \/ (r[i].acknowledged = s[i].acknowledged \cup {w} /\ s[i].id = id /\ w \in s[i].expected)
  <2> SUFFICES ASSUME NEW i \in 1..Len(s)
               PROVE  /\ r[i] \in Tracks /\ r[i].id = s[i].id /\ r[i].expected = s[i].expected
                      /\ r[i].acknowledged = s[i].acknowledged
                         \/ (r[i].acknowledged = s[i].acknowledged \cup {w} /\ s[i].id = id /\ w \in s[i].expected)
    OBVIOUS
  <2>1. s[i] \in Tracks
    BY <1>1
  <2>2. CASE s[i].id = id /\ w \in s[i].expected
    <3>1. r[i] = [s[i] EXCEPT !.acknowledged = s[i].acknowledged \cup {w}]
      BY <1>2, <2>2
    <3> HIDE DEF r
    <3> QED
      BY <2>1, <2>2, <3>1 DEF Tracks
  <2>3. CASE ~(s[i].id = id /\ w \in s[i].expected)
    <3>1. r[i] = s[i]
      BY <1>2, <2>3
    <3> HIDE DEF r
    <3> QED
      BY <2>1, <3>1
  <2> QED
    BY <2>2, <2>3
<1>4. r = [i \in 1..Len(s) |-> r[i]]
  BY <1>1 DEF acknowledge
<1> HIDE DEF r
<1>5. r \in [1..Len(s) -> Tracks]
  BY <1>3, <1>4
<1>6. r \in Seq(Tracks) /\ Len(r) = Len(s)
  BY <1>1, <1>5
<1>7. Delivered(r, n, shown)
  <2> SUFFICES ASSUME NEW i \in 1..Len(s)
               PROVE  r[i].id <= n /\ r[i].acknowledged \subseteq (r[i].expected \cap shown[r[i].id])
    BY <1>6 DEF Delivered
  <2>1. s[i].id <= n /\ s[i].acknowledged \subseteq (s[i].expected \cap shown[s[i].id])
    BY DEF Delivered
  <2> QED
    BY <2>1, <1>3
<1> QED
  BY <1>6, <1>7 DEF r

LEMMA HandleChatAckStep ==
  ASSUME ChatInv, NEW c \in Channels, handleChatAck(c)
  PROVE  ChatInv'
<1> DEFINE p == c[2]
           m == Head(chatChannel[c])
<1>1. c[1] \in Peers /\ p \in Peers
  BY ChannelEnds
<1>2. /\ chatQueue \in [Channels -> Seq(Texts)] /\ chatChannel \in [Channels -> Seq(Texts)]
      /\ chatDelivery \in [Peers -> Seq(Tracks)] /\ chatSent \in Nat
      /\ \A o \in Channels : Carries(o[1], chatChannel[o], chatQueue[o], chatSent, chatShownTo)
  BY ChatAssumption DEF ChatInv, ChatTyped, OnItsWay
<1>3. chatChannel[c] # <<>> /\ IsAck(m)
  BY DEF handleChatAck, IsAck
<1>4. /\ Tail(chatChannel[c]) \in Seq(Texts)
      /\ Carries(c[1], Tail(chatChannel[c]), chatQueue[c], chatSent, chatShownTo)
      /\ m.id \in Ids /\ c[1] \in chatShownTo[m.id]
  BY <1>2, <1>3, CarriesTaken, TextFacts
<1>5. Delivered(chatDelivery[p], chatSent, chatShownTo)
  BY <1>1 DEF ChatInv, Keeps
<1> DEFINE d == acknowledge(chatDelivery[p], m.id, c[1])
<1>6. d \in Seq(Tracks) /\ Delivered(d, chatSent, chatShownTo)
  BY <1>1, <1>2, <1>4, <1>5, Acknowledging
<1>7. /\ chatDelivery' = [chatDelivery EXCEPT ![p] = d]
      /\ chatChannel' = [chatChannel EXCEPT ![c] = Tail(chatChannel[c])]
      /\ UNCHANGED <<chatClock, chatSeen, chatQueue, chatLog, chatShownTo, chatSent>>
  BY DEF handleChatAck
<1> HIDE DEF d, m, p
<1>8. ChatTyped'
  <2>1. ChatTyped
    BY DEF ChatInv
  <2> QED
    BY <2>1, <1>1, <1>2, <1>4, <1>6, <1>7 DEF ChatTyped
<1>9. ASSUME NEW o \in Peers
      PROVE  Keeps(o)'
  <2>1. Keeps(o)
    BY DEF ChatInv
  <2>2. Delivered(chatDelivery'[o], chatSent, chatShownTo)
    BY <2>1, <1>1, <1>2, <1>6, <1>7 DEF Keeps
  <2> QED
    BY <2>1, <2>2, <1>7 DEF Keeps
<1>10. ASSUME NEW o \in Channels
       PROVE  OnItsWay(o)'
  BY <1>2, <1>4, <1>7 DEF OnItsWay
<1> QED
  BY <1>8, <1>9, <1>10 DEF ChatInv

LEMMA FlushStep ==
  ASSUME ChatInv, NEW c \in Channels, flushTextQueue(c)
  PROVE  ChatInv'
<1> DEFINE q == Append(chatChannel[c], Head(chatQueue[c]))
           r == Tail(chatQueue[c])
<1>1. /\ chatQueue \in [Channels -> Seq(Texts)] /\ chatChannel \in [Channels -> Seq(Texts)]
      /\ chatSent \in Nat
      /\ \A o \in Channels : Carries(o[1], chatChannel[o], chatQueue[o], chatSent, chatShownTo)
  BY ChatAssumption DEF ChatInv, ChatTyped, OnItsWay
<1>2. q \in Seq(Texts) /\ r \in Seq(Texts) /\ Carries(c[1], q, r, chatSent, chatShownTo)
  BY <1>1, CarriesFlushed DEF flushTextQueue
<1>3. /\ chatChannel' = [chatChannel EXCEPT ![c] = q] /\ chatQueue' = [chatQueue EXCEPT ![c] = r]
      /\ UNCHANGED <<chatClock, chatSeen, chatDelivery, chatLog, chatShownTo, chatSent>>
  BY DEF flushTextQueue
<1> HIDE DEF q, r
<1>4. ChatTyped'
  <2>1. ChatTyped
    BY DEF ChatInv
  <2> QED
    BY <2>1, <1>1, <1>2, <1>3 DEF ChatTyped
<1>5. ASSUME NEW o \in Channels
      PROVE  OnItsWay(o)'
  BY <1>1, <1>2, <1>3 DEF OnItsWay
<1>6. ASSUME NEW o \in Peers
      PROVE  Keeps(o)'
  BY <1>3 DEF ChatInv, Keeps
<1> QED
  BY <1>4, <1>5, <1>6 DEF ChatInv

\* With a link everything on it is lost.
LEMMA LinksGo ==
  ASSUME ChatInv, NEW links, Without(links), UNCHANGED <<chatShownTo, chatSent>>
  PROVE  /\ chatQueue' \in [Channels -> Seq(Texts)]
         /\ chatChannel' \in [Channels -> Seq(Texts)]
         /\ \A c \in Channels : OnItsWay(c)'
<1>1. ASSUME NEW c \in Channels
      PROVE  chatQueue'[c] \in Seq(Texts) /\ chatChannel'[c] \in Seq(Texts) /\ OnItsWay(c)'
  <2>1. /\ chatQueue[c] \in Seq(Texts) /\ chatChannel[c] \in Seq(Texts)
        /\ Carries(c[1], chatChannel[c], chatQueue[c], chatSent, chatShownTo)
    BY DEF ChatInv, ChatTyped, OnItsWay
  <2>2. CASE pairOf(c) \in links
    <3>1. chatQueue'[c] = <<>> /\ chatChannel'[c] = <<>>
      BY <2>2 DEF Without
    <3> QED
      BY <3>1, CarriesNothing DEF OnItsWay
  <2>3. CASE pairOf(c) \notin links
    <3>1. chatQueue'[c] = chatQueue[c] /\ chatChannel'[c] = chatChannel[c]
      BY <2>3 DEF Without
    <3> QED
      BY <3>1, <2>1 DEF OnItsWay
  <2> QED
    BY <2>2, <2>3
<1>2. chatQueue' = [c \in Channels |-> chatQueue'[c]] /\ chatChannel' = [c \in Channels |-> chatChannel'[c]]
  BY DEF Without
<1> QED
  BY <1>1, <1>2

LEMMA LinkOpensStep ==
  ASSUME ChatInv, LinkOpens
  PROVE  ChatInv'
  BY DEF ChatInv, ChatTyped, Keeps, OnItsWay, LinkOpens

LEMMA LinkClosesStep ==
  ASSUME ChatInv, LinkCloses
  PROVE  ChatInv'
<1>1. UNCHANGED <<chatClock, chatSeen, chatDelivery, chatLog, chatShownTo, chatSent>>
  BY DEF LinkCloses
<1>2. PICK o \in chatOpen : Without({o})
  BY DEF LinkCloses
<1>3. /\ chatQueue' \in [Channels -> Seq(Texts)] /\ chatChannel' \in [Channels -> Seq(Texts)]
      /\ \A c \in Channels : OnItsWay(c)'
  BY <1>1, <1>2, LinksGo
<1>4. ChatTyped' /\ \A p \in Peers : Keeps(p)'
  BY <1>1, <1>3 DEF ChatInv, ChatTyped, Keeps
<1> QED
  BY <1>3, <1>4 DEF ChatInv

\* A peer that remembers nothing has nothing to keep.
LEMMA KeepsNothing ==
  ASSUME NEW p, NEW n, NEW shown
  PROVE  /\ <<>> \in Seq(Ids) /\ <<>> \in Seq(Tracks) /\ <<>> \in Seq(Entries) /\ 0 \in Clocks
         /\ Memory(p, 0, <<>>, <<>>) /\ ShownWhatItKnows(p, <<>>, n, shown) /\ Delivered(<<>>, n, shown)
<1>1. <<>> \in Seq(Ids) /\ <<>> \in Seq(Tracks) /\ <<>> \in Seq(Entries) /\ Len(<<>>) = 0 /\ 1..0 = {}
  OBVIOUS
<1>2. 0 \in Clocks /\ 0 <= MaxSeenMessages
  BY ChatAssumption DEF Clocks
<1> QED
  BY <1>1, <1>2 DEF Memory, Window, FarApart, CaughtUp, AnswersOf, ShownWhatItKnows, Delivered

LEMMA ClearStep ==
  ASSUME ChatInv, NEW p \in Peers, clear(p)
  PROVE  ChatInv'
<1>1. /\ chatClock' = [chatClock EXCEPT ![p] = 0] /\ chatSeen' = [chatSeen EXCEPT ![p] = <<>>]
      /\ chatDelivery' = [chatDelivery EXCEPT ![p] = <<>>] /\ chatLog' = [chatLog EXCEPT ![p] = <<>>]
      /\ UNCHANGED <<chatShownTo, chatSent>>
  BY DEF clear
<1>2. /\ chatQueue' \in [Channels -> Seq(Texts)] /\ chatChannel' \in [Channels -> Seq(Texts)]
      /\ \A c \in Channels : OnItsWay(c)'
  BY <1>1, LinksGo DEF clear
<1>3. ChatTyped
  BY DEF ChatInv
<1>4. ChatTyped'
  BY <1>1, <1>2, <1>3, KeepsNothing DEF ChatTyped
<1>5. ASSUME NEW o \in Peers
      PROVE  Keeps(o)'
  <2>1. Keeps(o)
    BY DEF ChatInv
  <2>2. CASE o = p
    <3>1. chatClock'[o] = 0 /\ chatSeen'[o] = <<>> /\ chatDelivery'[o] = <<>> /\ chatLog'[o] = <<>>
      BY <2>2, <1>1, <1>3 DEF ChatTyped
    <3> QED
      BY <3>1, KeepsNothing DEF Keeps
  <2>3. CASE o # p
    <3>1. /\ chatClock'[o] = chatClock[o] /\ chatSeen'[o] = chatSeen[o]
          /\ chatDelivery'[o] = chatDelivery[o] /\ chatLog'[o] = chatLog[o]
      BY <2>3, <1>1, <1>3 DEF ChatTyped
    <3> QED
      BY <3>1, <2>1, <1>1 DEF Keeps
  <2> QED
    BY <2>2, <2>3
<1> QED
  BY <1>2, <1>4, <1>5 DEF ChatInv

LEMMA ChatInvInit == ChatInit => ChatInv
<1> SUFFICES ASSUME ChatInit
             PROVE  ChatInv
  OBVIOUS
<1>1. ChatTyped
  BY KeepsNothing, CarriesNothing, ChatAssumption DEF ChatInit, ChatTyped, Ids
<1>2. ASSUME NEW p \in Peers
      PROVE  Keeps(p)
  BY KeepsNothing DEF ChatInit, Keeps
<1>3. ASSUME NEW c \in Channels
      PROVE  OnItsWay(c)
  BY CarriesNothing DEF ChatInit, OnItsWay
<1> QED
  BY <1>1, <1>2, <1>3 DEF ChatInv

LEMMA ChatInvStep == ChatInv /\ [ChatNext]_chatVars => ChatInv'
<1> SUFFICES ASSUME ChatInv, [ChatNext]_chatVars
             PROVE  ChatInv'
  OBVIOUS
<1>1. ASSUME NEW p \in Peers, sendMessage(p)
      PROVE  ChatInv'
  BY <1>1, SendMessageStep
<1>2. ASSUME NEW p \in Peers, clear(p)
      PROVE  ChatInv'
  BY <1>2, ClearStep
<1>3. ASSUME NEW c \in Channels, handleChatMessage(c)
      PROVE  ChatInv'
  BY <1>3, HandleChatMessageStep
<1>4. ASSUME NEW c \in Channels, handleChatAck(c)
      PROVE  ChatInv'
  BY <1>4, HandleChatAckStep
<1>5. ASSUME NEW c \in Channels, flushTextQueue(c)
      PROVE  ChatInv'
  BY <1>5, FlushStep
<1>6. CASE LinkOpens
  BY <1>6, LinkOpensStep
<1>7. CASE LinkCloses
  BY <1>7, LinkClosesStep
<1>8. CASE UNCHANGED chatVars
  BY <1>8 DEF chatVars, ChatInv, ChatTyped, Keeps, OnItsWay
<1> QED
  BY <1>1, <1>2, <1>3, <1>4, <1>5, <1>6, <1>7, <1>8 DEF ChatNext

\* Every peer remembers the end of what it showed and its clock has caught up
\* with it; what is on its way over a link keeps its order and acknowledges only
\* what was shown (rememberMessage, receiveMessage, sendText, acknowledge).
THEOREM ChatInvariant == ChatSpec => []ChatInv
<1> QED
  BY ChatInvInit, ChatInvStep, PTL DEF ChatSpec

\* However many links join two peers, whatever is lost with them and however
\* often anybody leaves: a message is shown twice only when it was long
\* forgotten, answers come later than what they answer, what counts as delivered
\* was shown, and a link keeps the order of what is written (MessagingService,
\* DeliveryTracker, PeerConnection::sendText and flushTextQueue).
THEOREM ChatAlwaysTrue == ChatSpec => []ChatIsTrue
<1>1. ChatInv => ChatIsTrue
  <2> SUFFICES ASSUME ChatInv
               PROVE  ChatIsTrue
    OBVIOUS
  <2>1. ASSUME NEW p \in Peers
        PROVE  /\ chatLog[p] \in Seq(Entries) /\ chatDelivery[p] \in Seq(Tracks)
               /\ DOMAIN chatLog[p] = 1..Len(chatLog[p])
               /\ DOMAIN chatDelivery[p] = 1..Len(chatDelivery[p])
               /\ Keeps(p)
    BY <2>1, Elements DEF ChatInv, ChatTyped
  <2>2. SeenOnce
    BY <2>1 DEF SeenOnce, Keeps, Memory, FarApart
  <2>3. AnswersComeLater
    BY <2>1 DEF AnswersComeLater, Keeps, Memory, AnswersOf
  <2>4. DeliveredIsShown
    BY <2>1 DEF DeliveredIsShown, Keeps, Delivered
  <2>5. WrittenInOrder
    <3> SUFFICES ASSUME NEW c \in Channels,
                        NEW i \in DOMAIN (chatChannel[c] \o chatQueue[c]),
                        NEW j \in DOMAIN (chatChannel[c] \o chatQueue[c]), i < j,
                        (chatChannel[c] \o chatQueue[c])[i].kind = "message",
                        (chatChannel[c] \o chatQueue[c])[j].kind = "message"
                 PROVE  (chatChannel[c] \o chatQueue[c])[i].id < (chatChannel[c] \o chatQueue[c])[j].id
      BY DEF WrittenInOrder
    <3> DEFINE q == chatChannel[c]
               r == chatQueue[c]
               wire == q \o r
    <3>1. q \in Seq(Texts) /\ r \in Seq(Texts) /\ Carries(c[1], q, r, chatSent, chatShownTo)
      BY DEF ChatInv, ChatTyped, OnItsWay
    <3>2. /\ Len(q) \in Nat /\ Len(r) \in Nat /\ DOMAIN wire = 1..Len(q) + Len(r)
          /\ \A k \in 1..Len(q) : wire[k] = q[k]
          /\ \A k \in Len(q) + 1..Len(q) + Len(r) : wire[k] = r[k - Len(q)]
      <4>1. /\ wire \in Seq(Texts) /\ Len(wire) = Len(q) + Len(r)
            /\ \A k \in 1..Len(q) + Len(r) : wire[k] = IF k <= Len(q) THEN q[k] ELSE r[k - Len(q)]
        BY <3>1, ConcatProperties
      <4>2. Len(q) \in Nat /\ Len(r) \in Nat
        BY <3>1, Elements
      <4> HIDE DEF q, r, wire
      <4>3. DOMAIN wire = 1..Len(q) + Len(r)
        BY <4>1, Elements
      <4>4. \A k \in 1..Len(q) : wire[k] = q[k]
        BY <4>1, <4>2
      <4>5. \A k \in Len(q) + 1..Len(q) + Len(r) : wire[k] = r[k - Len(q)]
        BY <4>1, <4>2
      <4> QED
        BY <4>2, <4>3, <4>4, <4>5
    <3>3. i < j /\ IsMessage(wire[i]) /\ IsMessage(wire[j]) /\ i \in DOMAIN wire /\ j \in DOMAIN wire
      BY DEF IsMessage
    <3> SUFFICES wire[i].id < wire[j].id
      OBVIOUS
    <3> HIDE DEF q, r, wire
    <3>4. CASE i \in 1..Len(q) /\ j \in 1..Len(q)
      BY <3>1, <3>2, <3>3, <3>4 DEF Carries, Rising
    <3>5. CASE i \in 1..Len(q) /\ j \notin 1..Len(q)
      <4>1. j - Len(q) \in 1..Len(r) /\ wire[j] = r[j - Len(q)] /\ wire[i] = q[i]
        BY <3>2, <3>3, <3>5
      <4> QED
        BY <4>1, <3>1, <3>3, <3>5 DEF Carries, AllBefore
    <3>6. CASE i \notin 1..Len(q)
      <4>1. /\ i - Len(q) \in 1..Len(r) /\ wire[i] = r[i - Len(q)]
            /\ j - Len(q) \in 1..Len(r) /\ wire[j] = r[j - Len(q)]
            /\ i - Len(q) < j - Len(q)
        <5>1. i \in Nat /\ j \in Nat /\ i \in Len(q) + 1..Len(q) + Len(r) /\ j \in Len(q) + 1..Len(q) + Len(r)
          BY <3>2, <3>3, <3>6
        <5>2. wire[i] = r[i - Len(q)] /\ wire[j] = r[j - Len(q)]
          BY <3>2, <5>1
        <5>3. i - Len(q) \in 1..Len(r) /\ j - Len(q) \in 1..Len(r) /\ i - Len(q) < j - Len(q)
          BY <3>2, <3>3, <5>1
        <5> QED
          BY <5>2, <5>3
      <4> QED
        BY <4>1, <3>1, <3>3 DEF Carries, Rising
    <3> QED
      BY <3>4, <3>5, <3>6
  <2> QED
    BY <2>2, <2>3, <2>4, <2>5 DEF ChatIsTrue
<1> QED
  BY <1>1, ChatInvariant, PTL

-----------------------------------------------------------------------------
(* Updates: the invariant.                                                 *)

\* What the worker has found or has waiting, so that v can be downloaded, or be
\* installed.
Downloadable(v) ==
  updateKind = "managed" /\ updateFound = v /\ v # NoVersion /\ updatePending = NoVersion
Installable(v)  == updateKind = "managed" /\ Chosen = v

\* What the user is shown can be had.
Stands(stage, v, portable) ==
  /\ stage = "available" => /\ portable \/ Downloadable(v)
                            /\ updateKind = "standalone" => Precedes(Installed, v)
  /\ stage = "downloading" => Downloadable(v)
  /\ stage \in {"ready", "applying"} => Installable(v)

\* The state during a task, and the answers that end it.
During(stage, task) ==
  \/ stage = "checking" /\ task = "check"
  \/ stage = "downloading" /\ task = "download"
  \/ stage = "applying" /\ task = "install"

Finds(a) ==
  /\ a.kind = "found"
  /\ a.state \in {"idle", "available", "ready"} /\ Stands(a.state, a.version, a.portable)

Ends(stage, a) ==
  \/ stage \in {"checking", "downloading", "applying"} /\ a.kind = "failed"
  \/ stage = "checking" /\ Finds(a)
  \/ stage = "downloading" /\ a.kind = "downloaded"
  \/ stage = "applying" /\ a.kind = "restart"

IsProgress(a) == a.kind = "progress"

AtRest ==
  /\ updateTasks = <<>> /\ updateRunning = "none" /\ updatePosted = <<>>
  /\ updateState \notin {"checking", "downloading"}

Waits ==
  /\ updateRunning = "none" /\ updatePosted = <<>>
  /\ \E task : updateTasks = <<task>> /\ During(updateState, task)

Works ==
  /\ updateTasks = <<>> /\ During(updateState, updateRunning)
  /\ \A i \in 1..Len(updatePosted) : IsProgress(updatePosted[i])

HasAnswered ==
  /\ updateTasks = <<>> /\ updateRunning = "none"
  /\ Len(updatePosted) # 0 /\ Ends(updateState, updatePosted[Len(updatePosted)])
  /\ \A i \in 1..Len(updatePosted) - 1 : IsProgress(updatePosted[i])

UpdateInv ==
  /\ updateKind \in {"managed", "portable", "standalone"}
  /\ \E S : updatePosted \in Seq(S)
  /\ AtRest \/ Waits \/ Works \/ HasAnswered
  /\ Stands(updateState, updateVersion, updatePortable)
  /\ updateOnDisk # NoVersion => updateKind = "managed"
  /\ \A a \in updateApplied : a.version = a.shown

-----------------------------------------------------------------------------
(* Updates: comparing versions.                                            *)

\* The smallest of some numbers is the one they all are at least.
LEMMA Smallest ==
  ASSUME NEW D \in SUBSET Nat, NEW n \in D, \A m \in D : n <= m
  PROVE  (CHOOSE m \in D : \A k \in D : m <= k) = n
<1> DEFINE c == CHOOSE m \in D : \A k \in D : m <= k
<1>1. c \in D /\ \A k \in D : c <= k
  OBVIOUS
<1> HIDE DEF c
<1>2. c = n
  BY <1>1
<1> QED
  BY <1>2 DEF c

\* A part is not before itself.
LEMMA PartsDiffer ==
  ASSUME NEW x \in Part, NEW y \in Part, partBefore(x, y)
  PROVE  x # y /\ (IF x.numeric = y.numeric THEN x.rank < y.rank ELSE x.numeric)
<1>1. x.rank \in Nat /\ ~(x.rank < x.rank)
  BY DEF Part
<1>2. CASE x.numeric /\ ~y.numeric
  <2>1. x # y
    BY <1>2, Zenon
  <2>2. (x.numeric = y.numeric) => x.rank < y.rank
    BY <1>2, Zenon
  <2> QED
    BY <1>2, <2>1, <2>2, Zenon
<1>3. CASE x.numeric = y.numeric /\ x.rank < y.rank
  <2>1. x # y
    BY <1>1, <1>3, Zenon
  <2> QED
    BY <1>3, <2>1, Zenon
<1> QED
  BY <1>2, <1>3, Zenon DEF partBefore

\* compareSemVer goes by SemVer's order where it can read both versions.
LEMMA ComparingIsRight ==
  ASSUME NEW v \in Version, NEW w \in Version, parseSemVer(v), parseSemVer(w), before(v, w)
  PROVE  Precedes(v, w)
<1>1. ASSUME NEW u \in Version, parseSemVer(u)
      PROVE  u.pre # <<>> /\ prerelease(u) = u.pre
  <2>1. SUFFICES ASSUME u.pre = <<>>
                 PROVE  FALSE
    BY DEF prerelease
  <2>2. prerelease(u) = <<Blank>>
    BY <2>1 DEF prerelease
  <2>3. 1 \in DOMAIN <<Blank>> /\ <<Blank>>[1] = Blank
    OBVIOUS
  <2> QED
    BY <1>1, <2>2, <2>3 DEF parseSemVer
<1> DEFINE s == v.pre
           t == w.pre
           D == {i \in DOMAIN s \cap DOMAIN t : s[i] # t[i]}
<1>2. /\ s \in Seq(Part) /\ t \in Seq(Part) /\ s # <<>> /\ t # <<>>
      /\ prerelease(v) = s /\ prerelease(w) = t
  BY <1>1 DEF Version
<1>3. DOMAIN s = 1..Len(s) /\ DOMAIN t = 1..Len(t) /\ Len(s) \in Nat /\ Len(t) \in Nat
  BY <1>2, Elements
<1>4. D \in SUBSET Nat
  BY <1>3
<1>5. CASE v.core < w.core
  BY <1>5 DEF Precedes
<1>6. ASSUME v.core = w.core, NEW i \in DOMAIN s \cap DOMAIN t,
             \A j \in 1..(i - 1) : s[j] = t[j], partBefore(s[i], t[i])
      PROVE  Precedes(v, w)
  <2>1. s[i] \in Part /\ t[i] \in Part
    BY <1>2, <1>3, Elements
  <2>2. s[i] # t[i] /\ (IF s[i].numeric = t[i].numeric THEN s[i].rank < t[i].rank ELSE s[i].numeric)
    BY <2>1, <1>6, PartsDiffer
  <2>3. i \in D
    BY <2>2
  <2>4. \A m \in D : i <= m
    <3> SUFFICES ASSUME NEW m \in D, ~(i <= m)
                 PROVE  FALSE
      OBVIOUS
    <3>1. m \in 1..(i - 1) /\ s[m] # t[m]
      BY <1>3
    <3> QED
      BY <3>1, <1>6
  <2>5. (CHOOSE m \in D : \A k \in D : m <= k) = i
    BY <1>4, <2>3, <2>4, Smallest
  <2>6. D # {}
    BY <2>3
  <2> QED
    BY <1>6, <2>2, <2>5, <2>6 DEF Precedes
<1>7. ASSUME v.core = w.core, Len(s) < Len(t), \A j \in DOMAIN s : s[j] = t[j]
      PROVE  Precedes(v, w)
  <2>1. D = {}
    BY <1>7
  <2> QED
    BY <1>7, <2>1 DEF Precedes
<1>8. \/ v.core < w.core
      \/ /\ v.core = w.core
         /\ \/ \E i \in DOMAIN s \cap DOMAIN t :
                 (\A j \in 1..(i - 1) : s[j] = t[j]) /\ partBefore(s[i], t[i])
            \/ Len(s) < Len(t) /\ \A j \in DOMAIN s : s[j] = t[j]
  BY <1>2 DEF before
<1> QED
  BY <1>5, <1>6, <1>7, <1>8

-----------------------------------------------------------------------------
(* The steps of an update.                                                 *)

\* Something is posted to the main thread.
LEMMA Posting ==
  ASSUME NEW S, NEW q \in Seq(S), NEW a
  PROVE  /\ \E R : Append(q, a) \in Seq(R)
         /\ Len(q) \in Nat /\ Len(Append(q, a)) # 0
         /\ Append(q, a)[Len(Append(q, a))] = a
         /\ \A i \in 1..Len(Append(q, a)) - 1 : i \in 1..Len(q) /\ Append(q, a)[i] = q[i]
         /\ \A i \in 1..Len(Append(q, a)) : (i \in 1..Len(q) /\ Append(q, a)[i] = q[i]) \/ Append(q, a)[i] = a
<1>1. q \in Seq(S \cup {a}) /\ a \in S \cup {a}
  OBVIOUS
<1>2. /\ Append(q, a) \in Seq(S \cup {a})
      /\ Len(q) \in Nat /\ Len(Append(q, a)) = Len(q) + 1
      /\ \A i \in 1..Len(q) : Append(q, a)[i] = q[i]
      /\ Append(q, a)[Len(q) + 1] = a
  BY <1>1, More
<1> DEFINE m == Append(q, a)
<1> HIDE DEF m
<1>3. Len(m) # 0 /\ Len(m) - 1 = Len(q) /\ Len(q) + 1 = Len(m)
  BY <1>2 DEF m
<1>4. \A i \in 1..Len(m) : i \in 1..Len(q) \/ i = Len(q) + 1
  BY <1>2, <1>3
<1> QED
  BY <1>2, <1>3, <1>4 DEF m

\* What is read of a running task's posts is progress; what is last is its answer.
LEMMA PostedFirst ==
  ASSUME UpdateInv, updatePosted # <<>>
  PROVE  /\ \E S : Tail(updatePosted) \in Seq(S)
         /\ \/ /\ Works /\ IsProgress(Head(updatePosted))
               /\ \A i \in 1..Len(Tail(updatePosted)) : IsProgress(Tail(updatePosted)[i])
            \/ /\ HasAnswered /\ IsProgress(Head(updatePosted))
               /\ Len(Tail(updatePosted)) # 0
               /\ Ends(updateState, Tail(updatePosted)[Len(Tail(updatePosted))])
               /\ \A i \in 1..Len(Tail(updatePosted)) - 1 : IsProgress(Tail(updatePosted)[i])
            \/ HasAnswered /\ Ends(updateState, Head(updatePosted)) /\ Tail(updatePosted) = <<>>
<1> DEFINE q == updatePosted
           t == Tail(updatePosted)
<1>1. PICK S : q \in Seq(S)
  BY DEF UpdateInv
<1>2. /\ t \in Seq(S) /\ Head(q) = q[1]
      /\ Len(q) \in Nat \ {0} /\ Len(t) = Len(q) - 1
      /\ \A i \in 1..Len(q) - 1 : t[i] = q[i + 1]
  BY <1>1, Less
<1>3. Works \/ HasAnswered
  BY DEF UpdateInv, AtRest, Waits
<1> HIDE DEF q, t
<1>4. CASE Works
  <2>1. \A i \in 1..Len(q) : IsProgress(q[i])
    BY <1>4 DEF Works, q
  <2>2. 1 \in 1..Len(q) /\ \A i \in 1..Len(t) : i + 1 \in 1..Len(q) /\ t[i] = q[i + 1]
    BY <1>2
  <2>3. IsProgress(Head(q)) /\ \A i \in 1..Len(t) : IsProgress(t[i])
    BY <2>1, <2>2, <1>2
  <2> QED
    BY <1>2, <1>4, <2>3 DEF q, t
<1>5. CASE HasAnswered
  <2>1. Ends(updateState, q[Len(q)]) /\ \A i \in 1..Len(q) - 1 : IsProgress(q[i])
    BY <1>5 DEF HasAnswered, q
  <2>2. CASE Len(q) = 1
    <3>1. t = <<>> /\ Ends(updateState, Head(q))
      BY <1>2, <2>1, <2>2
    <3> QED
      BY <1>2, <1>5, <3>1 DEF q, t
  <2>3. CASE Len(q) # 1
    <3>1. /\ 1 \in 1..Len(q) - 1 /\ Len(t) # 0 /\ Len(t) \in 1..Len(q) - 1 /\ Len(t) + 1 = Len(q)
          /\ \A i \in 1..Len(t) - 1 : i \in 1..Len(q) - 1 /\ i + 1 \in 1..Len(q) - 1
      BY <1>2, <2>3
    <3>2. t[Len(t)] = q[Len(q)] /\ \A i \in 1..Len(t) - 1 : IsProgress(t[i])
      BY <1>2, <2>1, <3>1
    <3> QED
      BY <1>2, <1>5, <2>1, <3>1, <3>2 DEF q, t
  <2> QED
    BY <2>2, <2>3
<1> QED
  BY <1>3, <1>4, <1>5

\* A call of the user that starts a task finds the worker at rest.
LEMMA TaskStarts ==
  ASSUME UpdateInv, updateState \notin {"checking", "downloading", "applying"}, NEW task,
         enqueue(task), During(updateState', task),
         UNCHANGED <<updateRunning, updateFound, updatePending, outsideVars, updatePosted>>,
         Stands(updateState, updateVersion, updatePortable)'
  PROVE  UpdateInv'
<1>1. AtRest
  BY DEF UpdateInv, Waits, Works, HasAnswered, During, Ends
<1>2. updateTasks' = <<task>>
  BY <1>1 DEF AtRest, enqueue
<1>3. Waits'
  BY <1>1, <1>2 DEF AtRest, Waits
<1> QED
  BY <1>3 DEF UpdateInv, outsideVars

LEMMA CheckForUpdatesStep == ASSUME UpdateInv, checkForUpdates PROVE UpdateInv'
<1>1. /\ updateState' = "checking" /\ enqueue("check") /\ updateState \notin {"checking", "downloading", "applying"}
      /\ UNCHANGED <<updateRunning, updateFound, updatePending, outsideVars, updatePosted>>
  BY DEF checkForUpdates, setState, mayCheck
<1>2. During(updateState', "check") /\ Stands(updateState, updateVersion, updatePortable)'
  BY <1>1 DEF During, Stands
<1> QED
  BY <1>1, <1>2, TaskStarts

LEMMA DownloadUpdateStep == ASSUME UpdateInv, downloadUpdate PROVE UpdateInv'
<1>1. /\ updateState = "available" /\ ~updatePortable
      /\ updateState' = "downloading" /\ updateVersion' = updateVersion /\ enqueue("download")
      /\ UNCHANGED <<updateRunning, updateFound, updatePending, outsideVars, updatePosted>>
  BY DEF downloadUpdate, setState
<1>2. Downloadable(updateVersion)
  BY <1>1 DEF UpdateInv, Stands
<1>3. Downloadable(updateVersion)'
  BY <1>1, <1>2 DEF Downloadable, outsideVars
<1>4. During(updateState', "download") /\ Stands(updateState, updateVersion, updatePortable)'
  BY <1>1, <1>3 DEF During, Stands
<1> QED
  BY <1>1, <1>4, TaskStarts

LEMMA InstallUpdateStep == ASSUME UpdateInv, installUpdate PROVE UpdateInv'
<1>1. /\ updateState = "ready"
      /\ updateState' = "applying" /\ updateVersion' = updateVersion /\ enqueue("install")
      /\ UNCHANGED <<updateRunning, updateFound, updatePending, outsideVars, updatePosted>>
  BY DEF installUpdate, setState
<1>2. Installable(updateVersion)
  BY <1>1 DEF UpdateInv, Stands
<1>3. Installable(updateVersion)'
  BY <1>1, <1>2 DEF Installable, Chosen, outsideVars
<1>4. During(updateState', "install") /\ Stands(updateState, updateVersion, updatePortable)'
  BY <1>1, <1>3 DEF During, Stands
<1> QED
  BY <1>1, <1>4, TaskStarts

LEMMA RestartStep == ASSUME UpdateInv, Restart PROVE UpdateInv'
<1>1. /\ updateState' = "idle" /\ updateTasks' = <<>> /\ updateRunning' = "none" /\ updatePosted' = <<>>
      /\ UNCHANGED outsideVars
  BY DEF Restart, setState
<1>2. AtRest' /\ Stands(updateState, updateVersion, updatePortable)'
  BY <1>1 DEF AtRest, Stands
<1>3. \E S : updatePosted' \in Seq(S)
  BY <1>1, CarriesNothing
<1> QED
  BY <1>1, <1>2, <1>3 DEF UpdateInv, outsideVars

LEMMA RunPostedStep == ASSUME UpdateInv, RunPosted PROVE UpdateInv'
<1> DEFINE a == Head(updatePosted)
           t == Tail(updatePosted)
<1>1. /\ updatePosted # <<>> /\ updatePosted' = t
      /\ UNCHANGED <<updateTasks, updateRunning, updateFound, updatePending, outsideVars>>
  BY DEF RunPosted, workerVars
<1>2. PICK S : t \in Seq(S)
  BY <1>1, PostedFirst
<1>3. ASSUME NEW v, NEW s
      PROVE  (Downloadable(v)' <=> Downloadable(v)) /\ (Installable(v)' <=> Installable(v))
  BY <1>1 DEF Downloadable, Installable, Chosen, outsideVars
<1>4. /\ updateKind' = updateKind
      /\ (AtRest \/ Waits \/ Works \/ HasAnswered)' /\ Stands(updateState, updateVersion, updatePortable)'
      => UpdateInv'
  BY <1>1, <1>2 DEF UpdateInv, outsideVars
<1>5. updateKind' = updateKind
  BY <1>1 DEF outsideVars
<1>6. CASE IsProgress(a)
  <2>1. UNCHANGED <<updateState, updateVersion, updatePortable>>
    BY <1>6 DEF RunPosted, IsProgress
  <2>2. Stands(updateState, updateVersion, updatePortable)'
    BY <2>1, <1>3, <1>5 DEF UpdateInv, Stands
  <2>3. CASE Works /\ \A i \in 1..Len(t) : IsProgress(t[i])
    BY <2>1, <2>2, <2>3, <1>1, <1>4, <1>5 DEF Works
  <2>4. CASE /\ HasAnswered /\ Len(t) # 0 /\ Ends(updateState, t[Len(t)])
             /\ \A i \in 1..Len(t) - 1 : IsProgress(t[i])
    <3>1. PICK b : b = t[Len(t)]
      OBVIOUS
    <3>2. Ends(updateState, b)
      BY <2>4, <3>1
    <3>3. Ends(updateState, b)'
      BY <2>1, <3>2, <1>3, <1>5 DEF Ends, Finds, Stands
    <3>4. updatePosted'[Len(updatePosted')] = b
      BY <3>1, <1>1
    <3>5. HasAnswered'
      BY <2>4, <3>3, <3>4, <1>1 DEF HasAnswered
    <3> QED
      BY <2>2, <3>5, <1>4, <1>5
  <2>5. ~Ends(updateState, a)
    BY <1>6 DEF IsProgress, Ends, Finds
  <2> QED
    BY <2>3, <2>4, <2>5, <1>1, PostedFirst
<1>7. CASE ~IsProgress(a)
  <2>1. HasAnswered /\ Ends(updateState, a) /\ t = <<>>
    BY <1>1, <1>7, PostedFirst
  <2>2. CASE a.kind = "found"
    <3>1. Stands(a.state, a.version, a.portable) /\ a.state \in {"idle", "available", "ready"}
      BY <2>1, <2>2 DEF Ends, Finds
    <3>2. setState(a.state, a.version, a.portable)
      BY <2>2 DEF RunPosted
    <3>3. AtRest'
      BY <2>1, <3>1, <3>2, <1>1 DEF AtRest, HasAnswered, setState
    <3>4. Stands(updateState, updateVersion, updatePortable)'
      BY <3>1, <3>2, <1>3, <1>5 DEF Stands, setState
    <3> QED
      BY <3>3, <3>4, <1>4, <1>5
  <2>3. CASE a.kind = "downloaded"
    <3>1. updateState' = "ready" /\ updateVersion' = updateVersion
      BY <2>3 DEF RunPosted, setState
    <3>2. updateState = "downloading"
      BY <2>1, <2>3 DEF Ends, Finds
    <3>3. Downloadable(updateVersion)
      BY <3>2 DEF UpdateInv, Stands
    <3>4. Installable(updateVersion)
      BY <3>3 DEF Downloadable, Installable, Chosen
    <3>5. Installable(updateVersion)'
      BY <3>1, <3>4, <1>1 DEF Installable, Chosen, outsideVars
    <3>6. AtRest' /\ Stands(updateState, updateVersion, updatePortable)'
      BY <2>1, <3>1, <3>5, <1>1 DEF AtRest, HasAnswered, Stands
    <3> QED
      BY <3>6, <1>4, <1>5
  <2>4. CASE a.kind = "failed"
    <3>1. updateState' = "error"
      BY <2>4 DEF RunPosted, setState
    <3>2. AtRest' /\ Stands(updateState, updateVersion, updatePortable)'
      BY <2>1, <3>1, <1>1 DEF AtRest, HasAnswered, Stands
    <3> QED
      BY <3>2, <1>4, <1>5
  <2>5. CASE a.kind = "restart"
    <3>1. UNCHANGED <<updateState, updateVersion, updatePortable>> /\ updateState = "applying"
      BY <2>1, <2>5 DEF RunPosted, shownVars, Ends, Finds
    <3>2. AtRest'
      BY <2>1, <3>1, <1>1 DEF AtRest, HasAnswered
    <3>3. Stands(updateState, updateVersion, updatePortable)'
      BY <3>1, <1>3, <1>5 DEF UpdateInv, Stands
    <3> QED
      BY <3>2, <3>3, <1>4, <1>5
  <2> QED
    BY <2>1, <2>2, <2>3, <2>4, <2>5 DEF Ends, Finds
<1> QED
  BY <1>6, <1>7

LEMMA TakeTaskStep == ASSUME UpdateInv, TakeTask PROVE UpdateInv'
<1>1. Waits
  BY DEF UpdateInv, AtRest, Works, HasAnswered, TakeTask
<1>2. PICK task : updateTasks = <<task>> /\ During(updateState, task)
  BY <1>1 DEF Waits
<1>3. updateTasks' = <<>> /\ updateRunning' = task
  BY <1>2 DEF TakeTask
<1>4. UNCHANGED <<updateState, updateVersion, updatePortable, updateFound, updatePending, outsideVars, updatePosted>>
  BY DEF TakeTask, shownVars
<1>5. Works'
  <2>1. Len(<<>>) = 0 /\ 1..0 = {}
    OBVIOUS
  <2> QED
    BY <1>1, <1>2, <1>3, <1>4, <2>1 DEF Waits, Works
<1>6. Stands(updateState, updateVersion, updatePortable)'
  BY <1>4 DEF UpdateInv, Stands, Downloadable, Installable, Chosen, outsideVars
<1> QED
  BY <1>4, <1>5, <1>6 DEF UpdateInv, outsideVars

\* A task ends with the answer a.
LEMMA TaskEnds ==
  ASSUME UpdateInv, updateRunning # "none", Done, NEW a, post(a), Ends(updateState, a)',
         Stands(updateState, updateVersion, updatePortable)',
         updateOnDisk' # NoVersion => updateKind = "managed",
         \A b \in updateApplied' : b.version = b.shown
  PROVE  UpdateInv'
<1> DEFINE q == updatePosted
<1>1. Works
  BY DEF UpdateInv, AtRest, Waits, HasAnswered
<1>2. PICK S : q \in Seq(S)
  BY DEF UpdateInv
<1>3. updatePosted' = Append(q, a) /\ updateRunning' = "none" /\ updateTasks' = <<>>
      /\ updateState' = updateState /\ updateKind' = updateKind
  BY <1>1 DEF post, Done, Works, shownVars
<1>4. /\ \E R : Append(q, a) \in Seq(R)
      /\ Len(Append(q, a)) # 0
      /\ Append(q, a)[Len(Append(q, a))] = a
      /\ \A i \in 1..Len(Append(q, a)) - 1 : i \in 1..Len(q) /\ Append(q, a)[i] = q[i]
  BY <1>2, Posting, ZenonT(30)
<1>5. \A i \in 1..Len(Append(q, a)) - 1 : IsProgress(Append(q, a)[i])
  BY <1>1, <1>4 DEF Works
<1>6. HasAnswered'
  BY <1>3, <1>4, <1>5 DEF HasAnswered
<1> QED
  BY <1>3, <1>4, <1>6 DEF UpdateInv

\* While a check is under way nothing is claimed.
LEMMA DuringCheck ==
  ASSUME UpdateInv, updateRunning = "check", UNCHANGED shownVars
  PROVE  /\ updateState = "checking" /\ updateState' = "checking"
         /\ Stands(updateState, updateVersion, updatePortable)'
<1>1. Works
  BY DEF UpdateInv, AtRest, Waits, HasAnswered
<1>2. updateState = "checking" /\ updateState' = "checking"
  BY <1>1 DEF Works, During, shownVars
<1> QED
  BY <1>2 DEF Stands

LEMMA TaskFailsStep == ASSUME UpdateInv, TaskFails PROVE UpdateInv'
<1>1. /\ updateRunning # "none" /\ Done
      /\ UNCHANGED <<updateState, updateVersion, updatePortable, updateKind>>
      /\ UNCHANGED <<updateFound, updatePending, updateOnDisk, updateApplied>>
  BY DEF TaskFails, Done, shownVars
<1>2. PICK a : post(a) /\ a.kind = "failed"
  BY DEF TaskFails, Failed
<1>3. Works
  BY <1>1 DEF UpdateInv, AtRest, Waits, HasAnswered
<1>4. Ends(updateState, a)'
  BY <1>1, <1>2, <1>3 DEF Works, During, Ends
<1>5. Stands(updateState, updateVersion, updatePortable)'
  BY <1>1 DEF UpdateInv, Stands, Downloadable, Installable, Chosen
<1>6. updateOnDisk' # NoVersion => updateKind = "managed"
  BY <1>1 DEF UpdateInv
<1>7. \A b \in updateApplied' : b.version = b.shown
  BY <1>1 DEF UpdateInv
<1> QED
  BY <1>1, <1>2, <1>4, <1>5, <1>6, <1>7, TaskEnds

LEMMA CheckStandaloneStep == ASSUME UpdateInv, CheckStandalone PROVE UpdateInv'
<1>1. /\ updateRunning = "check" /\ updateKind = "standalone" /\ Done
      /\ UNCHANGED <<shownVars, updateKind, updateFound, updatePending, updateOnDisk, updateApplied>>
  BY DEF CheckStandalone, Done
<1>2. /\ updateState = "checking" /\ updateState' = "checking"
      /\ Stands(updateState, updateVersion, updatePortable)'
  BY <1>1, DuringCheck
<1>3. PICK latest \in Versions :
        post(IF ~parseSemVer(latest) \/ ~parseSemVer(Installed) THEN Failed("version", FALSE)
             ELSE IF before(Installed, latest) THEN Found("available", latest, TRUE)
             ELSE Found("idle", NoVersion, TRUE))
  BY DEF CheckStandalone
<1>4. latest \in Version /\ Installed \in Version
  BY UpdateAssumption
<1>5. PICK a : post(a) /\ Ends(updateState, a)'
  <2>1. CASE ~parseSemVer(latest) \/ ~parseSemVer(Installed)
    <3>1. post(Failed("version", FALSE))
      BY <1>3, <2>1
    <3>2. Ends(updateState, Failed("version", FALSE))'
      BY <1>2 DEF Ends, Failed
    <3> QED
      BY <3>1, <3>2
  <2>2. CASE parseSemVer(latest) /\ parseSemVer(Installed) /\ before(Installed, latest)
    <3>1. post(Found("available", latest, TRUE))
      BY <1>3, <2>2
    <3>2. Precedes(Installed, latest)
      BY <1>4, <2>2, ComparingIsRight
    <3>3. PICK a : a = Found("available", latest, TRUE)
      OBVIOUS
    <3>4. a.kind = "found" /\ a.state = "available" /\ a.version = latest /\ a.portable
      BY <3>3 DEF Found
    <3>5. Ends(updateState, a)'
      BY <1>2, <3>2, <3>4 DEF Ends, Finds, Stands
    <3> QED
      BY <3>1, <3>3, <3>5
  <2>3. CASE parseSemVer(latest) /\ parseSemVer(Installed) /\ ~before(Installed, latest)
    <3>1. post(Found("idle", NoVersion, TRUE))
      BY <1>3, <2>3
    <3>2. PICK a : a = Found("idle", NoVersion, TRUE)
      OBVIOUS
    <3>3. a.kind = "found" /\ a.state = "idle"
      BY <3>2 DEF Found
    <3>4. Ends(updateState, a)'
      BY <1>2, <3>3 DEF Ends, Finds, Stands
    <3> QED
      BY <3>1, <3>2, <3>4
  <2> QED
    BY <2>1, <2>2, <2>3
<1>6. updateRunning # "none"
  BY <1>1
<1>7. updateOnDisk' # NoVersion => updateKind = "managed"
  BY <1>1 DEF UpdateInv
<1>8. \A b \in updateApplied' : b.version = b.shown
  BY <1>1 DEF UpdateInv
<1> QED
  BY <1>1, <1>2, <1>5, <1>6, <1>7, <1>8, TaskEnds

LEMMA CheckPendingStep == ASSUME UpdateInv, CheckPending PROVE UpdateInv'
<1>1. /\ updateRunning = "check" /\ updateOnDisk # NoVersion /\ Done
      /\ updatePending' = updateOnDisk
      /\ UNCHANGED <<shownVars, updateKind, updateOnDisk, updateApplied>>
  BY DEF CheckPending, Done
<1>2. /\ updateState = "checking" /\ updateState' = "checking"
      /\ Stands(updateState, updateVersion, updatePortable)'
  BY <1>1, DuringCheck
<1>3. PICK a : post(a) /\ a.kind = "found" /\ a.state = "ready" /\ a.version = updateOnDisk
  BY DEF CheckPending, Found
<1>4. updateKind = "managed"
  BY <1>1 DEF UpdateInv
<1>5. Installable(a.version)'
  BY <1>1, <1>3, <1>4 DEF Installable, Chosen
<1>6. Ends(updateState, a)'
  BY <1>2, <1>3, <1>5 DEF Ends, Finds, Stands
<1>7. updateRunning # "none"
  BY <1>1
<1>8. \A b \in updateApplied' : b.version = b.shown
  BY <1>1 DEF UpdateInv
<1> QED
  BY <1>1, <1>2, <1>3, <1>4, <1>6, <1>7, <1>8, TaskEnds

LEMMA CheckManagedStep == ASSUME UpdateInv, CheckManaged PROVE UpdateInv'
<1>1. /\ updateRunning = "check" /\ updateKind # "standalone" /\ Done
      /\ updateOnDisk' = NoVersion
      /\ UNCHANGED <<shownVars, updateKind, updateApplied>>
  BY DEF CheckManaged, Done
<1>2. /\ updateState = "checking" /\ updateState' = "checking"
      /\ Stands(updateState, updateVersion, updatePortable)'
  BY <1>1, DuringCheck
<1>3. PICK version \in Versions \cup {NoVersion} :
        /\ updateFound' = version /\ updatePending' = NoVersion
        /\ post(IF version = NoVersion THEN Found("idle", NoVersion, updateKind = "portable")
                ELSE Found("available", version, updateKind = "portable"))
  BY DEF CheckManaged, foundInstead
<1>4. updateKind \in {"managed", "portable"}
  BY <1>1 DEF UpdateInv
<1>5. PICK a : post(a) /\ Ends(updateState, a)'
  <2>1. CASE version = NoVersion
    <3>1. PICK a : post(a) /\ a.kind = "found" /\ a.state = "idle"
      BY <1>3, <2>1 DEF Found
    <3>2. Ends(updateState, a)'
      BY <1>2, <3>1 DEF Ends, Finds, Stands
    <3> QED
      BY <3>1, <3>2
  <2>2. CASE version # NoVersion
    <3>1. PICK a : post(a) /\ a = Found("available", version, updateKind = "portable")
      BY <1>3, <2>2
    <3>2. a.kind = "found" /\ a.state = "available" /\ a.version = version
      BY <3>1 DEF Found
    <3>3. a.portable \/ updateKind = "managed"
      <4>1. CASE updateKind = "portable"
        BY <3>1, <4>1 DEF Found
      <4>2. CASE updateKind = "managed"
        BY <4>2
      <4> QED
        BY <1>4, <4>1, <4>2
    <3>4. a.portable \/ Downloadable(a.version)'
      BY <1>1, <1>3, <2>2, <3>2, <3>3 DEF Downloadable
    <3>5. Ends(updateState, a)'
      BY <1>1, <1>2, <3>2, <3>4 DEF Ends, Finds, Stands
    <3> QED
      BY <3>1, <3>5
  <2> QED
    BY <2>1, <2>2
<1>6. updateRunning # "none"
  BY <1>1
<1>7. \A b \in updateApplied' : b.version = b.shown
  BY <1>1 DEF UpdateInv
<1> QED
  BY <1>1, <1>2, <1>5, <1>6, <1>7, TaskEnds

LEMMA DownloadGoesOnStep == ASSUME UpdateInv, DownloadGoesOn PROVE UpdateInv'
<1>1. PICK a : updatePosted' = Append(updatePosted, a) /\ IsProgress(a)
  BY DEF DownloadGoesOn, post, Progress, IsProgress
<1>2. UNCHANGED <<updateState, updateVersion, updatePortable, updateTasks, updateRunning, updateFound,
                  updatePending, outsideVars>>
  BY DEF DownloadGoesOn, shownVars, workerVars
<1>3. Works
  BY DEF UpdateInv, AtRest, Waits, HasAnswered, DownloadGoesOn
<1>4. PICK S : updatePosted \in Seq(S)
  BY DEF UpdateInv
<1> DEFINE q == updatePosted
           m == Append(q, a)
<1>5. /\ \E R : m \in Seq(R)
      /\ \A i \in 1..Len(m) : (i \in 1..Len(q) /\ m[i] = q[i]) \/ m[i] = a
  <2> HIDE DEF q
  <2>1. q \in Seq(S)
    BY <1>4 DEF q
  <2>2. \E R : m \in Seq(R)
    BY <2>1, Posting
  <2>3. \A i \in 1..Len(m) : (i \in 1..Len(q) /\ m[i] = q[i]) \/ m[i] = a
    BY <2>1, Posting
  <2> QED
    BY <2>2, <2>3
<1> HIDE DEF m
<1>6. \A i \in 1..Len(m) : IsProgress(m[i])
  BY <1>1, <1>3, <1>5 DEF Works
<1>7. updatePosted' = m
  BY <1>1 DEF m
<1>8. Works'
  BY <1>2, <1>3, <1>6, <1>7 DEF Works
<1>9. Stands(updateState, updateVersion, updatePortable)'
  BY <1>2 DEF UpdateInv, Stands, Downloadable, Installable, Chosen, outsideVars
<1> QED
  BY <1>2, <1>5, <1>7, <1>8, <1>9 DEF UpdateInv, outsideVars

LEMMA DownloadEndsStep == ASSUME UpdateInv, DownloadEnds PROVE UpdateInv'
<1>1. /\ updateRunning = "download" /\ Done
      /\ UNCHANGED <<updateState, updateVersion, updatePortable, updateKind>>
      /\ UNCHANGED <<updateFound, updatePending, updateApplied>>
  BY DEF DownloadEnds, Done, shownVars
<1>2. PICK a : post(a) /\ a.kind = "downloaded"
  BY DEF DownloadEnds, Downloaded
<1>3. Works
  BY <1>1 DEF UpdateInv, AtRest, Waits, HasAnswered
<1>4. updateState = "downloading"
  BY <1>1, <1>3 DEF Works, During
<1>5. Ends(updateState, a)'
  BY <1>1, <1>2, <1>4 DEF Ends
<1>6. Stands(updateState, updateVersion, updatePortable)'
  BY <1>1 DEF UpdateInv, Stands, Downloadable, Installable, Chosen
<1>7. updateKind = "managed"
  BY <1>4 DEF UpdateInv, Stands, Downloadable
<1>8. \A b \in updateApplied' : b.version = b.shown
  BY <1>1 DEF UpdateInv
<1>9. updateRunning # "none"
  BY <1>1
<1> QED
  BY <1>1, <1>2, <1>5, <1>6, <1>7, <1>8, <1>9, TaskEnds

LEMMA InstallStep == ASSUME UpdateInv, Install PROVE UpdateInv'
<1>1. /\ updateRunning = "install" /\ Done
      /\ updateApplied' = updateApplied \cup {[version |-> Chosen, shown |-> updateVersion]}
      /\ UNCHANGED <<updateState, updateVersion, updatePortable, updateKind>>
      /\ UNCHANGED <<updateFound, updatePending, updateOnDisk>>
  BY DEF Install, Done, shownVars
<1>2. PICK a : post(a) /\ a.kind = "restart"
  BY DEF Install, RestartRequested
<1>3. Works
  BY <1>1 DEF UpdateInv, AtRest, Waits, HasAnswered
<1>4. updateState = "applying"
  BY <1>1, <1>3 DEF Works, During
<1>5. Ends(updateState, a)'
  BY <1>1, <1>2, <1>4 DEF Ends
<1>6. Stands(updateState, updateVersion, updatePortable)'
  BY <1>1 DEF UpdateInv, Stands, Downloadable, Installable, Chosen
<1>7. Chosen = updateVersion /\ updateKind = "managed"
  BY <1>4 DEF UpdateInv, Stands, Installable
<1>8. \A b \in updateApplied' : b.version = b.shown
  BY <1>1, <1>7 DEF UpdateInv
<1>9. updateRunning # "none"
  BY <1>1
<1> QED
  BY <1>1, <1>2, <1>5, <1>6, <1>7, <1>8, <1>9, TaskEnds

LEMMA UpdateInvInit == UpdateInit => UpdateInv
<1> SUFFICES ASSUME UpdateInit
             PROVE  UpdateInv
  OBVIOUS
<1>1. AtRest /\ Stands(updateState, updateVersion, updatePortable)
  BY DEF UpdateInit, AtRest, Stands
<1>2. \E S : updatePosted \in Seq(S)
  BY CarriesNothing DEF UpdateInit
<1> QED
  BY <1>1, <1>2 DEF UpdateInit, UpdateInv

LEMMA UpdateInvStep == UpdateInv /\ [UpdateNext]_updateVars => UpdateInv'
<1> SUFFICES ASSUME UpdateInv, [UpdateNext]_updateVars
             PROVE  UpdateInv'
  OBVIOUS
<1>1. CASE checkForUpdates \/ downloadUpdate \/ installUpdate \/ Restart
  BY <1>1, CheckForUpdatesStep, DownloadUpdateStep, InstallUpdateStep, RestartStep
<1>2. CASE RunPosted
  BY <1>2, RunPostedStep
<1>3. CASE TakeTask
  BY <1>3, TakeTaskStep
<1>4. CASE DownloadGoesOn
  BY <1>4, DownloadGoesOnStep
<1>5. CASE WorkerStep
  BY <1>5, TaskFailsStep, CheckStandaloneStep, CheckPendingStep, CheckManagedStep,
     DownloadEndsStep, InstallStep DEF WorkerStep
<1>6. CASE UNCHANGED updateVars
  BY <1>6 DEF updateVars, shownVars, workerVars, outsideVars, UpdateInv, AtRest, Waits, Works,
     HasAnswered, Ends, Finds, Stands, Downloadable, Installable, Chosen
<1> QED
  BY <1>1, <1>2, <1>3, <1>4, <1>5, <1>6 DEF UpdateNext

\* The main thread and the worker are never at two tasks: what is posted belongs
\* to the task the state tells of, and what the user is shown is what the worker
\* has (checkForUpdates, downloadUpdate, installUpdate, run, post).
THEOREM UpdateInvariant == UpdateSpec => []UpdateInv
<1> QED
  BY UpdateInvInit, UpdateInvStep, PTL DEF UpdateSpec

\* Whatever is released, found, pending or downloaded, and whatever fails: what
\* is installed is what the user was shown, no portable copy downloads or
\* installs, and what the ZIP offers comes after what is installed
\* (UpdateService, compareSemVer).
THEOREM UpdateAlwaysAsShown == UpdateSpec => []UpdateIsAsShown
<1>1. UpdateInv => UpdateIsAsShown
  <2> SUFFICES ASSUME UpdateInv
               PROVE  UpdateIsAsShown
    OBVIOUS
  <2>1. ASSUME updateRunning \in {"download", "install"}
        PROVE  updateKind = "managed"
    <3>1. Works
      BY <2>1 DEF UpdateInv, AtRest, Waits, HasAnswered
    <3> QED
      BY <2>1, <3>1 DEF Works, During, UpdateInv, Stands, Downloadable, Installable
  <2>2. (updateKind = "standalone" /\ updateState = "available") => Precedes(Installed, updateVersion)
    BY DEF UpdateInv, Stands
  <2>3. \A a \in updateApplied : a.version = a.shown
    BY DEF UpdateInv
  <2> QED
    BY <2>1, <2>2, <2>3 DEF UpdateIsAsShown
<1> QED
  BY <1>1, UpdateInvariant, PTL


-----------------------------------------------------------------------------
(* Who shares a screen.                                                    *)

Streams == [peer : Sharers, stream : Nat \ {0}]
Notices == [kind : {"Announce", "Stop"}, from : Sharers, to : Sharers, stream : Nat \ {0}]

ShareTyped ==
  /\ shareLocal \in [Sharers -> Nat]
  /\ shareView \in [Sharers -> Streams \cup {Nobody}]
  /\ shareRetired \in [Sharers -> SUBSET Streams]
  /\ sharePeers \in [Sharers -> SUBSET Sharers]
  /\ shareWire \subseteq Notices
  /\ shareStarts \in Nat

\* Nobody hears of its own streams.
NoneFromItself ==
  /\ \A p \in Sharers : p \notin sharePeers[p]
  /\ \A m \in shareWire : m.from # m.to

ShareInv == ShareTyped /\ NoneFromItself /\ OneScreenEach

\* Nobody is no stream.
LEMMA NobodyIsNoStream ==
  /\ Nobody \notin Streams
  /\ Nobody.peer \notin Sharers
  /\ \A m \in Notices : Of(m) \in Streams /\ Of(m).peer = m.from
BY ShareAssumption DEF Nobody, Streams, Notices, Of

\* What a peer sends goes to others, of a stream of its own.
LEMMA SentIsNotice ==
  ASSUME ShareInv, NEW p \in Sharers, NEW kind \in {"Announce", "Stop"}, NEW s \in Nat \ {0}
  PROVE  /\ Sent(kind, p, s) \subseteq Notices
         /\ \A m \in Sent(kind, p, s) : m.from # m.to
<1>1. SUFFICES ASSUME NEW m \in Sent(kind, p, s)
               PROVE  m \in Notices /\ m.from # m.to
  OBVIOUS
<1>2. PICK q \in sharePeers[p] : m = ShareMessage(kind, p, q, s)
  BY DEF Sent
<1>3. q \in Sharers /\ q # p
  BY DEF ShareInv, ShareTyped, NoneFromItself
<1> QED
  BY <1>2, <1>3 DEF ShareMessage, Notices

\* A stream of one's own is not viewed, and there is none when one views.
LEMMA OwnStreams ==
  ASSUME ShareInv, NEW p \in Sharers
  PROVE  /\ Own(p) \subseteq Streams
         /\ shareView[p] \notin Own(p)
         /\ \A m \in shareWire : m.to = p => Of(m) \notin Own(p)
         /\ Stops(p) \subseteq Notices
         /\ \A m \in Stops(p) : m.from # m.to
<1>1. CASE ~sharing(p)
  BY <1>1 DEF Own, Stops
<1>2. CASE sharing(p)
  <2>1. shareLocal[p] \in Nat \ {0} /\ shareView[p] = Nobody
    BY <1>2 DEF ShareInv, ShareTyped, OneScreenEach, sharing, viewing
  <2>2. Own(p) = {[peer |-> p, stream |-> shareLocal[p]]} /\ Stops(p) = Sent("Stop", p, shareLocal[p])
    BY <1>2 DEF Own, Stops
  <2>3. Own(p) \subseteq Streams /\ shareView[p] \notin Own(p)
    BY <2>1, <2>2, NobodyIsNoStream DEF Streams
  <2>4. \A m \in shareWire : m.to = p => Of(m) \notin Own(p)
    BY <2>2 DEF ShareInv, NoneFromItself, Of
  <2> QED
    BY <2>1, <2>2, <2>3, <2>4, SentIsNotice
<1> QED
  BY <1>1, <1>2

\* What one peer, and no other, changes keeps the invariant if it keeps what
\* the invariant says of that peer.
LEMMA OnePeerChanges ==
  ASSUME ShareInv, NEW p \in Sharers, NEW local \in Nat, NEW view \in Streams \cup {Nobody},
         NEW given \in SUBSET Streams,
         shareLocal' = [shareLocal EXCEPT ![p] = local],
         shareView' = [shareView EXCEPT ![p] = view],
         shareRetired' = [shareRetired EXCEPT ![p] = @ \cup given],
         UNCHANGED sharePeers,
         shareStarts' \in Nat,
         shareWire' \subseteq Notices, \A m \in shareWire' : m.from # m.to,
         local = 0 \/ view = Nobody,
         view \notin shareRetired[p] \cup given,
         view = Nobody \/ view.peer \in sharePeers[p]
  PROVE  ShareInv'
<1>1. ShareTyped'
  BY DEF ShareInv, ShareTyped
<1>2. NoneFromItself'
  BY DEF ShareInv, NoneFromItself
<1>3. OneScreenEach'
  <2>1. SUFFICES ASSUME NEW q \in Sharers
                 PROVE  /\ ~(sharing(q) /\ viewing(q))'
                        /\ (shareView[q] \notin shareRetired[q])'
                        /\ (viewing(q) => shareView[q].peer \in sharePeers[q])'
    BY DEF OneScreenEach
  <2>2. CASE q = p
    <3>1. shareLocal'[q] = local /\ shareView'[q] = view /\ shareRetired'[q] = shareRetired[q] \cup given
      BY <2>2 DEF ShareInv, ShareTyped
    <3> QED
      BY <3>1, <2>2 DEF sharing, viewing
  <2>3. CASE q # p
    <3>1. /\ shareLocal'[q] = shareLocal[q] /\ shareView'[q] = shareView[q]
          /\ shareRetired'[q] = shareRetired[q]
      BY <2>3 DEF ShareInv, ShareTyped
    <3> QED
      BY <3>1 DEF ShareInv, OneScreenEach, sharing, viewing
  <2> QED
    BY <2>2, <2>3
<1> QED
  BY <1>1, <1>2, <1>3 DEF ShareInv

\* What happens to messages only.
LEMMA WireChanges ==
  ASSUME ShareInv, UNCHANGED <<shareLocal, shareView, shareRetired, sharePeers, shareStarts>>,
         shareWire' \subseteq Notices, \A m \in shareWire' : m.from # m.to
  PROVE  ShareInv'
<1>1. ShareTyped' /\ NoneFromItself'
  BY DEF ShareInv, ShareTyped, NoneFromItself
<1>2. OneScreenEach'
  BY DEF ShareInv, OneScreenEach, sharing, viewing
<1> QED
  BY <1>1, <1>2 DEF ShareInv

\* What an action leaves alone, as OnePeerChanges says it.
LEMMA AsItWas ==
  ASSUME ShareInv, NEW p \in Sharers
  PROVE  /\ shareLocal = [shareLocal EXCEPT ![p] = shareLocal[p]]
         /\ shareView = [shareView EXCEPT ![p] = shareView[p]]
         /\ shareRetired = [shareRetired EXCEPT ![p] = @ \cup {}]
         /\ shareLocal[p] \in Nat /\ shareView[p] \in Streams \cup {Nobody}
         /\ shareRetired[p] \subseteq Streams
         /\ Nobody \notin shareRetired[p]
         /\ shareView[p] \notin shareRetired[p]
         /\ shareLocal[p] = 0 \/ shareView[p] = Nobody
         /\ shareView[p] = Nobody \/ shareView[p].peer \in sharePeers[p]
         /\ shareWire \subseteq Notices /\ \A m \in shareWire : m.from # m.to
<1>1. /\ shareLocal = [shareLocal EXCEPT ![p] = shareLocal[p]]
      /\ shareView = [shareView EXCEPT ![p] = shareView[p]]
      /\ shareRetired = [shareRetired EXCEPT ![p] = @ \cup {}]
  BY DEF ShareInv, ShareTyped
<1>2. /\ shareLocal[p] \in Nat /\ shareView[p] \in Streams \cup {Nobody}
      /\ shareRetired[p] \subseteq Streams
      /\ shareWire \subseteq Notices
  BY DEF ShareInv, ShareTyped
<1>3. Nobody \notin shareRetired[p]
  BY <1>2, NobodyIsNoStream
<1>4. /\ shareView[p] \notin shareRetired[p]
      /\ shareLocal[p] = 0 \/ shareView[p] = Nobody
      /\ shareView[p] = Nobody \/ shareView[p].peer \in sharePeers[p]
  BY DEF ShareInv, OneScreenEach, sharing, viewing
<1>5. \A m \in shareWire : m.from # m.to
  BY DEF ShareInv, NoneFromItself
<1> QED
  BY <1>1, <1>2, <1>3, <1>4, <1>5

\* A peer starts: it views nothing.
LEMMA StartStep ==
  ASSUME ShareInv, NEW p \in Sharers, start(p)
  PROVE  ShareInv'
<1>1. shareStarts' \in Nat \ {0}
  BY DEF start, ShareInv, ShareTyped
<1>2. shareView[p] = Nobody
  BY DEF start, mayStart, viewing
<1>3. shareWire' \subseteq Notices /\ \A m \in shareWire' : m.from # m.to
  BY <1>1, OwnStreams, SentIsNotice, AsItWas DEF start
<1>4. /\ shareLocal' = [shareLocal EXCEPT ![p] = shareStarts']
      /\ shareRetired' = [shareRetired EXCEPT ![p] = @ \cup Own(p)]
      /\ shareView' = [shareView EXCEPT ![p] = shareView[p]]
      /\ UNCHANGED sharePeers
  BY AsItWas DEF start, retire
<1>5. Own(p) \in SUBSET Streams /\ shareView[p] \notin shareRetired[p] \cup Own(p)
  BY OwnStreams, AsItWas
<1> QED
  BY <1>1, <1>2, <1>3, <1>4, <1>5, AsItWas, OnePeerChanges

\* A peer stops, and gives its stream up.
LEMMA StopStep ==
  ASSUME ShareInv, NEW p \in Sharers, stop(p)
  PROVE  ShareInv'
<1>1. shareWire' \subseteq Notices /\ \A m \in shareWire' : m.from # m.to
  BY OwnStreams, AsItWas DEF stop
<1>2. /\ shareLocal' = [shareLocal EXCEPT ![p] = 0]
      /\ shareRetired' = [shareRetired EXCEPT ![p] = @ \cup Own(p)]
      /\ shareView' = [shareView EXCEPT ![p] = shareView[p]]
      /\ UNCHANGED sharePeers
      /\ shareStarts' \in Nat
  BY AsItWas DEF stop, retire, shareCounts, ShareInv, ShareTyped
<1>3. Own(p) \in SUBSET Streams /\ shareView[p] \notin shareRetired[p] \cup Own(p)
  BY OwnStreams, AsItWas
<1> QED
  BY <1>1, <1>2, <1>3, AsItWas, OnePeerChanges

\* It announces itself again.
LEMMA AnnounceStep ==
  ASSUME ShareInv, NEW p \in Sharers, announce(p)
  PROVE  ShareInv'
<1>1. shareLocal[p] \in Nat \ {0}
  BY AsItWas DEF announce, sharing
<1>2. shareWire' \subseteq Notices /\ \A m \in shareWire' : m.from # m.to
  BY <1>1, SentIsNotice, AsItWas DEF announce
<1> QED
  BY <1>2, WireChanges DEF announce, shareCounts

\* A viewer that hears nothing any more views nothing.
LEMMA UnheardStep ==
  ASSUME ShareInv, NEW p \in Sharers, ViewTimesOut(p) \/ AllLost(p)
  PROVE  ShareInv'
<1>1. ViewGoes(p)
  BY DEF ViewTimesOut, AllLost
<1>2. /\ shareView' = [shareView EXCEPT ![p] = Nobody]
      /\ shareLocal' = shareLocal /\ shareRetired' = shareRetired
      /\ UNCHANGED sharePeers /\ shareWire' = shareWire /\ shareStarts' = shareStarts
  BY <1>1 DEF ViewGoes
<1>3. /\ shareLocal' = [shareLocal EXCEPT ![p] = shareLocal[p]]
      /\ shareRetired' = [shareRetired EXCEPT ![p] = @ \cup {}]
  BY <1>2, AsItWas
<1>4. {} \in SUBSET Streams /\ Nobody \notin shareRetired[p] \cup {}
  BY AsItWas
<1>5. shareWire' \subseteq Notices /\ \A m \in shareWire' : m.from # m.to
  BY <1>2, AsItWas
<1>6. 0 \in Nat /\ Nobody \in Streams \cup {Nobody} /\ shareLocal[p] \in Nat /\ shareStarts' \in Nat
  BY <1>2, AsItWas DEF ShareInv, ShareTyped
<1> QED
  BY <1>2, <1>3, <1>4, <1>5, <1>6, OnePeerChanges

\* A stream that is stopped is not viewed any more.
LEMMA ReceiveStopStep ==
  ASSUME ShareInv, NEW m \in shareWire, receive(m), receiveStop(m), UNCHANGED shareLocal,
         shareWire' = shareWire \ {m}
  PROVE  ShareInv'
<1> DEFINE p == m.to
           view == IF shareView[p] = Of(m) THEN Nobody ELSE shareView[p]
<1>1. p \in Sharers /\ m \in Notices
  BY DEF ShareInv, ShareTyped, Notices
<1>2. Of(m) \in Streams /\ Of(m) # Nobody
  BY <1>1, NobodyIsNoStream
<1>3. /\ shareLocal' = [shareLocal EXCEPT ![p] = shareLocal[p]]
      /\ shareRetired' = [shareRetired EXCEPT ![p] = @ \cup {Of(m)}]
      /\ shareView' = [shareView EXCEPT ![p] = view]
      /\ UNCHANGED sharePeers
      /\ shareStarts' \in Nat
  BY <1>1, AsItWas DEF receiveStop, retire, receive, shareCounts, ShareInv, ShareTyped
<1>4. /\ view \in Streams \cup {Nobody}
      /\ view \notin shareRetired[p] \cup {Of(m)}
      /\ shareLocal[p] = 0 \/ view = Nobody
      /\ view = Nobody \/ view.peer \in sharePeers[p]
  BY <1>1, <1>2, AsItWas
<1>5. shareWire' \subseteq Notices /\ \A n \in shareWire' : n.from # n.to
  BY <1>1, AsItWas
<1>6. {Of(m)} \in SUBSET Streams /\ shareLocal[p] \in Nat
  BY <1>1, <1>2, AsItWas
<1> HIDE DEF view, p
<1> QED
  BY <1>1, <1>3, <1>4, <1>5, <1>6, OnePeerChanges

\* An announcement of a stream that was not given up, by a peer that is connected.
LEMMA ReceiveAnnounceStep ==
  ASSUME ShareInv, NEW m \in shareWire, receive(m), receiveAnnounce(m),
         m.from \in sharePeers[m.to], Of(m) \notin shareRetired[m.to]
  PROVE  ShareInv'
<1> DEFINE p == m.to
           y == yields(p, m.from)
           keeps == sharing(p) /\ ~y
           prefers == viewing(p) /\ shareView[p].peer < m.from
           replaces == ~keeps /\ ~prefers /\ shareView[p] # Of(m)
           local == IF y THEN 0 ELSE shareLocal[p]
           view == IF replaces THEN Of(m) ELSE shareView[p]
           given == (IF y THEN Own(p) ELSE {}) \cup IF replaces /\ viewing(p) THEN {shareView[p]} ELSE {}
<1>1. p \in Sharers /\ m \in Notices
  BY DEF ShareInv, ShareTyped, Notices
<1>2. Of(m) \in Streams /\ Of(m) # Nobody /\ Of(m).peer = m.from
  BY <1>1, NobodyIsNoStream
<1>3. /\ shareLocal' = [shareLocal EXCEPT ![p] = local]
      /\ shareRetired' = [shareRetired EXCEPT ![p] = @ \cup given]
      /\ shareView' = [shareView EXCEPT ![p] = view]
      /\ UNCHANGED sharePeers
      /\ shareStarts' \in Nat
  <2>1. shareRetired' = [shareRetired EXCEPT ![p] = @ \cup given]
    BY DEF receiveAnnounce, retire
  <2>2. shareLocal' = [shareLocal EXCEPT ![p] = local]
    BY <1>1 DEF receiveAnnounce, ShareInv, ShareTyped
  <2>3. shareView' = [shareView EXCEPT ![p] = view]
    BY <1>1 DEF receiveAnnounce, ShareInv, ShareTyped
  <2>4. UNCHANGED sharePeers /\ shareStarts' \in Nat
    BY DEF receive, shareCounts, ShareInv, ShareTyped
  <2> QED
    BY <2>1, <2>2, <2>3, <2>4
<1>4. view \in Streams \cup {Nobody} /\ (view = Nobody \/ view.peer \in sharePeers[p])
  BY <1>1, <1>2, AsItWas
<1>5. local \in Nat /\ (local = 0 \/ view = Nobody)
  <2>1. y => local = 0
    OBVIOUS
  <2>2. CASE ~y /\ sharing(p)
    <3>1. keeps /\ view = shareView[p] /\ local = shareLocal[p] /\ local # 0
      BY <2>2 DEF sharing
    <3> QED
      BY <3>1, <1>1, AsItWas
  <2>3. CASE ~sharing(p)
    <3>1. local = 0
      BY <2>3 DEF sharing
    <3> QED
      BY <3>1
  <2>4. local \in Nat
    BY <1>1, AsItWas
  <2> QED
    BY <2>1, <2>2, <2>3, <2>4
<1>6. given \in SUBSET Streams
  <2>1. viewing(p) => shareView[p] \in Streams
    BY <1>1, AsItWas DEF viewing
  <2> QED
    BY <2>1, <1>1, OwnStreams
<1>7. view \notin shareRetired[p] \cup given
  <2>1. CASE replaces
    BY <2>1, <1>1, OwnStreams
  <2>2. CASE ~replaces
    BY <2>2, <1>1, OwnStreams, AsItWas
  <2> QED
    BY <2>1, <2>2
<1>8. shareWire' \subseteq Notices /\ \A n \in shareWire' : n.from # n.to
  <2>1. \A n \in shareWire' : \/ n \in shareWire
                              \/ keeps /\ n \in Sent("Announce", p, shareLocal[p])
                              \/ n \in Stops(p)
    BY DEF receiveAnnounce
  <2>2. keeps => shareLocal[p] \in Nat \ {0}
    BY <1>1, AsItWas DEF sharing
  <2> HIDE DEF keeps, p
  <2>3. ASSUME NEW n \in shareWire'
        PROVE  n \in Notices /\ n.from # n.to
    BY <2>1, <2>2, <1>1, SentIsNotice, OwnStreams, AsItWas
  <2> QED
    BY <2>3
<1> HIDE DEF view, local, given, p
<1> QED
  BY <1>1, <1>3, <1>4, <1>5, <1>6, <1>7, <1>8, OnePeerChanges

\* A message arrives.
LEMMA ReceiveStep ==
  ASSUME ShareInv, NEW m \in shareWire, receive(m)
  PROVE  ShareInv'
<1>1. CASE m.from \notin sharePeers[m.to] \/ Of(m) \in shareRetired[m.to]
  <2>1. UNCHANGED <<shareLocal, shareView, shareRetired, sharePeers, shareStarts>> /\ shareWire' \subseteq shareWire
    BY <1>1 DEF receive, shareCounts
  <2> QED
    BY <2>1, WireChanges DEF ShareInv, ShareTyped, NoneFromItself
<1>2. CASE m.from \in sharePeers[m.to] /\ Of(m) \notin shareRetired[m.to]
  <2>1. CASE m.kind = "Stop"
    BY <1>2, <2>1, ReceiveStopStep DEF receive
  <2>2. CASE m.kind # "Stop"
    BY <1>2, <2>2, ReceiveAnnounceStep DEF receive
  <2> QED
    BY <2>1, <2>2
<1> QED
  BY <1>1, <1>2

\* Messages are lost, and links fail and return: what is under way gets less.
LEMMA LessUnderWay ==
  ASSUME ShareInv, UNCHANGED <<shareLocal, shareView, shareRetired, sharePeers, shareStarts>>,
         shareWire' \subseteq shareWire
  PROVE  ShareInv'
BY WireChanges DEF ShareInv, ShareTyped, NoneFromItself

LEMMA TroubleSteps ==
  ASSUME ShareInv,
         \/ \E m \in shareWire : Lose(m)
         \/ \E pair \in SharePairs : LinkFails(pair) \/ LinkReturns(pair)
  PROVE  ShareInv'
BY LessUnderWay DEF Lose, LinkFails, LinkReturns, shareCounts, Trouble

\* A peer that is lost takes its stream with it, and the last one one's own.
LEMMA DisconnectedStep ==
  ASSUME ShareInv, NEW p \in Sharers, NEW q \in Sharers, Disconnected(p, q)
  PROVE  ShareInv'
<1>1. ShareTyped'
  <2>1. Own(p) \subseteq Streams
    BY OwnStreams
  <2>2. shareRetired' \in [Sharers -> SUBSET Streams] /\ shareLocal' \in [Sharers -> Nat]
    BY <2>1 DEF Disconnected, retire, ShareInv, ShareTyped
  <2>3. /\ shareView' \in [Sharers -> Streams \cup {Nobody}]
        /\ sharePeers' \in [Sharers -> SUBSET Sharers]
        /\ shareWire' \subseteq Notices /\ shareStarts' \in Nat
    BY DEF Disconnected, shareCounts, ShareInv, ShareTyped
  <2> QED
    BY <2>2, <2>3 DEF ShareTyped
<1>2. NoneFromItself'
  BY DEF Disconnected, ShareInv, ShareTyped, NoneFromItself
<1>3. OneScreenEach'
  <2>1. SUFFICES ASSUME NEW r \in Sharers
                 PROVE  /\ shareLocal'[r] = 0 \/ shareView'[r] = Nobody
                        /\ shareView'[r] \notin shareRetired'[r]
                        /\ shareView'[r] # Nobody => shareView'[r].peer \in sharePeers'[r]
    BY DEF OneScreenEach, sharing, viewing
  <2>2. CASE r # p
    <3>1. /\ shareLocal'[r] = shareLocal[r] /\ shareView'[r] = shareView[r]
          /\ shareRetired'[r] = shareRetired[r] /\ sharePeers'[r] = sharePeers[r]
      BY <2>2 DEF Disconnected, retire, ShareInv, ShareTyped
    <3> QED
      BY <3>1, AsItWas
  <2>3. CASE r = p
    <3>1. /\ shareLocal'[p] \in {0, shareLocal[p]}
          /\ shareView'[p] = IF shareView[p].peer = q THEN Nobody ELSE shareView[p]
          /\ sharePeers'[p] = sharePeers[p] \ {q}
          /\ shareRetired'[p] \subseteq shareRetired[p] \cup Own(p)
      BY DEF Disconnected, retire, ShareInv, ShareTyped
    <3>2. Nobody \notin Own(p)
      BY OwnStreams, NobodyIsNoStream
    <3> QED
      BY <2>3, <3>1, <3>2, AsItWas, OwnStreams
  <2> QED
    BY <2>2, <2>3
<1> QED
  BY <1>1, <1>2, <1>3 DEF ShareInv

\* Whoever leaves shares nothing, views nothing and is connected to nobody.
LEMMA LeavesMeshStep ==
  ASSUME ShareInv, NEW p \in Sharers, leave(p)
  PROVE  ShareInv'
<1>1. ShareTyped'
  <2>1. Own(p) \subseteq Streams /\ Nobody \in Streams \cup {Nobody}
    BY OwnStreams
  <2>2. /\ shareRetired' \in [Sharers -> SUBSET Streams] /\ shareLocal' \in [Sharers -> Nat]
        /\ shareView' \in [Sharers -> Streams \cup {Nobody}]
        /\ sharePeers' \in [Sharers -> SUBSET Sharers]
        /\ shareWire' \subseteq Notices /\ shareStarts' \in Nat
    BY <2>1 DEF leave, retire, ShareInv, ShareTyped
  <2> QED
    BY <2>2 DEF ShareTyped
<1>2. NoneFromItself'
  BY DEF leave, ShareInv, ShareTyped, NoneFromItself
<1>3. OneScreenEach'
  <2>1. SUFFICES ASSUME NEW r \in Sharers
                 PROVE  /\ shareLocal'[r] = 0 \/ shareView'[r] = Nobody
                        /\ shareView'[r] \notin shareRetired'[r]
                        /\ shareView'[r] # Nobody => shareView'[r].peer \in sharePeers'[r]
    BY DEF OneScreenEach, sharing, viewing
  <2>2. CASE r # p
    <3>1. /\ shareLocal'[r] = shareLocal[r] /\ shareView'[r] = shareView[r]
          /\ shareRetired'[r] = shareRetired[r] /\ sharePeers'[r] = sharePeers[r]
      BY <2>2 DEF leave, retire, ShareInv, ShareTyped
    <3> QED
      BY <3>1, AsItWas
  <2>3. CASE r = p
    <3>1. /\ shareLocal'[p] = 0 /\ shareView'[p] = Nobody
          /\ shareRetired'[p] = shareRetired[p] \cup Own(p)
      BY DEF leave, retire, ShareInv, ShareTyped
    <3>2. Nobody \notin Own(p)
      BY OwnStreams, NobodyIsNoStream
    <3> QED
      BY <2>3, <3>1, <3>2, AsItWas
  <2> QED
    BY <2>2, <2>3
<1> QED
  BY <1>1, <1>2, <1>3 DEF ShareInv

\* A peer that is back hears what is shared.
LEMMA ConnectedStep ==
  ASSUME ShareInv, NEW p \in Sharers, NEW q \in Sharers, Connected(p, q)
  PROVE  ShareInv'
<1>1. shareWire' \subseteq Notices /\ \A m \in shareWire' : m.from # m.to
  <2>1. CASE ~sharing(p)
    BY <2>1, AsItWas DEF Connected
  <2>2. CASE sharing(p)
    <3>1. shareLocal[p] \in Nat \ {0}
      BY <2>2, AsItWas DEF sharing
    <3>2. /\ ShareMessage("Announce", p, q, shareLocal[p]) \in Notices
          /\ ShareMessage("Announce", p, q, shareLocal[p]).from # ShareMessage("Announce", p, q, shareLocal[p]).to
      BY <3>1 DEF Connected, ShareMessage, Notices
    <3>3. shareWire' = shareWire \cup (Sent("Announce", p, shareLocal[p])
                         \cup {ShareMessage("Announce", p, q, shareLocal[p])})
      BY <2>2 DEF Connected
    <3> QED
      BY <3>1, <3>2, <3>3, SentIsNotice, AsItWas
  <2> QED
    BY <2>1, <2>2
<1>2. ShareTyped' /\ NoneFromItself'
  BY <1>1 DEF Connected, shareCounts, ShareInv, ShareTyped, NoneFromItself
<1>3. OneScreenEach'
  <2>1. \A r \in Sharers : sharePeers[r] \subseteq sharePeers'[r]
    BY DEF Connected, ShareInv, ShareTyped
  <2> QED
    BY <2>1 DEF Connected, ShareInv, OneScreenEach, sharing, viewing
<1> QED
  BY <1>2, <1>3 DEF ShareInv

LEMMA ShareInvInit == ShareInit => ShareInv
<1> SUFFICES ASSUME ShareInit
             PROVE  ShareInv
  OBVIOUS
<1>1. ShareTyped /\ NoneFromItself
  BY DEF ShareInit, ShareTyped, NoneFromItself
<1>2. OneScreenEach
  BY DEF ShareInit, OneScreenEach, sharing, viewing
<1> QED
  BY <1>1, <1>2 DEF ShareInv

LEMMA ShareInvStep == ShareInv /\ [ShareNext]_shareVars => ShareInv'
<1> SUFFICES ASSUME ShareInv, [ShareNext]_shareVars
             PROVE  ShareInv'
  OBVIOUS
<1>1. CASE UNCHANGED shareVars
  BY <1>1, LessUnderWay DEF shareVars, shareCounts
<1>2. ASSUME NEW p \in Sharers,
             start(p) \/ stop(p) \/ announce(p) \/ ViewTimesOut(p) \/ AllLost(p) \/ leave(p)
      PROVE  ShareInv'
  BY <1>2, StartStep, StopStep, AnnounceStep, UnheardStep, LeavesMeshStep
<1>3. ASSUME NEW m \in shareWire, receive(m) \/ Lose(m)
      PROVE  ShareInv'
  BY <1>3, ReceiveStep, TroubleSteps
<1>4. ASSUME NEW pair \in SharePairs, LinkFails(pair) \/ LinkReturns(pair)
      PROVE  ShareInv'
  BY <1>4, TroubleSteps
<1>5. ASSUME NEW p \in Sharers, NEW q \in Sharers, Disconnected(p, q) \/ Connected(p, q)
      PROVE  ShareInv'
  BY <1>5, DisconnectedStep, ConnectedStep
<1> QED
  BY <1>1, <1>2, <1>3, <1>4, <1>5 DEF ShareNext

\* The invariant holds in every state of the mesh.
THEOREM ShareInvariant == ShareSpec => []ShareInv
<1>1. ShareInit => ShareInv
  BY ShareInvInit
<1>2. ShareInv /\ [ShareNext]_shareVars => ShareInv'
  BY ShareInvStep
<1> QED
  BY <1>1, <1>2, PTL DEF ShareSpec

\* Nobody shares and views at once, views a stream it has given up, or views a
\* peer it has lost: for any number of peers, starts and troubles.
THEOREM OneScreenAlways == ShareSpec => []OneScreenEach
<1>1. ShareInv => OneScreenEach
  BY DEF ShareInv
<1> QED
  BY <1>1, ShareInvariant, PTL

LEMMA TwoAreAPair ==
  ASSUME NEW p \in Sharers, NEW q \in Sharers, p # q
  PROVE  {p, q} \in SharePairs
<1>1. IsFiniteSet({p}) /\ Cardinality({p}) = 1
  BY FS_Singleton
<1>2. Cardinality({p} \cup {q}) = Cardinality({p}) + 1
  BY <1>1, FS_AddElement
<1>3. {p} \cup {q} = {p, q}
  OBVIOUS
<1> QED
  BY <1>1, <1>2, <1>3 DEF SharePairs

\* Where all are connected, nobody is misled and nobody is left out, everybody
\* looks at the one who shares.
LEMMA AllLookAtSharer ==
  ASSUME ShareInv, shareUp = SharePairs, NoneMisled, NoneLeftOut,
         NEW r \in Sharers, NEW q \in Sharers, sharing(r)
  PROVE  owner(q) = r
<1>1. CASE q = r
  BY <1>1 DEF owner
<1>2. CASE q # r
  <2>1. \A p \in Sharers \ {r} : {r, p} \in shareUp
    BY TwoAreAPair
  <2>2. ~sharing(q) /\ viewing(q) /\ {q, r} \in shareUp
    BY <1>2, <2>1 DEF NoneMisled, NoneLeftOut
  <2> DEFINE o == shareView[q].peer
  <2>3. o \in Sharers /\ shareLocal[o] = shareView[q].stream /\ shareView[q].stream # 0
    BY <2>2 DEF NoneMisled, ShareInv, ShareTyped, Streams, viewing
  <2>4. sharing(o)
    BY <2>3 DEF sharing
  <2>5. o = r
    BY <2>1, <2>3, <2>4 DEF NoneMisled
  <2> QED
    BY <2>2, <2>5 DEF owner
<1> QED
  BY <1>1, <1>2

\* In a full mesh in which nobody views what is not shared and everybody views
\* what is, all have the same owner: for any number of peers, starts and troubles.
THEOREM SettledMeansSameOwner ==
  ShareSpec => [](NoneMisled /\ NoneLeftOut => SameOwner)
<1>1. ShareInv => (NoneMisled /\ NoneLeftOut => SameOwner)
  <2>1. SUFFICES ASSUME ShareInv, NoneMisled, NoneLeftOut, shareUp = SharePairs,
                        NEW p \in Sharers, NEW q \in Sharers
                 PROVE  owner(p) = owner(q)
    BY DEF SameOwner
  <2>2. ASSUME NEW r \in Sharers, sharing(r)
        PROVE  owner(p) = owner(q)
    BY <2>1, <2>2, AllLookAtSharer
  <2>3. ASSUME NEW v \in Sharers, viewing(v)
        PROVE  owner(p) = owner(q)
    <3>1. v \in Sharers /\ shareView[v].peer \in sharePeers[v] /\ shareView[v] \in Streams
      BY <2>1, <2>3 DEF ShareInv, ShareTyped, OneScreenEach, viewing
    <3>2. shareView[v].peer \in Sharers /\ shareView[v].peer # v /\ shareView[v].stream # 0
      BY <2>1, <3>1 DEF ShareInv, ShareTyped, NoneFromItself, Streams
    <3>3. {v, shareView[v].peer} \in shareUp
      BY <2>1, <3>2, TwoAreAPair
    <3>4. sharing(shareView[v].peer)
      BY <2>1, <2>3, <3>2, <3>3 DEF NoneMisled, sharing
    <3> QED
      BY <2>2, <3>2, <3>4
  <2>4. CASE \A r \in Sharers : ~sharing(r) /\ ~viewing(r)
    BY <2>1, <2>4 DEF owner, viewing
  <2> QED
    BY <2>2, <2>3, <2>4
<1> QED
  BY <1>1, ShareInvariant, PTL

-----------------------------------------------------------------------------
(* The pictures and sounds of a screen.                                    *)

Pieces == [kind : {"video", "audio"}, stream : Nat \ {0}, of : Nat, seq : Nat \ {0},
           part : Nat \ {0}, count : Nat]
PictureParts == [of : Nat, seq : Nat, part : Nat]
Pictures     == [stream : Nat, seq : Nat, parts : SUBSET PictureParts]
Sounds       == [stream : Nat, seq : Nat]

VideoTyped ==
  /\ videoStream \in Nat /\ videoStarted \in Nat /\ encoding \in Nat
  /\ videoSequence \in Nat /\ audioSequence \in Nat
  /\ pieces \subseteq Pieces
  /\ watched \in Nat
  /\ receivedVideo \in Nat /\ receivedAudio \in Nat /\ displayedVideo \in Nat
  /\ assembled \subseteq PictureParts /\ imageParts \in Nat
  /\ decoding \in Pictures /\ screen \in Pictures
  /\ playback \in Seq(Sounds) /\ heard \in Sounds

\* The viewer is not ahead of the sharer.
NotAhead ==
  /\ videoStream = 0 \/ videoStream = videoStarted
  /\ watched <= videoStarted
  /\ watched = videoStarted => receivedVideo <= videoSequence

\* A piece is of the stream whose picture was taken, of one the sharer has sent.
TruePiece(m, started, sequence) ==
  /\ m.of = m.stream /\ m.stream <= started /\ m.part <= m.count
  /\ (m.kind = "video" /\ m.stream = started) => m.seq <= sequence

\* The pieces m and n are of one picture.
SamePicture(m, n) == m.kind = "video" /\ n.kind = "video" /\ m.stream = n.stream /\ m.seq = n.seq

PiecesTrue ==
  /\ \A m \in pieces : TruePiece(m, videoStarted, videoSequence)
  /\ \A m, n \in pieces : SamePicture(m, n) => m.count = n.count

\* What is put together is of one picture, of as many pieces as its others have.
OfOne(parts, stream, seq, count) ==
  \A a \in parts : a.of = stream /\ a.seq = seq /\ a.part \in 1..count

Assembling ==
  /\ OfOne(assembled, watched, receivedVideo, imageParts)
  /\ \A m \in pieces :
       (m.kind = "video" /\ m.stream = watched /\ m.seq = receivedVideo) => m.count = imageParts

\* All pieces of one picture.
AllOf(picture) ==
  /\ \A part \in picture.parts : part.of = picture.stream /\ part.seq = picture.seq
  /\ {part.part : part \in picture.parts} = 1..Cardinality(picture.parts)

Showing ==
  /\ decoding # Nothing => AllOf(decoding)
  /\ screen # Nothing => AllOf(screen) /\ screen.stream = watched /\ screen.seq = displayedVideo

\* The sounds q wait, of the stream w and up to the number r; h was played.
InOrder(q, w, r, h) ==
  /\ \A i \in 1..Len(q) : q[i].stream = w /\ q[i].seq <= r
  /\ \A i, j \in 1..Len(q) : i < j => q[i].seq < q[j].seq
  /\ h # Silence => /\ h.stream = w /\ h.seq <= r
                    /\ \A i \in 1..Len(q) : h.seq < q[i].seq

VideoInv ==
  VideoTyped /\ NotAhead /\ PiecesTrue /\ Assembling /\ Showing /\ InOrder(playback, watched, receivedAudio, heard)

\* n different pieces of a picture of n are all of them.
LEMMA AllPieces ==
  ASSUME NEW A \in SUBSET PictureParts, NEW o \in Nat, NEW q \in Nat, NEW n \in Nat,
         OfOne(A, o, q, n), Cardinality(A) = n
  PROVE  {a.part : a \in A} = 1..Cardinality(A)
<1> DEFINE f == [a \in A |-> a.part]
<1>1. f \in [A -> 1..n]
  BY DEF OfOne
<1>2. \A a, b \in A : a.part = b.part => a = b
  BY DEF OfOne, PictureParts
<1>3. f \in Injection(A, 1..n)
  BY <1>1, <1>2 DEF Injection, IsInjective
<1>4. IsFiniteSet(1..n) /\ Cardinality(1..n) = n
  BY FS_Interval
<1>5. f \in Surjection(A, 1..n)
  BY <1>3, <1>4, FS_Injection
<1>6. \A k \in 1..n : \E a \in A : a.part = k
  BY <1>5 DEF Surjection
<1> QED
  BY <1>1, <1>6 DEF OfOne

\* A newer sound is received and not played.
LEMMA SoundLost ==
  ASSUME NEW q \in Seq(Sounds), NEW w \in Nat, NEW r \in Nat, NEW h \in Sounds,
         NEW n \in Nat, n > r, InOrder(q, w, r, h)
  PROVE  InOrder(q, w, n, h)
<1>1. \A i \in 1..Len(q) : q[i] \in Sounds
  OBVIOUS
<1>2. h.seq \in Nat /\ \A i \in 1..Len(q) : q[i].seq \in Nat
  BY <1>1 DEF Sounds
<1>3. \A i \in 1..Len(q) : q[i].stream = w /\ q[i].seq <= n
  BY <1>2 DEF InOrder
<1>4. h # Silence => /\ h.stream = w /\ h.seq <= n
                     /\ \A i \in 1..Len(q) : h.seq < q[i].seq
  BY <1>2 DEF InOrder
<1>5. \A i, j \in 1..Len(q) : i < j => q[i].seq < q[j].seq
  BY DEF InOrder
<1> QED
  BY <1>3, <1>4, <1>5 DEF InOrder

\* One sound more.
LEMMA SoundMore ==
  ASSUME NEW q \in Seq(Sounds), NEW w \in Nat, NEW r \in Nat, NEW h \in Sounds, NEW x \in Sounds,
         InOrder(q, w, r, h), x.stream = w, x.seq > r
  PROVE  InOrder(Append(q, x), w, x.seq, h)
<1> DEFINE l == Append(q, x)
<1>1. /\ Len(q) \in Nat /\ Len(l) = Len(q) + 1 /\ l[Len(q) + 1] = x
      /\ \A i \in 1..Len(q) : l[i] = q[i]
  BY More
<1>2. \A i \in 1..Len(q) : q[i] \in Sounds
  OBVIOUS
<1>3. r \in Nat /\ x.seq \in Nat /\ h.seq \in Nat /\ \A i \in 1..Len(q) : q[i].seq \in Nat
  BY <1>2 DEF Sounds
<1> HIDE DEF l
<1>4. \A i \in 1..Len(l) : l[i].stream = w /\ l[i].seq <= x.seq
  BY <1>1, <1>3 DEF InOrder
<1>5. \A i, j \in 1..Len(l) : i < j => l[i].seq < l[j].seq
  <2>1. SUFFICES ASSUME NEW i \in 1..Len(l), NEW j \in 1..Len(l), i < j
                 PROVE  l[i].seq < l[j].seq
    OBVIOUS
  <2>2. i \in 1..Len(q) /\ l[i] = q[i]
    BY <1>1, <2>1
  <2>3. CASE j \in 1..Len(q)
    BY <1>1, <2>1, <2>2, <2>3 DEF InOrder
  <2>4. CASE j = Len(q) + 1
    BY <1>1, <1>3, <2>2, <2>4 DEF InOrder
  <2> QED
    BY <1>1, <2>3, <2>4
<1>6. h # Silence => /\ h.stream = w /\ h.seq <= x.seq
                     /\ \A i \in 1..Len(l) : h.seq < l[i].seq
  <2> SUFFICES ASSUME h # Silence
               PROVE  /\ h.stream = w /\ h.seq <= x.seq
                      /\ \A i \in 1..Len(l) : h.seq < l[i].seq
    OBVIOUS
  <2>1. h.stream = w /\ h.seq <= r /\ \A i \in 1..Len(q) : h.seq < q[i].seq
    BY DEF InOrder
  <2>2. h.seq < x.seq
    BY <2>1, <1>3
  <2> QED
    BY <2>1, <2>2, <1>1, <1>3
<1> QED
  BY <1>4, <1>5, <1>6 DEF InOrder, l

\* Only the newer sounds.
LEMMA SoundsCut ==
  ASSUME NEW q \in Seq(Sounds), NEW w \in Nat, NEW r \in Nat, NEW h \in Sounds,
         InOrder(q, w, r, h), NEW k \in 1..Len(q) + 1
  PROVE  /\ SubSeq(q, k, Len(q)) \in Seq(Sounds)
         /\ InOrder(SubSeq(q, k, Len(q)), w, r, h)
<1> DEFINE l == SubSeq(q, k, Len(q))
<1>1. Len(q) \in Nat /\ \A i \in k..Len(q) : q[i] \in Sounds
  OBVIOUS
<1>2. /\ l \in Seq(Sounds)
      /\ Len(l) = IF k <= Len(q) THEN Len(q) - k + 1 ELSE 0
      /\ \A i \in 1..(Len(q) - k + 1) : l[i] = q[k + i - 1]
  BY <1>1, SubSeqProperties
<1>3. Len(l) \in Nat /\ \A i \in 1..Len(l) : l[i] = q[k + i - 1] /\ k + i - 1 \in 1..Len(q)
  BY <1>1, <1>2
<1> HIDE DEF l
<1>4. \A i \in 1..Len(l) : l[i].stream = w /\ l[i].seq <= r
  BY <1>3 DEF InOrder
<1>5. \A i, j \in 1..Len(l) : i < j => k + i - 1 < k + j - 1
  BY <1>3
<1>6. \A i, j \in 1..Len(l) : i < j => l[i].seq < l[j].seq
  BY <1>3, <1>5 DEF InOrder
<1>7. h # Silence => /\ h.stream = w /\ h.seq <= r
                     /\ \A i \in 1..Len(l) : h.seq < l[i].seq
  BY <1>3 DEF InOrder
<1> QED
  BY <1>2, <1>4, <1>6, <1>7 DEF InOrder, l

\* The first sound is played.
LEMMA SoundPlayed ==
  ASSUME NEW q \in Seq(Sounds), NEW w \in Nat, NEW r \in Nat, NEW h \in Sounds,
         InOrder(q, w, r, h), q # <<>>
  PROVE  /\ InOrder(Tail(q), w, r, Head(q))
         /\ Head(q).stream = w
         /\ h # Silence => Head(q).seq > h.seq
<1> DEFINE l == Tail(q)
           x == Head(q)
<1>1. /\ x \in Sounds /\ x = q[1] /\ Len(q) \in Nat \ {0} /\ Len(l) = Len(q) - 1
      /\ \A i \in 1..Len(q) - 1 : l[i] = q[i + 1]
  BY Less
<1>2. \A i \in 1..Len(l) : l[i] = q[i + 1] /\ i + 1 \in 1..Len(q) /\ 1 < i + 1
  BY <1>1
<1>3. \A i, j \in 1..Len(l) : i < j => i + 1 < j + 1
  BY <1>1
<1>4. 1 \in 1..Len(q)
  BY <1>1
<1>5. h.seq \in Nat /\ x.seq \in Nat
  BY <1>1 DEF Sounds
<1> HIDE DEF l, x
<1>6. \A i \in 1..Len(l) : l[i].stream = w /\ l[i].seq <= r
  BY <1>2 DEF InOrder
<1>7. \A i, j \in 1..Len(l) : i < j => l[i].seq < l[j].seq
  BY <1>2, <1>3 DEF InOrder
<1>8. x.stream = w /\ x.seq <= r /\ \A i \in 1..Len(l) : x.seq < l[i].seq
  BY <1>1, <1>2, <1>4 DEF InOrder
<1>9. h # Silence => x.seq > h.seq
  BY <1>1, <1>4, <1>5 DEF InOrder
<1> QED
  BY <1>6, <1>7, <1>8, <1>9 DEF InOrder, l, x

\* The sharer starts another stream, which nobody watches yet.
LEMMA StartStreamStep == ASSUME VideoInv, startStream PROVE VideoInv'
<1>1. VideoTyped'
  BY DEF startStream, viewerVars, VideoInv, VideoTyped
<1>2. NotAhead'
  BY DEF startStream, viewerVars, VideoInv, VideoTyped, NotAhead
<1>3. PiecesTrue'
  <2>1. pieces' = pieces /\ videoStarted' = videoStarted + 1 /\ videoStarted \in Nat
    BY DEF startStream, VideoInv, VideoTyped
  <2>2. ASSUME NEW m \in pieces'
        PROVE  TruePiece(m, videoStarted', videoSequence')
    <3>1. m \in pieces /\ m.stream \in Nat
      BY <2>1 DEF VideoInv, VideoTyped, Pieces
    <3>2. m.of = m.stream /\ m.stream <= videoStarted /\ m.part <= m.count
      BY <3>1 DEF VideoInv, PiecesTrue, TruePiece
    <3> QED
      BY <2>1, <3>1, <3>2 DEF TruePiece
  <2> QED
    BY <2>1, <2>2 DEF VideoInv, PiecesTrue
<1>4. Assembling' /\ Showing' /\ InOrder(playback, watched, receivedAudio, heard)'
  BY DEF startStream, viewerVars, VideoInv, Assembling, Showing
<1> QED
  BY <1>1, <1>2, <1>3, <1>4 DEF VideoInv

\* It stops, or takes a picture.
LEMMA StopOrCaptureStep == ASSUME VideoInv, stopStream \/ captureFrame PROVE VideoInv'
<1>1. /\ UNCHANGED <<videoStarted, videoSequence, audioSequence, pieces, viewerVars>>
      /\ videoStream' \in {0, videoStream} /\ encoding' \in {encoding, videoStream}
  BY DEF stopStream, captureFrame
<1>2. VideoTyped' /\ NotAhead'
  BY <1>1 DEF viewerVars, VideoInv, VideoTyped, NotAhead
<1>3. PiecesTrue' /\ Assembling' /\ Showing' /\ InOrder(playback, watched, receivedAudio, heard)'
  BY <1>1 DEF viewerVars, VideoInv, PiecesTrue, Assembling, Showing
<1> QED
  BY <1>2, <1>3 DEF VideoInv

\* The pieces of one more picture or sound are on their way: none of them is of
\* a picture that was sent before.
LEMMA MoreOnItsWay ==
  ASSUME VideoInv, UNCHANGED <<videoStream, videoStarted, viewerVars>>, encoding' \in Nat,
         videoSequence' \in Nat, videoSequence' >= videoSequence, audioSequence' \in Nat,
         NEW more, more \subseteq Pieces, pieces' = pieces \cup more,
         \A m \in more : /\ TruePiece(m, videoStarted, videoSequence')
                         /\ m.kind = "video" => m.stream = videoStarted /\ m.seq > videoSequence,
         \A m, n \in more : m.count = n.count
  PROVE  VideoInv'
<1>1. VideoTyped'
  BY DEF viewerVars, VideoInv, VideoTyped
<1>2. NotAhead'
  BY DEF viewerVars, VideoInv, VideoTyped, NotAhead
<1>3. \A m \in pieces : /\ TruePiece(m, videoStarted, videoSequence)
                        /\ m.stream \in Nat /\ m.seq \in Nat
  BY DEF VideoInv, VideoTyped, Pieces, PiecesTrue
<1>4. \A m \in more : m.stream \in Nat /\ m.seq \in Nat
  BY DEF Pieces
<1>5. videoSequence \in Nat /\ receivedVideo \in Nat
  BY DEF VideoInv, VideoTyped
<1>6. ASSUME NEW m \in pieces, NEW n \in more
      PROVE  ~SamePicture(m, n) /\ ~SamePicture(n, m)
  BY <1>3, <1>4, <1>5 DEF SamePicture, TruePiece
<1>7. PiecesTrue'
  <2>1. ASSUME NEW m \in pieces'
        PROVE  TruePiece(m, videoStarted, videoSequence')
    BY <1>3, <1>5 DEF TruePiece
  <2>2. ASSUME NEW m \in pieces', NEW n \in pieces', SamePicture(m, n)
        PROVE  m.count = n.count
    BY <2>2, <1>6 DEF VideoInv, PiecesTrue
  <2> QED
    BY <2>1, <2>2 DEF PiecesTrue
<1>8. Assembling'
  <2>1. ASSUME NEW m \in more, m.kind = "video", m.stream = watched, m.seq = receivedVideo
        PROVE  FALSE
    <3>1. watched = videoStarted /\ receivedVideo > videoSequence
      BY <2>1
    <3> QED
      BY <3>1, <1>5 DEF VideoInv, NotAhead
  <2> QED
    BY <2>1 DEF viewerVars, VideoInv, Assembling
<1>9. Showing' /\ InOrder(playback, watched, receivedAudio, heard)'
  BY DEF viewerVars, VideoInv, Showing
<1> QED
  BY <1>1, <1>2, <1>7, <1>8, <1>9 DEF VideoInv

\* The picture that was taken is sent, if its stream is still the one shared.
LEMMA FrameEncodedStep == ASSUME VideoInv, FrameEncoded PROVE VideoInv'
<1>1. CASE UNCHANGED <<videoSequence, framesSent, pieces>>
  <2>1. /\ UNCHANGED <<videoStream, videoStarted, viewerVars>> /\ encoding' \in Nat
        /\ videoSequence' = videoSequence /\ audioSequence' = audioSequence
        /\ pieces' = pieces /\ videoSequence \in Nat /\ audioSequence \in Nat
    BY <1>1 DEF FrameEncoded, VideoInv, VideoTyped
  <2>2. VideoTyped' /\ NotAhead'
    BY <2>1 DEF viewerVars, VideoInv, VideoTyped, NotAhead
  <2>3. PiecesTrue' /\ Assembling' /\ Showing' /\ InOrder(playback, watched, receivedAudio, heard)'
    BY <2>1 DEF viewerVars, VideoInv, PiecesTrue, Assembling, Showing
  <2> QED
    BY <2>2, <2>3 DEF VideoInv
<1>2. ASSUME current(encoding), videoSequence' = videoSequence + 1,
             NEW count \in 1..MaxParts, NEW taken \in 0..count,
             pieces' = pieces \cup {[kind |-> "video", stream |-> videoStream, of |-> encoding,
                                     seq |-> videoSequence + 1, part |-> i, count |-> count] : i \in 1..taken}
      PROVE  VideoInv'
  <2> DEFINE more == {[kind |-> "video", stream |-> videoStream, of |-> encoding,
                       seq |-> videoSequence + 1, part |-> i, count |-> count] : i \in 1..taken}
  <2>1. /\ videoStream = encoding /\ encoding \in Nat \ {0} /\ videoStream = videoStarted
        /\ videoSequence \in Nat /\ audioSequence \in Nat /\ count \in Nat /\ taken \in 0..count
    BY <1>2, VideoAssumption DEF current, FrameEncoded, VideoInv, VideoTyped, NotAhead
  <2>2. /\ UNCHANGED <<videoStream, videoStarted, viewerVars>> /\ encoding' \in Nat
        /\ videoSequence' \in Nat /\ videoSequence' >= videoSequence /\ audioSequence' \in Nat
    BY <1>2, <2>1 DEF FrameEncoded
  <2>3. ASSUME NEW m \in more
        PROVE  /\ m \in Pieces /\ m.count = count
               /\ TruePiece(m, videoStarted, videoSequence')
               /\ m.stream = videoStarted /\ m.seq > videoSequence
    <3>1. PICK i \in 1..taken : m = [kind |-> "video", stream |-> videoStream, of |-> encoding,
                                     seq |-> videoSequence + 1, part |-> i, count |-> count]
      OBVIOUS
    <3>2. i \in Nat \ {0} /\ i <= count
      BY <2>1
    <3> QED
      BY <3>1, <3>2, <2>1, <1>2 DEF Pieces, TruePiece
  <2>4. pieces' = pieces \cup more
    BY <1>2
  <2> HIDE DEF more
  <2> QED
    BY <2>2, <2>3, <2>4, MoreOnItsWay
<1> QED
  BY <1>1, <1>2 DEF FrameEncoded

\* A sound is sent.
LEMMA EncodeAudioStep == ASSUME VideoInv, encodeAudio PROVE VideoInv'
<1> DEFINE m == [kind |-> "audio", stream |-> videoStream, of |-> videoStream,
                 seq |-> audioSequence + 1, part |-> 1, count |-> 1]
<1>1. /\ videoStream \in Nat \ {0} /\ videoStream = videoStarted
      /\ videoSequence \in Nat /\ audioSequence \in Nat /\ encoding \in Nat
  BY DEF encodeAudio, VideoInv, VideoTyped, NotAhead
<1>2. /\ UNCHANGED <<videoStream, videoStarted, viewerVars>> /\ encoding' \in Nat
      /\ videoSequence' \in Nat /\ videoSequence' >= videoSequence /\ audioSequence' \in Nat
      /\ pieces' = pieces \cup {m}
  BY <1>1 DEF encodeAudio
<1>3. m \in Pieces /\ m.kind # "video" /\ TruePiece(m, videoStarted, videoSequence')
  BY <1>1 DEF Pieces, TruePiece
<1> HIDE DEF m
<1> DEFINE more == {m}
<1>4. /\ more \subseteq Pieces /\ pieces' = pieces \cup more
      /\ \A n \in more : /\ TruePiece(n, videoStarted, videoSequence')
                         /\ n.kind = "video" => n.stream = videoStarted /\ n.seq > videoSequence
      /\ \A n, o \in more : n.count = o.count
  BY <1>2, <1>3
<1> HIDE DEF more
<1> QED
  BY <1>2, <1>4, MoreOnItsWay

\* The viewer turns to another stream, and starts with nothing of it.
LEMMA TurnToStep ==
  ASSUME VideoInv, NEW stream \in 0..videoStarted, turnTo(stream)
  PROVE  VideoInv'
<1> USE DEF turnTo, clearRemote, sharerVars
<1>1. Nothing \in Pictures /\ Silence \in Sounds /\ <<>> \in Seq(Sounds) /\ Len(<<>>) = 0
  BY DEF Nothing, Pictures, Silence, Sounds
<1>2. stream \in Nat /\ stream <= videoStarted /\ videoSequence \in Nat
  BY DEF VideoInv, VideoTyped
<1>3. VideoTyped' /\ NotAhead'
  BY <1>1, <1>2 DEF VideoInv, VideoTyped, NotAhead
<1>4. PiecesTrue'
  BY DEF VideoInv, PiecesTrue
<1>5. Assembling'
  BY DEF VideoInv, VideoTyped, Pieces, Assembling, OfOne
<1>6. Showing'
  BY DEF VideoInv, Showing
<1>7. InOrder(playback, watched, receivedAudio, heard)'
  BY <1>1 DEF InOrder
<1> QED
  BY <1>3, <1>4, <1>5, <1>6, <1>7 DEF VideoInv

\* A sound arrives, and waits behind the others if it is newer.
LEMMA ReceiveAudioStep ==
  ASSUME VideoInv, NEW m \in pieces, receiveAudio(m)
  PROVE  VideoInv'
<1>1. /\ UNCHANGED <<sharerVars, watched, receivedVideo, displayedVideo, assembled, imageParts,
                     decoding, screen, heard, turnsMade>>
      /\ pieces' \subseteq pieces
  BY DEF receiveAudio
<1>2. /\ receivedAudio' \in Nat /\ playback' \in Seq(Sounds)
      /\ InOrder(playback', watched, receivedAudio', heard)
  <2>1. /\ receivedAudio \in Nat /\ playback \in Seq(Sounds) /\ watched \in Nat /\ heard \in Sounds
        /\ InOrder(playback, watched, receivedAudio, heard)
        /\ m.stream \in Nat /\ m.seq \in Nat /\ m.of = m.stream
    BY DEF VideoInv, VideoTyped, Pieces, PiecesTrue, TruePiece
  <2>2. CASE ~(m.stream = watched /\ inOrder(m))
    BY <2>1, <2>2 DEF receiveAudio
  <2>3. CASE m.stream = watched /\ inOrder(m)
    <3> DEFINE x == [stream |-> m.of, seq |-> m.seq]
               all == Append(playback, x)
               half == MaxPlayback \div 2
               k == Len(all) - half + 1
    <3>1. x \in Sounds /\ x.stream = watched /\ x.seq = m.seq /\ x.seq > receivedAudio
      BY <2>1, <2>3 DEF Sounds, inOrder
    <3>2. /\ receivedAudio' = m.seq
          /\ \/ playback' = IF Len(all) > MaxPlayback THEN SubSeq(all, k, Len(all)) ELSE all
             \/ playback' = playback
      BY <2>3 DEF receiveAudio
    <3> HIDE DEF x
    <3>3. InOrder(all, watched, m.seq, heard)
      BY <2>1, <3>1, SoundMore
    <3>4. all \in Seq(Sounds) /\ Len(all) \in Nat
      BY <2>1, <3>1
    <3>5. half \in 0..MaxPlayback
      BY VideoAssumption
    <3> HIDE DEF all, half
    <3>6. CASE playback' = playback
      <4>1. m.seq > receivedAudio /\ InOrder(playback, watched, receivedAudio, heard)
        BY <2>1, <2>3 DEF inOrder
      <4>2. InOrder(playback, watched, m.seq, heard)
        BY <2>1, <4>1, SoundLost
      <4> QED
        BY <2>1, <3>2, <3>6, <4>2
    <3>7. CASE playback' # playback /\ Len(all) > MaxPlayback
      <4>1. k \in 1..Len(all) + 1
        BY <3>4, <3>5, <3>7, VideoAssumption
      <4> HIDE DEF k
      <4>2. SubSeq(all, k, Len(all)) \in Seq(Sounds) /\ InOrder(SubSeq(all, k, Len(all)), watched, m.seq, heard)
        BY <2>1, <3>3, <3>4, <4>1, SoundsCut
      <4> QED
        BY <2>1, <3>2, <3>7, <4>2
    <3>8. CASE playback' # playback /\ ~(Len(all) > MaxPlayback)
      BY <2>1, <3>2, <3>3, <3>4, <3>8
    <3> QED
      BY <3>6, <3>7, <3>8
  <2> QED
    BY <2>2, <2>3
<1>3. VideoTyped' /\ NotAhead'
  BY <1>1, <1>2 DEF sharerVars, VideoInv, VideoTyped, NotAhead
<1>4. PiecesTrue' /\ Assembling' /\ Showing'
  BY <1>1 DEF sharerVars, VideoInv, PiecesTrue, Assembling, Showing
<1>5. InOrder(playback, watched, receivedAudio, heard)'
  BY <1>1, <1>2
<1> QED
  BY <1>3, <1>4, <1>5 DEF VideoInv

\* The next sound is played.
LEMMA PlayStep == ASSUME VideoInv, Play PROVE VideoInv'
<1>1. /\ playback \in Seq(Sounds) /\ playback # <<>> /\ watched \in Nat /\ receivedAudio \in Nat
      /\ heard \in Sounds /\ InOrder(playback, watched, receivedAudio, heard)
  BY DEF Play, VideoInv, VideoTyped
<1>2. Tail(playback) \in Seq(Sounds) /\ Head(playback) \in Sounds
  BY <1>1, Less
<1>3. InOrder(Tail(playback), watched, receivedAudio, Head(playback))
  BY <1>1, SoundPlayed
<1>4. VideoTyped' /\ NotAhead'
  BY <1>2 DEF Play, sharerVars, VideoInv, VideoTyped, NotAhead
<1>5. PiecesTrue' /\ Assembling' /\ Showing'
  BY DEF Play, sharerVars, VideoInv, PiecesTrue, Assembling, Showing
<1>6. InOrder(playback, watched, receivedAudio, heard)'
  BY <1>3 DEF Play
<1> QED
  BY <1>4, <1>5, <1>6 DEF VideoInv

\* A piece of a picture arrives.
LEMMA ReceiveVideoStep ==
  ASSUME VideoInv, NEW m \in pieces, receiveVideo(m)
  PROVE  VideoInv'
<1>1. /\ UNCHANGED <<sharerVars, watched, receivedAudio, displayedVideo, playback, screen, heard, turnsMade>>
      /\ pieces' \subseteq pieces /\ m.kind = "video"
  BY DEF receiveVideo
<1>2. m \in Pieces /\ TruePiece(m, videoStarted, videoSequence)
  BY DEF VideoInv, VideoTyped, PiecesTrue
<1>3. PiecesTrue' /\ InOrder(playback, watched, receivedAudio, heard)'
  BY <1>1 DEF sharerVars, VideoInv, PiecesTrue
<1>4. CASE ~(m.stream = watched /\ m.seq >= receivedVideo /\ m.seq > displayedVideo)
  <2>1. UNCHANGED <<receivedVideo, assembled, imageParts, decoding>>
    BY <1>4 DEF receiveVideo
  <2> QED
    BY <1>1, <1>3, <2>1 DEF sharerVars, VideoInv, VideoTyped, NotAhead, Assembling, Showing
<1>5. CASE m.stream = watched /\ m.seq >= receivedVideo /\ m.seq > displayedVideo
  <2> DEFINE piece == [of |-> m.of, seq |-> m.seq, part |-> m.part]
             all == kept(m) \cup {piece}
  <2>1. /\ receivedVideo' = m.seq /\ assembled' = all /\ imageParts' = m.count
        /\ decoding' = IF Cardinality(all) = m.count /\ decoding = Nothing
                       THEN [stream |-> watched, seq |-> m.seq, parts |-> all] ELSE decoding
    BY <1>5 DEF receiveVideo
  <2>2. m.seq \in Nat /\ m.count \in Nat /\ m.part \in Nat \ {0} /\ watched \in Nat /\ m.of = watched
    BY <1>2, <1>5 DEF Pieces, TruePiece, VideoInv, VideoTyped
  <2>3. piece \in PictureParts /\ piece.of = watched /\ piece.seq = m.seq /\ piece.part \in 1..m.count
    BY <2>2, <1>2 DEF PictureParts, TruePiece
  <2>4. kept(m) \subseteq PictureParts /\ OfOne(kept(m), watched, m.seq, m.count)
    <3>1. CASE m.seq > receivedVideo
      BY <3>1 DEF kept, OfOne
    <3>2. CASE ~(m.seq > receivedVideo)
      <4>1. m.seq = receivedVideo
        BY <3>2, <1>5, <2>2 DEF VideoInv, VideoTyped
      <4>2. kept(m) = assembled
        BY <3>2 DEF kept
      <4>3. m.count = imageParts
        BY <4>1, <1>1, <1>5 DEF VideoInv, Assembling
      <4> QED
        BY <4>1, <4>2, <4>3 DEF VideoInv, VideoTyped, Assembling
    <3> QED
      BY <3>1, <3>2
  <2>5. all \in SUBSET PictureParts /\ OfOne(all, watched, m.seq, m.count)
    BY <2>3, <2>4 DEF OfOne
  <2> HIDE DEF all
  <2>6. decoding' \in Pictures /\ (decoding' # Nothing => AllOf(decoding'))
    <3>1. CASE Cardinality(all) = m.count /\ decoding = Nothing
      <4>1. {a.part : a \in all} = 1..Cardinality(all)
        BY <3>1, <2>2, <2>5, AllPieces
      <4>2. \A a \in all : a.of = watched /\ a.seq = m.seq
        BY <2>5 DEF OfOne
      <4> QED
        BY <2>1, <2>2, <2>5, <3>1, <4>1, <4>2 DEF AllOf, Pictures
    <3>2. CASE ~(Cardinality(all) = m.count /\ decoding = Nothing)
      BY <2>1, <3>2 DEF VideoInv, VideoTyped, Showing
    <3> QED
      BY <3>1, <3>2
  <2>7. VideoTyped'
    BY <1>1, <2>1, <2>2, <2>5, <2>6 DEF sharerVars, VideoInv, VideoTyped
  <2>8. NotAhead'
    BY <1>1, <1>2, <1>5, <2>1 DEF sharerVars, TruePiece, VideoInv, NotAhead
  <2>9. Assembling'
    <3>1. ASSUME NEW n \in pieces', n.kind = "video", n.stream = watched, n.seq = m.seq
          PROVE  n.count = m.count
      BY <3>1, <1>1, <1>5 DEF VideoInv, PiecesTrue, SamePicture
    <3> QED
      BY <3>1, <1>1, <2>1, <2>5 DEF Assembling
  <2>10. Showing'
    BY <1>1, <2>6 DEF VideoInv, Showing, AllOf
  <2> QED
    BY <1>3, <2>7, <2>8, <2>9, <2>10 DEF VideoInv
<1> QED
  BY <1>4, <1>5

\* A decoded picture is shown, or dropped.
LEMMA FrameDecodedStep == ASSUME VideoInv, FrameDecoded PROVE VideoInv'
<1>1. /\ UNCHANGED <<sharerVars, pieces, watched, receivedVideo, receivedAudio, assembled, imageParts,
                     playback, heard, turnsMade>>
      /\ decoding' = Nothing
      /\ \/ stillWatched(decoding) /\ decoding # Nothing /\ screen' = decoding /\ displayedVideo' = decoding.seq
         \/ UNCHANGED <<screen, displayedVideo>>
  BY DEF FrameDecoded
<1>2. Nothing \in Pictures /\ decoding.seq \in Nat
  BY DEF Nothing, Pictures, VideoInv, VideoTyped
<1>3. VideoTyped' /\ NotAhead'
  BY <1>1, <1>2 DEF sharerVars, VideoInv, VideoTyped, NotAhead
<1>4. PiecesTrue' /\ Assembling' /\ InOrder(playback, watched, receivedAudio, heard)'
  BY <1>1 DEF sharerVars, VideoInv, PiecesTrue, Assembling
<1>5. Showing'
  BY <1>1 DEF VideoInv, Showing, stillWatched
<1> QED
  BY <1>3, <1>4, <1>5 DEF VideoInv

LEMMA VideoInvInit == VideoInit => VideoInv
<1> SUFFICES ASSUME VideoInit
             PROVE  VideoInv
  OBVIOUS
<1> USE DEF VideoInit
<1>1. Nothing \in Pictures /\ Silence \in Sounds /\ <<>> \in Seq(Sounds) /\ Len(<<>>) = 0
  BY DEF Nothing, Pictures, Silence, Sounds
<1>2. VideoTyped /\ NotAhead
  BY <1>1 DEF VideoTyped, NotAhead
<1>3. PiecesTrue /\ Assembling /\ Showing
  BY DEF PiecesTrue, Assembling, Showing, OfOne
<1>4. InOrder(playback, watched, receivedAudio, heard)
  BY <1>1 DEF InOrder
<1> QED
  BY <1>2, <1>3, <1>4 DEF VideoInv

LEMMA VideoInvStep == VideoInv /\ [VideoNext]_videoVars => VideoInv'
<1> SUFFICES ASSUME VideoInv, [VideoNext]_videoVars
             PROVE  VideoInv'
  OBVIOUS
<1>1. CASE UNCHANGED videoVars
  BY <1>1 DEF videoVars, sharerVars, viewerVars, VideoInv, VideoTyped, NotAhead, PiecesTrue, Assembling, Showing
<1>2. CASE startStream \/ stopStream \/ captureFrame \/ FrameEncoded \/ encodeAudio
  BY <1>2, StartStreamStep, StopOrCaptureStep, FrameEncodedStep, EncodeAudioStep
<1>3. ASSUME NEW stream \in 0..videoStarted, turnTo(stream)
      PROVE  VideoInv'
  BY <1>3, TurnToStep
<1>4. ASSUME NEW m \in pieces, receiveAudio(m) \/ receiveVideo(m)
      PROVE  VideoInv'
  BY <1>4, ReceiveAudioStep, ReceiveVideoStep
<1>5. CASE Play \/ FrameDecoded
  BY <1>5, PlayStep, FrameDecodedStep
<1> QED
  BY <1>1, <1>2, <1>3, <1>4, <1>5 DEF VideoNext

\* The invariant holds in every state of a stream.
THEOREM VideoInvariant == VideoSpec => []VideoInv
<1>1. VideoInit => VideoInv
  BY VideoInvInit
<1>2. VideoInv /\ [VideoNext]_videoVars => VideoInv'
  BY VideoInvStep
<1> QED
  BY <1>1, <1>2, PTL DEF VideoSpec

\* What the viewer's user sees is one whole picture of the stream that is
\* watched, however many streams, pictures and pieces there are and however
\* long the workers take.
THEOREM ScreenAlwaysWhole == VideoSpec => []ScreenIsWhole
<1>1. VideoInv => ScreenIsWhole
  BY DEF VideoInv, Showing, AllOf, ScreenIsWhole, Whole
<1> QED
  BY <1>1, VideoInvariant, PTL

\* Pictures and sounds of a stream never go back while it is watched.
THEOREM NeverGoesBack == VideoSpec => StreamNeverGoesBack
<1> DEFINE Forward ==
      /\ (screen # Nothing /\ screen' # screen /\ screen' # Nothing) => screen'.seq > screen.seq
      /\ (heard # Silence /\ heard' # heard /\ heard' # Silence) =>
           heard'.stream = watched' /\ heard'.seq > heard.seq
<1>1. VideoInv /\ [VideoNext]_videoVars => [Forward]_videoVars
  <2> SUFFICES ASSUME VideoInv, VideoNext
               PROVE  Forward
    OBVIOUS
  <2>1. CASE startStream \/ stopStream \/ captureFrame \/ FrameEncoded \/ encodeAudio
    BY <2>1 DEF startStream, stopStream, captureFrame, FrameEncoded, encodeAudio, viewerVars
  <2>2. ASSUME NEW stream \in 0..videoStarted, turnTo(stream)
        PROVE  Forward
    BY <2>2 DEF turnTo, clearRemote
  <2>3. ASSUME NEW m \in pieces, receiveAudio(m) \/ receiveVideo(m)
        PROVE  Forward
    BY <2>3 DEF receiveAudio, receiveVideo
  <2>4. CASE Play
    <3>1. screen' = screen /\ watched' = watched /\ heard' = Head(playback) /\ playback # <<>>
      BY <2>4 DEF Play
    <3>2. /\ Head(playback).stream = watched
          /\ heard # Silence => Head(playback).seq > heard.seq
      BY <3>1, SoundPlayed DEF VideoInv, VideoTyped
    <3> QED
      BY <3>1, <3>2
  <2>5. CASE FrameDecoded
    <3>1. /\ heard' = heard
          /\ screen' = screen \/ (screen' = decoding /\ decoding.seq > displayedVideo)
      BY <2>5 DEF FrameDecoded, stillWatched
    <3>2. screen # Nothing => screen.seq = displayedVideo
      BY DEF VideoInv, Showing
    <3> QED
      BY <3>1, <3>2
  <2> QED
    BY <2>1, <2>2, <2>3, <2>4, <2>5 DEF VideoNext
<1> QED
  BY <1>1, VideoInvariant, PTL DEF VideoSpec, StreamNeverGoesBack

\* So the pictures and sounds of a stream are true.
THEOREM PicturesAlwaysTrue == VideoSpec => PicturesAreTrue
  BY ScreenAlwaysWhole, NeverGoesBack DEF PicturesAreTrue

-----------------------------------------------------------------------------
(* The connection to the server.                                           *)

Proofs       == {"auth.authenticate", "access.redeem"}
RoomTypes    == {"room.join", "room.leave", "turn.refresh"}
RoomRequests == [type : RoomTypes, id : Nat]
RoomAnswers  == [kind : {"reply"}, type : RoomTypes, id : Nat]
                  \cup [kind : {"error"}, type : {"room.join", "turn.refresh"}, id : Nat,
                        code : {"invalid_invitation", "resource_limit"}]
Pendings     == [id : Nat, type : Types]

\* m is, or answers, one of the requests P or a refresh that was given up.
Awaits(m, P) == m.type = "turn.refresh" \/ [id |-> m.id, type |-> m.type] \in P

\* The requests q and the answers a, of the first n requests of a socket, of
\* which P wait for their answers.
Ordered(q, a, P, n) ==
  /\ \A i \in 1..Len(q) : q[i].id \in 1..n /\ Awaits(q[i], P)
  /\ \A i \in 1..Len(a) : a[i].id \in 1..n /\ Awaits(a[i], P)
  /\ \A i, j \in 1..Len(q) : q[i].id = q[j].id => i = j
  /\ \A i, j \in 1..Len(a) : a[i].id = a[j].id => i = j
  /\ \A i \in 1..Len(q), j \in 1..Len(a) : q[i].id # a[j].id

\* One request about rooms waits at a time, and it is what the client is at.
OneAtATime(P, op) ==
  /\ \A p \in P : p.type \in RoomTypes
  /\ \A p \in P : p.type = "room.join" => op = "joining"
  /\ \A p \in P : p.type = "room.leave" => op = "leave"
  /\ \A p, r \in P : p.id = r.id => p = r
  /\ \A p, r \in P : (p.type = r.type /\ p.type # "turn.refresh") => p = r

Denies(m) == m.type = "room.leave" \/ (m.type = "room.join" /\ m.kind = "error")

\* Who has still to join, was refused, or has left has no place in a room.
NoPlace(q, a, member) ==
  /\ \A i \in 1..Len(q) : q[i].type = "room.join" => ~member
  /\ \A i \in 1..Len(a) : Denies(a[i]) => ~member

\* Before the challenge is answered.
Quiet ==
  /\ pending = {} /\ refresh = 0 /\ nextRequest = 0 /\ up = <<>>
  /\ \/ down = <<>> /\ session = NoSession
     \/ state = "Connecting" /\ down = <<Challenge>> /\ session = Opened

\* The proof, or what the server says of it, is under way.
Proving ==
  /\ refresh = 0 /\ nextRequest = 1
  /\ \E type \in Proofs :
       /\ pending = {[id |-> 1, type |-> type]}
       /\ \/ up = <<Request(type, 1)>> /\ down = <<>> /\ session = Opened
          \/ up = <<>> /\ down = <<Reply(type, 1)>> /\ session = [Opened EXCEPT !.access = "granted"]
          \/ /\ up = <<>> /\ session = NoSession
             /\ \E code \in {"identity_in_use", "access_denied"} : down = <<Error(type, 1, code)>>

Working ==
  /\ session.access = "granted"
  /\ up \in Seq(RoomRequests) /\ down \in Seq(RoomAnswers)
  /\ Ordered(up, down, pending, nextRequest)
  /\ OneAtATime(pending, operation)
  /\ NoPlace(up, down, session.member)

Phases ==
  /\ state \in Idle \cup {"Connecting"} => Quiet
  /\ state = "Authenticating" => Proving
  /\ state = "Ready" => Working

\* What the client knows of the mesh it joins fits together.
MeshFits ==
  /\ serverMesh <=> mesh # "none"
  /\ link = "trying" => serverMesh
  /\ pendingJoin <=> operation \in {"join", "joining"}
  /\ pendingJoin => serverMesh
  /\ operation \in {"joining", "leave"} => state = "Ready"

TokenOnce == redeemed <= 1 /\ (accessToken => redeemed = 0)

SessionInv ==
  SessionTypeOK /\ Phases /\ MeshFits /\ TokenOnce /\ NoOrphanRoom /\ OperationsEnd /\ ~blamed

\* A new request has a new number.
LEMMA NewNumber ==
  ASSUME NEW n \in Nat
  PROVE  \A k \in 1..n : k # n + 1
  OBVIOUS

LEMMA OrderedAsked ==
  ASSUME NEW q \in Seq(RoomRequests), NEW a \in Seq(RoomAnswers), NEW P, NEW n \in Nat,
         Ordered(q, a, P, n), NEW type \in RoomTypes
  PROVE  /\ Append(q, Request(type, n + 1)) \in Seq(RoomRequests)
         /\ Ordered(Append(q, Request(type, n + 1)), a, P \cup {[id |-> n + 1, type |-> type]}, n + 1)
<1> DEFINE x == Request(type, n + 1)
           l == Append(q, x)
           R == P \cup {[id |-> n + 1, type |-> type]}
<1>1. x \in RoomRequests /\ x.id = n + 1 /\ x.type = type
  BY DEF Request, RoomRequests
<1>2. /\ l \in Seq(RoomRequests) /\ Len(q) \in Nat /\ Len(l) = Len(q) + 1 /\ l[Len(q) + 1] = x
      /\ \A i \in 1..Len(q) : l[i] = q[i]
  BY <1>1, More
<1>3. Len(a) \in Nat
  OBVIOUS
<1>4. Awaits(x, R) /\ \A m : Awaits(m, P) => Awaits(m, R)
  BY <1>1 DEF Awaits
<1>5. \A i \in 1..Len(l) : i \in 1..Len(q) \/ i = Len(q) + 1
  BY <1>2
<1> HIDE DEF l, x, R
<1>6. \A i \in 1..Len(q) : q[i].id \in 1..n
  BY DEF Ordered
<1>7. \A i \in 1..Len(a) : a[i].id \in 1..n
  BY DEF Ordered
<1>8. \A k \in 1..n : k \in 1..n + 1 /\ k # n + 1
  OBVIOUS
<1>9. \A i \in 1..Len(l) : l[i].id \in 1..n + 1 /\ Awaits(l[i], R)
  BY <1>1, <1>2, <1>4, <1>5, <1>8 DEF Ordered
<1>10. \A i \in 1..Len(a) : a[i].id \in 1..n + 1 /\ Awaits(a[i], R)
  BY <1>4, <1>8 DEF Ordered
<1>11. \A i, j \in 1..Len(l) : l[i].id = l[j].id => i = j
  <2>1. SUFFICES ASSUME NEW i \in 1..Len(l), NEW j \in 1..Len(l), l[i].id = l[j].id
                 PROVE  i = j
    OBVIOUS
  <2>2. CASE i \in 1..Len(q) /\ j \in 1..Len(q)
    BY <1>2, <2>1, <2>2 DEF Ordered
  <2>3. CASE i = Len(q) + 1 \/ j = Len(q) + 1
    BY <1>1, <1>2, <1>5, <1>6, <1>8, <2>1, <2>3
  <2> QED
    BY <1>5, <2>2, <2>3
<1>12. \A i \in 1..Len(l), j \in 1..Len(a) : l[i].id # a[j].id
  <2>1. SUFFICES ASSUME NEW i \in 1..Len(l), NEW j \in 1..Len(a)
                 PROVE  l[i].id # a[j].id
    OBVIOUS
  <2>2. CASE i \in 1..Len(q)
    BY <1>2, <2>2 DEF Ordered
  <2>3. CASE i = Len(q) + 1
    BY <1>1, <1>2, <1>7, <1>8, <2>3
  <2> QED
    BY <1>5, <2>2, <2>3
<1> QED
  BY <1>2, <1>9, <1>10, <1>11, <1>12 DEF Ordered, l, x, R

\* The first request is answered.
LEMMA OrderedServed ==
  ASSUME NEW q \in Seq(RoomRequests), NEW a \in Seq(RoomAnswers), NEW P, NEW n \in Nat,
         Ordered(q, a, P, n), q # <<>>, NEW m \in RoomAnswers,
         m.id = Head(q).id, m.type = Head(q).type
  PROVE  /\ Tail(q) \in Seq(RoomRequests) /\ Append(a, m) \in Seq(RoomAnswers)
         /\ Ordered(Tail(q), Append(a, m), P, n)
<1> DEFINE t == Tail(q)
           l == Append(a, m)
<1>1. /\ t \in Seq(RoomRequests) /\ Head(q) = q[1] /\ Len(q) \in Nat \ {0} /\ Len(t) = Len(q) - 1
      /\ \A i \in 1..Len(q) - 1 : t[i] = q[i + 1]
  BY Less
<1>2. /\ l \in Seq(RoomAnswers) /\ Len(a) \in Nat /\ Len(l) = Len(a) + 1 /\ l[Len(a) + 1] = m
      /\ \A i \in 1..Len(a) : l[i] = a[i]
  BY More
<1>3. \A i \in 1..Len(t) : t[i] = q[i + 1] /\ i + 1 \in 1..Len(q) /\ i + 1 # 1 /\ i \in Nat
  BY <1>1
<1>4. 1 \in 1..Len(q)
  BY <1>1
<1>5. \A i \in 1..Len(l) : i \in 1..Len(a) \/ i = Len(a) + 1
  BY <1>2
<1>6. m.id = q[1].id /\ m.type = q[1].type
  BY <1>1
<1> HIDE DEF t, l
<1>7. Awaits(m, P) /\ m.id \in 1..n
  BY <1>4, <1>6 DEF Ordered, Awaits
<1>8. \A i \in 1..Len(t) : t[i].id \in 1..n /\ Awaits(t[i], P)
  BY <1>3 DEF Ordered
<1>9. \A i \in 1..Len(l) : l[i].id \in 1..n /\ Awaits(l[i], P)
  BY <1>2, <1>5, <1>7 DEF Ordered
<1>10. \A i, j \in 1..Len(t) : t[i].id = t[j].id => i = j
  <2>1. SUFFICES ASSUME NEW i \in 1..Len(t), NEW j \in 1..Len(t), t[i].id = t[j].id
                 PROVE  i = j
    OBVIOUS
  <2>2. i + 1 = j + 1
    BY <1>3, <2>1 DEF Ordered
  <2> QED
    BY <2>2, <1>3
<1>11. \A i \in 1..Len(a) : a[i].id # m.id
  BY <1>4, <1>6 DEF Ordered
<1>12. \A i, j \in 1..Len(l) : l[i].id = l[j].id => i = j
  <2>1. SUFFICES ASSUME NEW i \in 1..Len(l), NEW j \in 1..Len(l), l[i].id = l[j].id
                 PROVE  i = j
    OBVIOUS
  <2>2. CASE i \in 1..Len(a) /\ j \in 1..Len(a)
    BY <1>2, <2>1, <2>2 DEF Ordered
  <2>3. CASE i = Len(a) + 1 \/ j = Len(a) + 1
    BY <1>2, <1>5, <1>11, <2>1, <2>3
  <2> QED
    BY <1>5, <2>2, <2>3
<1>13. \A i \in 1..Len(t), j \in 1..Len(l) : t[i].id # l[j].id
  <2>1. SUFFICES ASSUME NEW i \in 1..Len(t), NEW j \in 1..Len(l)
                 PROVE  t[i].id # l[j].id
    OBVIOUS
  <2>2. t[i] = q[i + 1] /\ i + 1 \in 1..Len(q) /\ i + 1 # 1
    BY <1>3
  <2>3. CASE j \in 1..Len(a)
    BY <1>2, <2>2, <2>3 DEF Ordered
  <2>4. CASE j = Len(a) + 1
    BY <1>2, <1>4, <1>6, <2>2, <2>4 DEF Ordered
  <2> QED
    BY <1>5, <2>3, <2>4
<1> QED
  BY <1>1, <1>2, <1>8, <1>9, <1>10, <1>12, <1>13 DEF Ordered, t, l

\* The first answer is read: none of the others is to the same request.
LEMMA OrderedRead ==
  ASSUME NEW q \in Seq(RoomRequests), NEW a \in Seq(RoomAnswers), NEW P, NEW n \in Nat,
         Ordered(q, a, P, n), a # <<>>,
         NEW R, {p \in P : p.id # Head(a).id} \subseteq R
  PROVE  /\ Tail(a) \in Seq(RoomAnswers)
         /\ Ordered(q, Tail(a), R, n)
<1> DEFINE t == Tail(a)
<1>1. /\ t \in Seq(RoomAnswers) /\ Head(a) = a[1] /\ Len(a) \in Nat \ {0} /\ Len(t) = Len(a) - 1
      /\ \A i \in 1..Len(a) - 1 : t[i] = a[i + 1]
  BY Less
<1>2. \A i \in 1..Len(t) : t[i] = a[i + 1] /\ i + 1 \in 1..Len(a) /\ i + 1 # 1 /\ i \in Nat
  BY <1>1
<1>3. 1 \in 1..Len(a)
  BY <1>1
<1>4. ASSUME NEW m, Awaits(m, P), m.id # a[1].id
      PROVE  Awaits(m, R)
  BY <1>1, <1>4 DEF Awaits
<1> HIDE DEF t
<1>5. \A i \in 1..Len(t) : t[i].id \in 1..n /\ t[i].id # a[1].id
  BY <1>2, <1>3 DEF Ordered
<1>6. \A i \in 1..Len(t) : Awaits(t[i], R)
  BY <1>2, <1>4, <1>5 DEF Ordered
<1>7. \A i \in 1..Len(q) : q[i].id \in 1..n /\ Awaits(q[i], R)
  BY <1>3, <1>4 DEF Ordered
<1>8. \A i, j \in 1..Len(t) : t[i].id = t[j].id => i = j
  <2>1. SUFFICES ASSUME NEW i \in 1..Len(t), NEW j \in 1..Len(t), t[i].id = t[j].id
                 PROVE  i = j
    OBVIOUS
  <2>2. t[i] = a[i + 1] /\ i + 1 \in 1..Len(a) /\ i \in Nat
    BY <1>2
  <2>3. t[j] = a[j + 1] /\ j + 1 \in 1..Len(a) /\ j \in Nat
    BY <1>2
  <2>4. \A k, l \in 1..Len(a) : a[k].id = a[l].id => k = l
    BY DEF Ordered
  <2>5. a[i + 1].id = a[j + 1].id
    BY <2>1, <2>2, <2>3
  <2>6. i + 1 = j + 1
    BY <2>2, <2>3, <2>4, <2>5
  <2> QED
    BY <2>2, <2>3, <2>6
<1>9. \A i \in 1..Len(q), j \in 1..Len(t) : q[i].id # t[j].id
  <2>1. SUFFICES ASSUME NEW i \in 1..Len(q), NEW j \in 1..Len(t)
                 PROVE  q[i].id # t[j].id
    OBVIOUS
  <2>2. t[j] = a[j + 1] /\ j + 1 \in 1..Len(a)
    BY <1>2
  <2> QED
    BY <2>2 DEF Ordered
<1> QED
  BY <1>1, <1>5, <1>6, <1>7, <1>8, <1>9 DEF Ordered, t

\* A refresh is given up.
LEMMA OrderedForgotten ==
  ASSUME NEW q, NEW a, NEW P, NEW n, Ordered(q, a, P, n), NEW p, p.type = "turn.refresh"
  PROVE  Ordered(q, a, P \ {p}, n)
<1>1. ASSUME NEW m, Awaits(m, P)
      PROVE  Awaits(m, P \ {p})
  BY <1>1 DEF Awaits
<1> QED
  BY <1>1 DEF Ordered

\* Another request about rooms is made only when none waits.
LEMMA OneMore ==
  ASSUME NEW n \in Nat, NEW P, P \subseteq [id : 1..n, type : Types], NEW op, OneAtATime(P, op),
         NEW type \in RoomTypes, NEW newOp,
         \/ type = "turn.refresh" /\ newOp = op
         \/ /\ op = ""
            /\ \/ type = "room.join" /\ newOp = "joining"
               \/ type = "room.leave" /\ newOp = "leave"
  PROVE  OneAtATime(P \cup {[id |-> n + 1, type |-> type]}, newOp)
<1> DEFINE x == [id |-> n + 1, type |-> type]
<1>1. \A p \in P : p.id \in 1..n
  OBVIOUS
<1>2. \A p \in P : p.id # x.id
  <2>1. \A k \in 1..n : k # n + 1
    BY NewNumber
  <2>2. x.id = n + 1
    OBVIOUS
  <2> QED
    BY <1>1, <2>1, <2>2
<1>3. type # "turn.refresh" => \A p \in P : p.type = "turn.refresh"
  BY DEF OneAtATime, RoomTypes
<1>4. x.type = type
  OBVIOUS
<1> HIDE DEF x
<1>5. \A p \in P \cup {x} : /\ p.type \in RoomTypes
                            /\ p.type = "room.join" => newOp = "joining"
                            /\ p.type = "room.leave" => newOp = "leave"
  BY <1>3, <1>4 DEF OneAtATime
<1>6. \A p, r \in P \cup {x} : p.id = r.id => p = r
  BY <1>2 DEF OneAtATime
<1>7. \A p, r \in P \cup {x} : (p.type = r.type /\ p.type # "turn.refresh") => p = r
  BY <1>3, <1>4 DEF OneAtATime
<1> QED
  BY <1>5, <1>6, <1>7 DEF OneAtATime, x

\* Once the request about rooms is answered, none waits.
LEMMA OneLess ==
  ASSUME NEW P, NEW op, OneAtATime(P, op), NEW p \in P, p.type # "turn.refresh"
  PROVE  OneAtATime({r \in P : r.id # p.id}, "")
<1>1. \A r \in P : r.id # p.id => r.type = "turn.refresh"
  BY DEF OneAtATime, RoomTypes
<1> QED
  BY <1>1 DEF OneAtATime

LEMMA OneStill ==
  ASSUME NEW P, NEW op, OneAtATime(P, op), NEW R, R \subseteq P
  PROVE  OneAtATime(R, op)
BY DEF OneAtATime

-----------------------------------------------------------------------------
(* The connection: what its phases say.                                    *)

\* The parts of the type invariant.
Flags ==
  /\ enabled \in BOOLEAN /\ accessToken \in BOOLEAN /\ grant \in BOOLEAN
  /\ serverMesh \in BOOLEAN /\ inRoom \in BOOLEAN /\ pendingJoin \in BOOLEAN
  /\ lost \in BOOLEAN /\ tokenValid \in BOOLEAN /\ blamed \in BOOLEAN
Numbers ==
  /\ nextRequest \in Nat /\ refresh \in 0..nextRequest
  /\ pending \subseteq [id : 1..nextRequest, type : Types]
Counts ==
  losses \in Nat /\ joins \in Nat /\ turns \in Nat /\ redeemed \in Nat
Stages ==
  /\ state \in States
  /\ operation \in {"", "join", "joining", "leave"}
  /\ mesh \in {"none", "joining", "joined"}
  /\ link \in {"none", "trying", "open"}
  /\ untried \in 0..1
  /\ session \in [access : {"none", "open", "granted"}, member : BOOLEAN]

LEMMA TypeParts == SessionTypeOK <=> Flags /\ Numbers /\ Counts /\ Stages
  BY Zenon DEF SessionTypeOK, Flags, Numbers, Counts, Stages

LEMMA Accesses ==
  /\ NoSession \in [access : {"none", "open", "granted"}, member : BOOLEAN]
  /\ [access |-> "granted", member |-> FALSE] \in [access : {"none", "open", "granted"}, member : BOOLEAN]
  BY DEF NoSession

\* One request more.
LEMMA OneRequest ==
  ASSUME NEW n \in Nat, NEW type \in RoomTypes
  PROVE  /\ Request(type, n + 1) \in RoomRequests
         /\ Request(type, n + 1).type = type /\ Request(type, n + 1).id = n + 1
         /\ \A P : P \subseteq [id : 1..n, type : Types] =>
                P \cup {[id |-> n + 1, type |-> type]} \subseteq [id : 1..n + 1, type : Types]
         /\ \A P : \E p \in P \cup {[id |-> n + 1, type |-> type]} : p.type = type
         /\ \A k \in 0..n : k \in 0..n + 1
<1>1. Request(type, n + 1) \in RoomRequests
  BY DEF Request, RoomRequests
<1>2. Request(type, n + 1).type = type /\ Request(type, n + 1).id = n + 1
  BY DEF Request
<1>3. [id |-> n + 1, type |-> type] \in [id : 1..n + 1, type : Types]
  BY DEF RoomTypes, Types
<1>4. [id : 1..n, type : Types] \subseteq [id : 1..n + 1, type : Types]
  OBVIOUS
<1>5. \A P : \E p \in P \cup {[id |-> n + 1, type |-> type]} : p.type = type
  <2> DEFINE x == [id |-> n + 1, type |-> type]
  <2>1. x.type = type
    OBVIOUS
  <2> HIDE DEF x
  <2>2. \A P : \E p \in P \cup {x} : p.type = type
    BY <2>1
  <2> QED
    BY <2>2 DEF x
<1>6. \A k \in 0..n : k \in 0..n + 1
  OBVIOUS
<1> QED
  BY <1>1, <1>2, <1>3, <1>4, <1>5, <1>6

LEMMA NotBusy ==
  ASSUME ~busy
  PROVE  operation = ""
  BY Zenon DEF busy

\* A socket that was reset is quiet, and the server has no session on it.
LEMMA HungUp ==
  ASSUME SessionTypeOK, resetSocket, state' \in Idle \cup {"Connecting"}
  PROVE  /\ Phases'
         /\ pending' = {} /\ refresh' = 0 /\ nextRequest' = 0 /\ turns' = 0
         /\ session' = NoSession /\ lost' \in BOOLEAN /\ tokenValid' \in BOOLEAN
<1>1. /\ pending' = {} /\ refresh' = 0 /\ nextRequest' = 0 /\ turns' = 0
      /\ session' = NoSession /\ up' = <<>> /\ down' = <<>>
  BY DEF resetSocket, abandon
<1>2. lost' \in {lost, TRUE} /\ tokenValid' \in {tokenValid, FALSE}
  BY DEF resetSocket, abandon
<1>3. lost' \in BOOLEAN
  BY <1>2 DEF SessionTypeOK
<1>4. tokenValid' \in BOOLEAN
  BY <1>2 DEF SessionTypeOK
<1>5. state' # "Authenticating" /\ state' # "Ready"
  BY DEF Idle
<1>6. Quiet'
  BY <1>1 DEF Quiet
<1> QED
  BY <1>1, <1>3, <1>4, <1>5, <1>6 DEF Phases

\* Only a challenge arrives in the first phase, only what became of a proof in
\* the second, and only answers about rooms in the last.
LEMMA ChallengeArrives ==
  ASSUME SessionInv, Arrives("challenge"), state = "Connecting"
  PROVE  Quiet /\ down = <<Challenge>> /\ session = Opened
<1>1. Quiet /\ down # <<>>
  BY DEF SessionInv, Phases, Arrives
<1> QED
  BY <1>1 DEF Quiet

LEMMA ProofAnswered ==
  ASSUME SessionInv, NEW kind \in {"reply", "error"}, Answers(kind, Proofs)
  PROVE  state = "Authenticating" /\ Proving
<1>1. down # <<>> /\ Head(down).kind = kind /\ Head(down).type \in Proofs /\ expected(Head(down))
  BY DEF Answers, Arrives
<1>2. state \in {"Authenticating", "Ready"}
  BY <1>1 DEF expected
<1>3. ASSUME state = "Ready"
      PROVE  FALSE
  <2>1. down \in Seq(RoomAnswers)
    BY <1>3 DEF SessionInv, Phases, Working
  <2>2. Head(down) \in RoomAnswers
    BY <1>1, <2>1, Less
  <2> QED
    BY <1>1, <2>2 DEF RoomAnswers, RoomTypes, Proofs
<1> QED
  BY <1>2, <1>3 DEF SessionInv, Phases

LEMMA RoomAnswered ==
  ASSUME SessionInv, NEW kind \in {"reply", "error"}, NEW types, types \subseteq RoomTypes,
         Answers(kind, types)
  PROVE  /\ state = "Ready" /\ Working
         /\ down # <<>> /\ Head(down) \in RoomAnswers
         /\ Head(down).kind = kind /\ Head(down).type \in types
         /\ [id |-> Head(down).id, type |-> Head(down).type] \in pending
<1>1. down # <<>> /\ Head(down).kind = kind /\ Head(down).type \in types /\ expected(Head(down))
  BY DEF Answers, Arrives
<1>2. /\ state \in {"Authenticating", "Ready"}
      /\ [id |-> Head(down).id, type |-> Head(down).type] \in pending
  BY <1>1 DEF expected
<1>3. ASSUME state = "Authenticating"
      PROVE  FALSE
  <2>1. PICK type \in Proofs : pending = {[id |-> 1, type |-> type]}
    BY <1>3 DEF SessionInv, Phases, Proving
  <2>2. Head(down).type = type
    BY <1>2, <2>1
  <2> QED
    BY <1>1, <2>2 DEF RoomTypes, Proofs
<1>4. state = "Ready" /\ Working
  BY <1>2, <1>3 DEF SessionInv, Phases
<1>5. Head(down) \in RoomAnswers
  BY <1>1, <1>4, Less DEF Working
<1> QED
  BY <1>1, <1>2, <1>4, <1>5

LEMMA ProofAsked ==
  ASSUME SessionInv, Asked(Proofs)
  PROVE  state = "Authenticating" /\ Proving
<1>1. up # <<>> /\ Head(up).type \in Proofs
  BY DEF Asked
<1>2. state \in {"Authenticating", "Ready"}
  BY <1>1 DEF SessionInv, SessionTypeOK, States, Idle, Phases, Quiet
<1>3. ASSUME state = "Ready"
      PROVE  FALSE
  <2>1. up \in Seq(RoomRequests)
    BY <1>3 DEF SessionInv, Phases, Working
  <2>2. Head(up) \in RoomRequests
    BY <1>1, <2>1, Less
  <2> QED
    BY <1>1, <2>2 DEF RoomRequests, RoomTypes, Proofs
<1> QED
  BY <1>2, <1>3 DEF SessionInv, Phases

LEMMA RoomAsked ==
  ASSUME SessionInv, NEW types, types \subseteq RoomTypes, Asked(types)
  PROVE  /\ state = "Ready" /\ Working
         /\ up # <<>> /\ Head(up) \in RoomRequests /\ Head(up).type \in types
<1>1. up # <<>> /\ Head(up).type \in types
  BY DEF Asked
<1>2. state \in {"Authenticating", "Ready"}
  BY <1>1 DEF SessionInv, SessionTypeOK, States, Idle, Phases, Quiet
<1>3. ASSUME state = "Authenticating"
      PROVE  FALSE
  <2>1. PICK type \in Proofs : up = <<Request(type, 1)>> \/ up = <<>>
    BY <1>3 DEF SessionInv, Phases, Proving
  <2>2. Head(up).type = type
    BY <1>1, <2>1 DEF Request
  <2> QED
    BY <1>1, <2>2 DEF RoomTypes, Proofs
<1>4. state = "Ready" /\ Working
  BY <1>2, <1>3 DEF SessionInv, Phases
<1>5. Head(up) \in RoomRequests
  BY <1>1, <1>4, Less DEF Working
<1> QED
  BY <1>1, <1>4, <1>5

-----------------------------------------------------------------------------
(* The steps that end a connection or begin one.                           *)

\* The connection is lost: a join that was under way is over with it.
LEMMA ConnectionIsLost ==
  ASSUME SessionInv, resetSocket, connectionLost, state' \in Idle,
         enabled' \in BOOLEAN, accessToken' \in BOOLEAN, grant' \in BOOLEAN,
         losses' \in Nat, joins' = joins, redeemed' = redeemed, blamed' = blamed,
         accessToken' => accessToken
  PROVE  SessionInv'
<1> USE DEF SessionInv
<1>1. /\ Phases' /\ pending' = {} /\ refresh' = 0 /\ nextRequest' = 0 /\ turns' = 0
      /\ session' = NoSession /\ lost' \in BOOLEAN /\ tokenValid' \in BOOLEAN
  BY HungUp
<1>2. /\ inRoom' = FALSE /\ operation' = "" /\ pendingJoin' = FALSE /\ untried' = 0
      /\ link' = "none" \/ (link' = link /\ link # "trying")
  BY DEF connectionLost
<1>3. (serverMesh' = FALSE /\ mesh' = "none") \/ (serverMesh' = serverMesh /\ mesh' = mesh)
  BY Zenon DEF connectionLost
<1>4. SessionTypeOK'
  <2>1. Flags'
    BY <1>1, <1>2, <1>3, TypeParts DEF Flags, States, Idle, NoSession
  <2>2. Numbers'
    BY <1>1 DEF Numbers
  <2>3. Counts'
    BY <1>1, <1>2, <1>3, TypeParts DEF Counts, States, Idle, NoSession
  <2>4. Stages'
    <3>1. state' \in States
      BY DEF States, Idle
    <3>2. session' \in [access : {"none", "open", "granted"}, member : BOOLEAN]
      BY <1>1 DEF NoSession
    <3>3. link' \in {"none", "trying", "open"}
      BY <1>2, TypeParts DEF Stages
    <3>4. mesh' \in {"none", "joining", "joined"}
      BY <1>3, TypeParts DEF Stages
    <3>5. operation' \in {"", "join", "joining", "leave"}
      BY <1>2
    <3>6. untried' \in 0..1
      <4>1. untried' = 0
        BY DEF connectionLost
      <4> QED
        BY <4>1
    <3> QED
      BY <3>1, <3>2, <3>3, <3>4, <3>5, <3>6, Zenon DEF Stages
  <2> QED
    BY <2>1, <2>2, <2>3, <2>4, Zenon DEF SessionTypeOK, Flags, Numbers, Counts, Stages
<1>5. MeshFits'
  <2>1. serverMesh' <=> mesh' # "none"
    BY <1>3 DEF MeshFits
  <2>2. link' # "trying"
    BY <1>2
  <2> QED
    BY <1>2, <2>1, <2>2 DEF MeshFits
<1>6. NoOrphanRoom' /\ OperationsEnd'
  BY <1>1, <1>2 DEF NoOrphanRoom, NoSession, OperationsEnd
<1>7. TokenOnce' /\ ~blamed'
  BY DEF TokenOnce
<1> QED
  BY <1>1, <1>4, <1>5, <1>6, <1>7

LEMMA ConnectionFailing ==
  ASSUME SessionInv, fail, losses' \in Nat, joins' = joins, redeemed' = redeemed, blamed' = blamed
  PROVE  SessionInv'
<1>1. resetSocket /\ connectionLost /\ state' \in Idle
  BY DEF fail, Idle
<1>2. enabled' \in BOOLEAN /\ accessToken' \in BOOLEAN /\ grant' \in BOOLEAN
  BY DEF fail, SessionInv, SessionTypeOK
<1>3. accessToken' => accessToken
  BY DEF fail
<1> QED
  BY <1>1, <1>2, <1>3, ConnectionIsLost

LEMMA AccessRequired ==
  ASSUME SessionInv, requireAccess, losses' = losses, joins' = joins, redeemed' = redeemed,
         blamed' = blamed
  PROVE  SessionInv'
<1>1. resetSocket /\ connectionLost /\ state' \in Idle
  BY DEF requireAccess, Idle
<1>2. enabled' \in BOOLEAN /\ accessToken' \in BOOLEAN /\ grant' \in BOOLEAN /\ losses' \in Nat
  BY DEF requireAccess, SessionInv, SessionTypeOK
<1>3. accessToken' => accessToken
  BY DEF requireAccess
<1> QED
  BY <1>1, <1>2, <1>3, ConnectionIsLost

LEMMA ConnectStep ==
  ASSUME SessionInv, connectTo
  PROVE  SessionInv'
<1> USE DEF SessionInv
<1>1. /\ state' = "Connecting" /\ enabled' \in BOOLEAN /\ accessToken' = FALSE /\ resetSocket
      /\ joins' = joins + 1 /\ ~serverMesh /\ ~busy
  BY DEF connectTo, hangUp
<1>2. /\ Phases' /\ pending' = {} /\ refresh' = 0 /\ nextRequest' = 0 /\ turns' = 0
      /\ session' = NoSession /\ lost' \in BOOLEAN /\ tokenValid' \in BOOLEAN
  BY <1>1, HungUp
<1>3. UNCHANGED <<grant, serverMesh, inRoom, operation, pendingJoin, mesh, link, untried, redeemed,
                  blamed, losses>>
  BY DEF connectTo, meshVars
<1>4. operation = ""
  BY <1>1, NotBusy
<1>5. SessionTypeOK'
  <2>1. Flags'
    BY <1>1, <1>2, <1>3, TypeParts DEF Flags, States, NoSession
  <2>2. Numbers'
    BY <1>1, <1>2, <1>3, TypeParts DEF Numbers, States, NoSession
  <2>3. Counts'
    BY <1>1, <1>2, <1>3, TypeParts DEF Counts, States, NoSession
  <2>4. Stages'
    BY <1>1, <1>2, <1>3, TypeParts DEF Stages, States, NoSession
  <2> QED
    BY <2>1, <2>2, <2>3, <2>4, Zenon DEF SessionTypeOK, Flags, Numbers, Counts, Stages
<1>6. MeshFits'
  BY <1>3, <1>4 DEF MeshFits
<1>7. NoOrphanRoom' /\ OperationsEnd'
  BY <1>2, <1>3, <1>4 DEF NoOrphanRoom, NoSession, OperationsEnd
<1>8. TokenOnce' /\ ~blamed'
  BY <1>1, <1>3 DEF TokenOnce
<1> QED
  BY <1>2, <1>5, <1>6, <1>7, <1>8

LEMMA RedeemStep ==
  ASSUME SessionInv, redeemAccess
  PROVE  SessionInv'
<1> USE DEF SessionInv
<1>1. /\ state \in Idle /\ state' = "Connecting" /\ enabled' = TRUE /\ nextRequest' = 0
      /\ state # "Connecting"
      /\ accessToken' = TRUE /\ tokenValid' = TRUE /\ redeemed' = 0 /\ joins' = joins + 1
      /\ ~busy
  BY DEF redeemAccess, Idle
<1>2. UNCHANGED <<grant, pending, refresh, up, down, serverMesh, inRoom, operation, pendingJoin,
                  mesh, link, untried, session, lost, blamed, losses, turns>>
  BY DEF redeemAccess, wireVars, meshVars
<1>3. operation = ""
  BY <1>1, NotBusy
<1>4. Quiet
  BY <1>1 DEF Phases
<1>5. Phases'
  <2>1. Quiet'
    BY <1>1, <1>2, <1>4 DEF Quiet
  <2> QED
    BY <1>1, <2>1 DEF Phases
<1>6. SessionTypeOK'
  <2>1. Flags'
    BY <1>1, <1>2, <1>4, TypeParts DEF Flags, States, Quiet
  <2>2. Numbers'
    BY <1>1, <1>2, <1>4, TypeParts DEF Numbers, States, Quiet
  <2>3. Counts'
    BY <1>1, <1>2, <1>4, TypeParts DEF Counts, States, Quiet
  <2>4. Stages'
    BY <1>1, <1>2, <1>4, TypeParts DEF Stages, States, Quiet
  <2> QED
    BY <2>1, <2>2, <2>3, <2>4, Zenon DEF SessionTypeOK, Flags, Numbers, Counts, Stages
<1>7. MeshFits' /\ NoOrphanRoom' /\ OperationsEnd'
  BY <1>2, <1>3 DEF MeshFits, NoOrphanRoom, OperationsEnd
<1>8. TokenOnce' /\ ~blamed'
  BY <1>1, <1>2 DEF TokenOnce
<1> QED
  BY <1>5, <1>6, <1>7, <1>8

LEMMA ReconnectStep ==
  ASSUME SessionInv, Reconnect
  PROVE  SessionInv'
<1> USE DEF SessionInv
<1>1. state = "Reconnecting" /\ state' = "Connecting" /\ nextRequest' = 0
  BY DEF Reconnect
<1>2. UNCHANGED <<enabled, accessToken, grant, pending, refresh, up, down, serverMesh, inRoom,
                  operation, pendingJoin, mesh, link, untried, session, lost, tokenValid, redeemed,
                  blamed, losses, joins, turns>>
  BY DEF Reconnect, wireVars, meshVars, serverVars, countVars
<1>3. Quiet
  BY <1>1 DEF Phases, Idle
<1>4. Phases'
  <2>1. Quiet'
    BY <1>1, <1>2, <1>3 DEF Quiet
  <2> QED
    BY <1>1, <2>1 DEF Phases
<1>5. SessionTypeOK'
  <2>1. Flags'
    BY <1>1, <1>2, <1>3, TypeParts DEF Flags, States, Quiet
  <2>2. Numbers'
    BY <1>1, <1>2, <1>3, TypeParts DEF Numbers, States, Quiet
  <2>3. Counts'
    BY <1>1, <1>2, <1>3, TypeParts DEF Counts, States, Quiet
  <2>4. Stages'
    BY <1>1, <1>2, <1>3, TypeParts DEF Stages, States, Quiet
  <2> QED
    BY <2>1, <2>2, <2>3, <2>4, Zenon DEF SessionTypeOK, Flags, Numbers, Counts, Stages
<1>6. MeshFits' /\ NoOrphanRoom' /\ OperationsEnd'
  BY <1>1, <1>2 DEF MeshFits, NoOrphanRoom, OperationsEnd
<1>7. TokenOnce' /\ ~blamed'
  BY <1>2 DEF TokenOnce
<1> QED
  BY <1>4, <1>5, <1>6, <1>7

LEMMA AcceptStep ==
  ASSUME SessionInv, Accept
  PROVE  SessionInv'
<1> USE DEF SessionInv
<1>1. /\ state = "Connecting" /\ session.access = "none" /\ session' = Opened
      /\ down' = Append(down, Challenge)
  BY DEF Accept
<1>2. UNCHANGED <<state, enabled, accessToken, grant, nextRequest, pending, refresh, up, serverMesh,
                  inRoom, operation, pendingJoin, mesh, link, untried, lost, tokenValid, redeemed,
                  blamed, losses, joins, turns>>
  BY DEF Accept, clientVars, meshVars, countVars
<1>3. Quiet /\ down = <<>>
  BY <1>1 DEF Phases, Quiet, Opened
<1>4. down' = <<Challenge>>
  BY <1>1, <1>3
<1>5. Phases'
  <2>1. Quiet'
    BY <1>1, <1>2, <1>3, <1>4 DEF Quiet
  <2> QED
    BY <1>1, <1>2, <2>1 DEF Phases
<1>6. SessionTypeOK'
  <2>1. Flags'
    BY <1>1, <1>2, TypeParts DEF Flags, Opened
  <2>2. Numbers'
    BY <1>1, <1>2, TypeParts DEF Numbers, Opened
  <2>3. Counts'
    BY <1>1, <1>2, TypeParts DEF Counts, Opened
  <2>4. Stages'
    BY <1>1, <1>2, TypeParts DEF Stages, Opened
  <2> QED
    BY <2>1, <2>2, <2>3, <2>4, Zenon DEF SessionTypeOK, Flags, Numbers, Counts, Stages
<1>7. MeshFits' /\ NoOrphanRoom' /\ OperationsEnd'
  BY <1>1, <1>2 DEF MeshFits, NoOrphanRoom, OperationsEnd, Opened
<1>8. TokenOnce' /\ ~blamed'
  BY <1>2 DEF TokenOnce
<1> QED
  BY <1>5, <1>6, <1>7, <1>8

LEMMA ConnectionFailsStep ==
  ASSUME SessionInv, ConnectionFails
  PROVE  SessionInv'
<1>1. losses' \in Nat
  BY TypeParts DEF ConnectionFails, SessionInv, Counts
<1> QED
  BY <1>1, ConnectionFailing DEF ConnectionFails

LEMMA NoticeStep ==
  ASSUME SessionInv, ServerNotices
  PROVE  SessionInv'
<1> USE DEF SessionInv
<1>1. /\ lost' = FALSE
      /\ UNCHANGED <<state, enabled, accessToken, grant, nextRequest, pending, refresh, up, down,
                     serverMesh, inRoom, operation, pendingJoin, mesh, link, untried, session,
                     tokenValid, redeemed, blamed, losses, joins, turns>>
  BY DEF ServerNotices, clientVars, wireVars, meshVars, countVars
<1>2. SessionTypeOK'
  <2>1. Flags'
    BY <1>1, TypeParts DEF Flags
  <2>2. Numbers'
    BY <1>1, TypeParts DEF Numbers
  <2>3. Counts'
    BY <1>1, TypeParts DEF Counts
  <2>4. Stages'
    BY <1>1, TypeParts DEF Stages
  <2> QED
    BY <2>1, <2>2, <2>3, <2>4, Zenon DEF SessionTypeOK, Flags, Numbers, Counts, Stages
<1>3. Phases'
  BY <1>1 DEF Phases, Quiet, Proving, Working
<1>4. MeshFits' /\ NoOrphanRoom' /\ OperationsEnd' /\ TokenOnce' /\ ~blamed'
  BY <1>1 DEF MeshFits, NoOrphanRoom, OperationsEnd, TokenOnce
<1> QED
  BY <1>2, <1>3, <1>4

LEMMA AccessMissingStep ==
  ASSUME SessionInv, AccessMissing
  PROVE  SessionInv'
  BY AccessRequired DEF AccessMissing

-----------------------------------------------------------------------------
(* The steps of the proof.                                                 *)

LEMMA ChallengeStep ==
  ASSUME SessionInv, handleChallenge
  PROVE  SessionInv'
<1> USE DEF SessionInv
<1>1. PICK type \in Proofs :
        /\ request(type) /\ accessToken' = FALSE
        /\ redeemed' = redeemed \/ (accessToken /\ redeemed' = redeemed + 1)
  BY TypeParts DEF handleChallenge, redeemToken, Proofs, Flags
<1>2. /\ Arrives("challenge") /\ state = "Connecting"
      /\ state' = "Authenticating" /\ down' = Tail(down) /\ grant' = grant
  BY DEF handleChallenge
<1>3. UNCHANGED <<enabled, refresh, serverMesh, inRoom, operation, pendingJoin, mesh, link, untried,
                  session, lost, tokenValid, blamed, losses, joins, turns>>
  BY DEF handleChallenge, meshVars, serverVars, countVars
<1>4. Quiet /\ down = <<Challenge>> /\ session = Opened
  BY <1>2, ChallengeArrives
<1>5. pending = {} /\ refresh = 0 /\ nextRequest = 0 /\ up = <<>>
  BY <1>4 DEF Quiet
<1>6. /\ nextRequest' = 1 /\ pending' = {[id |-> 1, type |-> type]}
      /\ up' = <<Request(type, 1)>> /\ down' = <<>>
  BY <1>1, <1>2, <1>4, <1>5 DEF request
<1>7. Phases'
  <2>1. Proving'
    BY <1>3, <1>4, <1>5, <1>6 DEF Proving
  <2> QED
    BY <1>2, <2>1 DEF Phases, Idle
<1>8. redeemed \in Nat
  BY TypeParts DEF Counts
<1>9. SessionTypeOK'
  <2>1. Flags'
    BY <1>1, <1>2, <1>3, TypeParts DEF Flags
  <2>2. Numbers'
    BY <1>3, <1>5, <1>6, TypeParts DEF Numbers, Types, Proofs
  <2>3. Counts'
    BY <1>1, <1>3, TypeParts DEF Counts
  <2>4. Stages'
    BY <1>2, <1>3, TypeParts DEF Stages, States
  <2> QED
    BY <2>1, <2>2, <2>3, <2>4, Zenon DEF SessionTypeOK, Flags, Numbers, Counts, Stages
<1>10. MeshFits' /\ NoOrphanRoom' /\ OperationsEnd'
  BY <1>2, <1>3, <1>4 DEF MeshFits, NoOrphanRoom, OperationsEnd, Opened
<1>11. TokenOnce' /\ ~blamed'
  BY <1>1, <1>3, <1>8 DEF TokenOnce
<1> QED
  BY <1>7, <1>9, <1>10, <1>11

LEMMA NothingAsked ==
  /\ <<>> \in Seq(RoomRequests) /\ <<>> \in Seq(RoomAnswers)
  /\ \A n \in Nat : Ordered(<<>>, <<>>, {}, n)
  /\ OneAtATime({}, "")
  /\ NoPlace(<<>>, <<>>, FALSE)
<1>1. \A i : i \notin 1..Len(<<>>)
  OBVIOUS
<1>2. <<>> \in Seq(RoomRequests) /\ <<>> \in Seq(RoomAnswers)
  OBVIOUS
<1> QED
  BY <1>1, <1>2 DEF Ordered, OneAtATime, NoPlace

\* The client is ready: the join that waited is asked for.
LEMMA ReadyStep ==
  ASSUME SessionInv, handleAuthenticationResponse
  PROVE  SessionInv'
<1> USE DEF SessionInv
<1>1. Answers("reply", Proofs) /\ becomeReady /\ grant' \in BOOLEAN
  BY TypeParts DEF handleAuthenticationResponse, Proofs, Flags
<1>2. state = "Authenticating" /\ Proving /\ down # <<>> /\ Head(down).kind = "reply"
  BY <1>1, ProofAnswered DEF Answers, Arrives
<1>3. UNCHANGED <<enabled, accessToken, refresh, serverMesh, inRoom, pendingJoin, mesh, link, untried,
                  session, lost, tokenValid, redeemed, blamed, losses, joins, turns>>
  BY <1>1 DEF handleAuthenticationResponse, becomeReady, countVars
<1>4. PICK type \in Proofs : down = <<Reply(type, 1)>> \/ \E code : down = <<Error(type, 1, code)>>
  BY <1>2 DEF Proving
<1>5. down = <<Reply(type, 1)>>
  BY <1>2, <1>4 DEF Error
<1>6. /\ up = <<>> /\ refresh = 0 /\ nextRequest = 1
      /\ session = [access |-> "granted", member |-> FALSE]
  BY <1>2, <1>5 DEF Proving, Reply, Error, Opened, Challenge
<1>7. state' = "Ready" /\ down' = <<>>
  BY <1>1, <1>5 DEF becomeReady
<1>8. operation \in {"", "join"}
  BY <1>2, TypeParts DEF MeshFits, Stages
<1>9. ASSUME pendingJoin, operation = "join"
      PROVE  Working' /\ Numbers' /\ OperationsEnd' /\ MeshFits' /\ operation' \in {"", "joining"}
  <2>1. /\ nextRequest' = 2 /\ pending' = {[id |-> 2, type |-> "room.join"]}
        /\ up' = Append(<<>>, Request("room.join", 2)) /\ operation' = "joining"
    BY <1>1, <1>6, <1>9 DEF becomeReady
  <2>2. {} \cup {[id |-> 2, type |-> "room.join"]} = {[id |-> 2, type |-> "room.join"]}
    OBVIOUS
  <2>3. 1 + 1 = 2 /\ 1 \in Nat /\ "room.join" \in RoomTypes
    BY DEF RoomTypes
  <2>4. /\ Append(<<>>, Request("room.join", 2)) \in Seq(RoomRequests)
        /\ Ordered(Append(<<>>, Request("room.join", 2)), <<>>, pending', 2)
    BY <2>1, <2>2, <2>3, NothingAsked, OrderedAsked
  <2>5. OneAtATime(pending', "joining")
    BY <2>1, <2>2, <2>3, NothingAsked, OneMore
  <2>6. NoPlace(up', down', FALSE)
    BY DEF NoPlace
  <2>7. Working'
    BY <1>3, <1>6, <1>7, <2>1, <2>4, <2>5, <2>6, NothingAsked DEF Working
  <2>8. Numbers'
    BY <1>3, <1>6, <2>1 DEF Numbers, Types
  <2>9. OperationsEnd'
    BY <2>1 DEF OperationsEnd
  <2>10. MeshFits'
    BY <1>3, <1>7, <1>9, <2>1 DEF MeshFits
  <2> QED
    BY <2>1, <2>7, <2>8, <2>9, <2>10
<1>10. ASSUME ~(pendingJoin /\ operation = "join")
       PROVE  Working' /\ Numbers' /\ OperationsEnd' /\ MeshFits' /\ operation' \in {"", "joining"}
  <2>1. pending' = {} /\ up' = <<>> /\ operation' = operation /\ nextRequest' = 1
    BY <1>1, <1>6, <1>10 DEF becomeReady
  <2>2. operation = ""
    BY <1>8, <1>10 DEF MeshFits
  <2>3. Working'
    BY <1>3, <1>6, <1>7, <2>1, <2>2, NothingAsked DEF Working
  <2>4. Numbers'
    BY <1>3, <1>6, <2>1 DEF Numbers, Types
  <2>5. OperationsEnd'
    BY <2>1, <2>2 DEF OperationsEnd
  <2>6. MeshFits'
    BY <1>3, <1>7, <2>1, <2>2 DEF MeshFits
  <2> QED
    BY <2>1, <2>2, <2>3, <2>4, <2>5, <2>6
<1>11. Working' /\ Numbers' /\ OperationsEnd' /\ MeshFits' /\ operation' \in {"", "joining"}
  BY <1>9, <1>10
<1>12. Phases'
  BY <1>7, <1>11 DEF Phases, Idle
<1>13. SessionTypeOK'
  <2>1. Flags'
    BY <1>1, <1>3, TypeParts DEF Flags
  <2>2. Counts'
    BY <1>3, TypeParts DEF Counts
  <2>3. Stages'
    BY <1>3, <1>7, <1>11, TypeParts DEF Stages, States
  <2> QED
    BY <1>11, <2>1, <2>2, <2>3, Zenon DEF SessionTypeOK, Flags, Numbers, Counts, Stages
<1>14. NoOrphanRoom' /\ TokenOnce' /\ ~blamed'
  BY <1>3, <1>6 DEF NoOrphanRoom, TokenOnce
<1> QED
  BY <1>11, <1>12, <1>13, <1>14

\* A refused proof ends the connection.
LEMMA RefusedStep ==
  ASSUME SessionInv, AuthenticationFails
  PROVE  SessionInv'
<1>1. /\ fail \/ requireAccess
      /\ redeemed' = redeemed /\ blamed' = blamed /\ losses' = losses /\ joins' = joins
  BY DEF AuthenticationFails
<1>2. losses' \in Nat
  BY <1>1, TypeParts DEF Counts, SessionInv
<1> QED
  BY <1>1, <1>2, ConnectionFailing, AccessRequired

\* The server answers the proof.
LEMMA ProofServed ==
  ASSUME SessionInv, ServeProof
  PROVE  SessionInv'
<1> USE DEF SessionInv
<1>1. Asked(Proofs)
  BY DEF ServeProof, Proofs
<1>2. state = "Authenticating" /\ Proving /\ up # <<>>
  BY <1>1, ProofAsked DEF Asked
<1>3. PICK type \in Proofs : /\ pending = {[id |-> 1, type |-> type]}
                             /\ up = <<Request(type, 1)>> /\ down = <<>> /\ session = Opened
  BY <1>2 DEF Proving
<1>4. Head(up).type = type /\ Head(up).id = 1 /\ Tail(up) = <<>>
  BY <1>3 DEF Request
<1>5. /\ UNCHANGED <<state, enabled, accessToken, grant, nextRequest, pending, refresh, serverMesh,
                     inRoom, operation, pendingJoin, mesh, link, untried, lost, redeemed, blamed,
                     losses, joins, turns>>
      /\ up' = Tail(up)
  BY DEF ServeProof, refused, granted, answer, clientVars, meshVars, countVars
<1>6. \/ /\ session' = NoSession
         /\ \E code \in {"identity_in_use", "access_denied"} : down' = Append(down, Error(type, 1, code))
      \/ /\ session' = [session EXCEPT !.access = "granted"]
         /\ down' = Append(down, Reply(type, 1))
  BY <1>4 DEF ServeProof, granted, answer
<1>7. tokenValid' \in BOOLEAN
  BY TypeParts DEF ServeProof, Flags
<1>8. Proving'
  BY <1>2, <1>3, <1>4, <1>5, <1>6 DEF Proving
<1>9. session' = NoSession \/ session' = [access |-> "granted", member |-> FALSE]
  BY <1>3, <1>6 DEF Opened
<1>10. Phases'
  BY <1>2, <1>5, <1>8 DEF Phases, Idle
<1>11. SessionTypeOK'
  <2>1. Flags'
    BY <1>5, <1>7, TypeParts DEF Flags
  <2>2. Numbers'
    BY <1>5, TypeParts DEF Numbers
  <2>3. Counts'
    BY <1>5, TypeParts DEF Counts
  <2>4. Stages'
    <3>1. session' \in [access : {"none", "open", "granted"}, member : BOOLEAN]
      BY <1>9, Accesses
    <3> QED
      BY <1>5, <3>1, TypeParts DEF Stages
  <2> QED
    BY <2>1, <2>2, <2>3, <2>4, Zenon DEF SessionTypeOK, Flags, Numbers, Counts, Stages
<1>12. MeshFits' /\ OperationsEnd' /\ TokenOnce' /\ ~blamed'
  BY <1>5 DEF MeshFits, OperationsEnd, TokenOnce
<1>13. NoOrphanRoom'
  BY <1>9 DEF NoOrphanRoom, NoSession
<1> QED
  BY <1>10, <1>11, <1>12, <1>13

-----------------------------------------------------------------------------
(* The steps of a client that is ready.                                    *)

\* A request to join is made by a client that has no place yet.
LEMMA NoPlaceAsked ==
  ASSUME NEW q \in Seq(RoomRequests), NEW a, NEW member, NoPlace(q, a, member),
         NEW x \in RoomRequests, x.type = "room.join" => ~member
  PROVE  NoPlace(Append(q, x), a, member)
<1> DEFINE l == Append(q, x)
<1>1. /\ Len(q) \in Nat /\ Len(l) = Len(q) + 1 /\ l[Len(q) + 1] = x
      /\ \A i \in 1..Len(q) : l[i] = q[i]
  BY More
<1>2. \A i \in 1..Len(l) : i \in 1..Len(q) \/ i = Len(q) + 1
  BY <1>1
<1> HIDE DEF l
<1> QED
  BY <1>1, <1>2 DEF NoPlace, l

\* A request is one more that waits.
LEMMA Requesting ==
  ASSUME SessionInv, state = "Ready", NEW type \in RoomTypes, request(type),
         UNCHANGED <<state, down, session>>, NEW newOp, operation' = newOp,
         \/ type = "turn.refresh" /\ newOp = operation
         \/ /\ operation = ""
            /\ \/ type = "room.join" /\ newOp = "joining" /\ ~session.member
               \/ type = "room.leave" /\ newOp = "leave"
  PROVE  /\ Phases'
         /\ nextRequest' = nextRequest + 1 /\ nextRequest \in Nat
         /\ pending' = pending \cup {[id |-> nextRequest + 1, type |-> type]}
         /\ pending' \subseteq [id : 1..nextRequest + 1, type : Types]
<1>1. /\ nextRequest' = nextRequest + 1
      /\ pending' = pending \cup {[id |-> nextRequest + 1, type |-> type]}
      /\ up' = Append(up, Request(type, nextRequest + 1))
  BY DEF request
<1>2. nextRequest \in Nat /\ pending \subseteq [id : 1..nextRequest, type : Types]
  BY TypeParts DEF SessionInv, Numbers
<1>3. /\ session.access = "granted" /\ up \in Seq(RoomRequests) /\ down \in Seq(RoomAnswers)
      /\ Ordered(up, down, pending, nextRequest) /\ OneAtATime(pending, operation)
      /\ NoPlace(up, down, session.member)
  BY DEF SessionInv, Phases, Working
<1>4. up' \in Seq(RoomRequests) /\ Ordered(up', down, pending', nextRequest')
  BY <1>1, <1>2, <1>3, OrderedAsked
<1>5. OneAtATime(pending', newOp)
  BY <1>1, <1>2, <1>3, OneMore
<1>6. NoPlace(up', down, session.member)
  <2> DEFINE x == Request(type, nextRequest + 1)
  <2>1. x \in RoomRequests /\ x.type = type /\ up' = Append(up, x)
    BY <1>1, <1>2, OneRequest
  <2>2. x.type = "room.join" => ~session.member
    BY <2>1
  <2> HIDE DEF x
  <2> QED
    BY <1>3, <2>1, <2>2, NoPlaceAsked
<1>7. Working'
  BY <1>3, <1>4, <1>5, <1>6 DEF Working
<1>8. Phases'
  BY <1>7 DEF Phases, Idle
<1>9. pending' \subseteq [id : 1..nextRequest + 1, type : Types]
  <2>1. pending \subseteq [id : 1..nextRequest, type : Types]
          => pending \cup {[id |-> nextRequest + 1, type |-> type]} \subseteq [id : 1..nextRequest + 1, type : Types]
    <3>1. nextRequest \in Nat
      BY <1>2
    <3> QED
      BY <3>1, OneRequest, Zenon
  <2> QED
    BY <1>1, <1>2, <2>1
<1> QED
  BY <1>1, <1>2, <1>8, <1>9

\* An answer is read, and the request it answers waits no longer.
LEMMA Reading ==
  ASSUME SessionInv, state = "Ready", down # <<>>, down' = Tail(down), pending' \subseteq pending,
         {p \in pending : p.id # Head(down).id} \subseteq pending',
         OneAtATime(pending', operation'), UNCHANGED <<state, nextRequest, up, session>>
  PROVE  Phases'
<1>1. nextRequest \in Nat
  BY TypeParts DEF SessionInv, Numbers
<1>2. /\ session.access = "granted" /\ up \in Seq(RoomRequests) /\ down \in Seq(RoomAnswers)
      /\ Ordered(up, down, pending, nextRequest) /\ NoPlace(up, down, session.member)
  BY DEF SessionInv, Phases, Working
<1>3. down' \in Seq(RoomAnswers) /\ Ordered(up, down', pending', nextRequest)
  BY <1>1, <1>2, OrderedRead
<1>4. NoPlace(up, down', session.member)
  <2>1. /\ Len(down) \in Nat \ {0} /\ Len(down') = Len(down) - 1
        /\ \A i \in 1..Len(down) - 1 : down'[i] = down[i + 1]
    BY <1>2, Less
  <2>2. \A i \in 1..Len(down') : down'[i] = down[i + 1] /\ i + 1 \in 1..Len(down)
    BY <2>1
  <2> QED
    BY <1>2, <2>2 DEF NoPlace
<1>5. Working'
  BY <1>2, <1>3, <1>4 DEF Working
<1> QED
  BY <1>5 DEF Phases, Idle

LEMMA MaintainStep ==
  ASSUME SessionInv, maintainTurnCredentials
  PROVE  SessionInv'
<1> USE DEF SessionInv
<1>1. state = "Ready" /\ request("turn.refresh") /\ refresh' = nextRequest + 1 /\ turns' = turns + 1
  BY DEF maintainTurnCredentials, ready
<1>2. UNCHANGED <<state, enabled, accessToken, grant, down, serverMesh, inRoom, operation, pendingJoin,
                  mesh, link, untried, session, lost, tokenValid, redeemed, blamed, losses, joins>>
  BY DEF maintainTurnCredentials, meshVars, serverVars
<1>3. /\ Phases'
      /\ nextRequest' = nextRequest + 1 /\ nextRequest \in Nat
      /\ pending' = pending \cup {[id |-> nextRequest + 1, type |-> "turn.refresh"]}
      /\ pending' \subseteq [id : 1..nextRequest + 1, type : Types]
  <2>1. "turn.refresh" \in RoomTypes
    BY DEF RoomTypes
  <2> QED
    BY <1>1, <1>2, <2>1, Requesting
<1>4. SessionTypeOK'
  <2>1. Flags'
    BY <1>2, TypeParts DEF Flags
  <2>2. Numbers'
    BY <1>1, <1>3 DEF Numbers
  <2>3. Counts'
    BY <1>1, <1>2, TypeParts DEF Counts
  <2>4. Stages'
    BY <1>2, TypeParts DEF Stages
  <2> QED
    BY <2>1, <2>2, <2>3, <2>4, Zenon DEF SessionTypeOK, Flags, Numbers, Counts, Stages
<1>5. MeshFits' /\ NoOrphanRoom' /\ OperationsEnd' /\ TokenOnce' /\ ~blamed'
  BY <1>2, <1>3 DEF MeshFits, NoOrphanRoom, OperationsEnd, TokenOnce
<1> QED
  BY <1>3, <1>4, <1>5

LEMMA TimeoutStep ==
  ASSUME SessionInv, RefreshTimesOut
  PROVE  SessionInv'
<1> USE DEF SessionInv
<1>1. PICK p \in pending : /\ p.type = "turn.refresh" /\ pending' = pending \ {p}
                           /\ refresh' = 0 \/ refresh' = refresh
  BY DEF RefreshTimesOut
<1>2. state = "Ready"
  BY DEF RefreshTimesOut, ready
<1>3. UNCHANGED <<state, enabled, accessToken, grant, nextRequest, up, down, serverMesh, inRoom,
                  operation, pendingJoin, mesh, link, untried, session, lost, tokenValid, redeemed,
                  blamed, losses, joins, turns>>
  BY DEF RefreshTimesOut, wireVars, meshVars, serverVars, countVars
<1>4. /\ session.access = "granted" /\ up \in Seq(RoomRequests) /\ down \in Seq(RoomAnswers)
      /\ Ordered(up, down, pending, nextRequest) /\ OneAtATime(pending, operation)
      /\ NoPlace(up, down, session.member)
  BY <1>2 DEF Phases, Working
<1>5. Ordered(up, down, pending', nextRequest)
  BY <1>1, <1>4, OrderedForgotten
<1>6. OneAtATime(pending', operation)
  <2>1. pending' \subseteq pending
    BY <1>1
  <2> QED
    BY <1>4, <2>1, OneStill
<1>7. Phases'
  <2>1. Working'
    BY <1>3, <1>4, <1>5, <1>6 DEF Working
  <2> QED
    BY <1>2, <1>3, <2>1 DEF Phases, Idle
<1>8. SessionTypeOK'
  <2>1. Flags'
    BY <1>3, TypeParts DEF Flags
  <2>2. Numbers'
    BY <1>1, <1>3, TypeParts DEF Numbers
  <2>3. Counts'
    BY <1>3, TypeParts DEF Counts
  <2>4. Stages'
    BY <1>3, TypeParts DEF Stages
  <2> QED
    BY <2>1, <2>2, <2>3, <2>4, Zenon DEF SessionTypeOK, Flags, Numbers, Counts, Stages
<1>9. MeshFits' /\ TokenOnce' /\ ~blamed'
  BY <1>3 DEF MeshFits, TokenOnce
<1>10. NoOrphanRoom' /\ OperationsEnd'
  BY <1>1, <1>3 DEF NoOrphanRoom, OperationsEnd
<1> QED
  BY <1>7, <1>8, <1>9, <1>10

LEMMA RefreshStep ==
  ASSUME SessionInv, RefreshAnswered
  PROVE  SessionInv'
<1> USE DEF SessionInv
<1>1. PICK kind \in {"reply", "error"} : Answers(kind, {"turn.refresh"})
  BY DEF RefreshAnswered
<1>2. {"turn.refresh"} \subseteq RoomTypes
  BY DEF RoomTypes
<1>3. /\ state = "Ready" /\ Working /\ down # <<>> /\ Head(down).type = "turn.refresh"
      /\ [id |-> Head(down).id, type |-> Head(down).type] \in pending
  BY <1>1, <1>2, RoomAnswered
<1>4. /\ pending' = {p \in pending : p.id # Head(down).id} /\ down' = Tail(down) /\ refresh' = 0
      /\ UNCHANGED <<state, enabled, accessToken, grant, nextRequest, up, serverMesh, inRoom,
                     operation, pendingJoin, mesh, link, untried, session, lost, tokenValid, redeemed,
                     blamed, losses, joins, turns>>
  BY DEF RefreshAnswered, read, meshVars, serverVars, countVars
<1>5. pending' \subseteq pending /\ {p \in pending : p.id # Head(down).id} \subseteq pending'
  BY <1>4
<1>6. OneAtATime(pending, operation) /\ OneAtATime(pending', operation')
  BY <1>3, <1>4, <1>5, OneStill DEF Working
<1>7. Phases'
  BY <1>3, <1>4, <1>5, <1>6, Reading
<1>8. SessionTypeOK'
  <2>1. Flags'
    BY <1>4, TypeParts DEF Flags
  <2>2. Numbers'
    BY <1>4, <1>5, TypeParts DEF Numbers
  <2>3. Counts'
    BY <1>4, TypeParts DEF Counts
  <2>4. Stages'
    BY <1>4, TypeParts DEF Stages
  <2> QED
    BY <2>1, <2>2, <2>3, <2>4, Zenon DEF SessionTypeOK, Flags, Numbers, Counts, Stages
<1>9. \A p \in pending : p.type # "turn.refresh" => p \in pending'
  BY <1>3, <1>4, <1>6 DEF OneAtATime
<1>10. MeshFits' /\ TokenOnce' /\ ~blamed'
  BY <1>4 DEF MeshFits, TokenOnce
<1>11. NoOrphanRoom' /\ OperationsEnd'
  BY <1>4, <1>9 DEF NoOrphanRoom, OperationsEnd
<1> QED
  BY <1>7, <1>8, <1>10, <1>11

\* Nothing comes from the server that the client neither waits for nor has given up.
LEMMA UnknownStep ==
  ASSUME SessionInv, UnknownAnswer
  PROVE  SessionInv'
<1> USE DEF SessionInv
<1>1. down # <<>> /\ ~expected(Head(down))
  BY DEF UnknownAnswer
<1>2. state \notin Idle \cup {"Connecting"}
  <2>1. SUFFICES ASSUME Quiet
                 PROVE  FALSE
    BY DEF Phases
  <2>2. down = <<Challenge>> /\ state = "Connecting"
    BY <1>1, <2>1 DEF Quiet
  <2> QED
    BY <1>1, <2>2 DEF expected, Challenge
<1>3. state # "Authenticating"
  <2>1. SUFFICES ASSUME state = "Authenticating"
                 PROVE  FALSE
    OBVIOUS
  <2>2. PICK type \in Proofs : /\ pending = {[id |-> 1, type |-> type]}
                               /\ \/ down = <<>>
                                  \/ down = <<Reply(type, 1)>>
                                  \/ \E code : down = <<Error(type, 1, code)>>
    BY <2>1 DEF Phases, Proving
  <2>3. Head(down).kind # "challenge" /\ Head(down).type = type /\ Head(down).id = 1
    BY <1>1, <2>2 DEF Reply, Error
  <2> QED
    BY <1>1, <2>1, <2>2, <2>3 DEF expected
<1>4. state = "Ready"
  BY <1>2, <1>3, TypeParts DEF Stages, States, Idle
<1>5. Working
  BY <1>4 DEF Phases
<1>6. /\ Head(down) \in RoomAnswers /\ Head(down) = down[1] /\ 1 \in 1..Len(down)
  BY <1>1, <1>5, Less DEF Working
<1>7. Head(down).kind # "challenge"
  BY <1>6 DEF RoomAnswers
<1>8. Head(down).id \in 1..nextRequest /\ Awaits(Head(down), pending)
  BY <1>5, <1>6 DEF Working, Ordered
<1>9. retired(Head(down))
  BY <1>1, <1>4, <1>7, <1>8, TypeParts DEF retired, expected, Awaits, Numbers
<1>10. /\ down' = Tail(down)
       /\ UNCHANGED <<state, enabled, accessToken, grant, nextRequest, pending, refresh, up, serverMesh,
                      inRoom, operation, pendingJoin, mesh, link, untried, session, lost, tokenValid,
                      redeemed, blamed, losses, joins, turns>>
  BY <1>9 DEF UnknownAnswer, clientVars, meshVars, serverVars
<1>11. Phases'
  BY <1>1, <1>4, <1>5, <1>10, Reading DEF Working
<1>12. SessionTypeOK'
  <2>1. Flags'
    BY <1>10, TypeParts DEF Flags
  <2>2. Numbers'
    BY <1>10, TypeParts DEF Numbers
  <2>3. Counts'
    BY <1>10, TypeParts DEF Counts
  <2>4. Stages'
    BY <1>10, TypeParts DEF Stages
  <2> QED
    BY <2>1, <2>2, <2>3, <2>4, Zenon DEF SessionTypeOK, Flags, Numbers, Counts, Stages
<1>13. MeshFits' /\ TokenOnce' /\ ~blamed' /\ NoOrphanRoom' /\ OperationsEnd'
  BY <1>10 DEF MeshFits, TokenOnce, NoOrphanRoom, OperationsEnd
<1> QED
  BY <1>11, <1>12, <1>13

-----------------------------------------------------------------------------
(* The steps that join a mesh and leave it.                                *)

LEMMA JoinStep ==
  ASSUME SessionInv, joinServerInvitation
  PROVE  SessionInv'
<1> USE DEF SessionInv
<1>1. /\ mesh = "none" /\ ~busy /\ joins' = joins + 1
      /\ serverMesh' = TRUE /\ pendingJoin' = TRUE /\ mesh' = "joining"
      /\ UNCHANGED <<grant, inRoom, link, untried, redeemed, blamed, losses>>
  BY DEF joinServerInvitation
<1>2. operation = ""
  BY <1>1, NotBusy
<1>3. CASE ready
  <2>1. /\ request("room.join") /\ operation' = "joining" /\ state = "Ready"
        /\ UNCHANGED <<state, enabled, accessToken, refresh, down, session, lost, tokenValid, turns>>
    BY <1>1, <1>3 DEF joinServerInvitation, submitServerJoin, ready, serverVars
  <2>2. ~serverMesh
    BY <1>1 DEF MeshFits
  <2>3. ~session.member
    <3>1. \A p \in pending : p.type # "room.leave"
      BY <1>2, <2>1 DEF Phases, Working, OneAtATime
    <3> QED
      BY <2>2, <3>1 DEF NoOrphanRoom
  <2>4. "room.join" \in RoomTypes
    BY DEF RoomTypes
  <2>5. /\ Phases'
        /\ nextRequest' = nextRequest + 1 /\ nextRequest \in Nat
        /\ pending' = pending \cup {[id |-> nextRequest + 1, type |-> "room.join"]}
        /\ pending' \subseteq [id : 1..nextRequest + 1, type : Types]
    BY <1>2, <2>1, <2>3, <2>4, Requesting
  <2>6. Flags' /\ Numbers' /\ Counts' /\ Stages'
    <3>1. Flags'
      BY <1>1, <2>1, TypeParts DEF Flags
    <3>2. Numbers'
      BY <2>1, <2>5, TypeParts DEF Numbers
    <3>3. Counts'
      BY <1>1, <2>1, TypeParts DEF Counts
    <3>4. Stages'
      BY <1>1, <2>1, TypeParts DEF Stages
    <3> QED
      BY <3>1, <3>2, <3>3, <3>4
  <2>7. SessionTypeOK'
    BY <2>6, Zenon DEF SessionTypeOK, Flags, Numbers, Counts, Stages
  <2>8. MeshFits'
    BY <1>1, <2>1 DEF MeshFits
  <2>9. NoOrphanRoom' /\ TokenOnce' /\ ~blamed'
    BY <1>1, <2>1 DEF NoOrphanRoom, TokenOnce
  <2>10. OperationsEnd'
    <3>1. \E p \in pending' : p.type = "room.join"
      BY <2>4, <2>5, OneRequest
    <3> QED
      BY <2>1, <3>1 DEF OperationsEnd
  <2> QED
    BY <2>5, <2>7, <2>8, <2>9, <2>10
<1>4. CASE ~ready
  <2>1. /\ operation' = "join" /\ state' = "Connecting" /\ enabled' \in BOOLEAN /\ resetSocket
        /\ accessToken' = FALSE
    BY <1>4 DEF joinServerInvitation, hangUp
  <2>2. /\ Phases' /\ pending' = {} /\ refresh' = 0 /\ nextRequest' = 0 /\ turns' = 0
        /\ session' = NoSession /\ lost' \in BOOLEAN /\ tokenValid' \in BOOLEAN
    BY <2>1, HungUp
  <2>3. Flags' /\ Numbers' /\ Counts' /\ Stages'
    <3>1. Flags'
      BY <1>1, <2>1, <2>2, TypeParts DEF Flags
    <3>2. Numbers'
      BY <2>2 DEF Numbers
    <3>3. Counts'
      BY <1>1, <2>2, TypeParts DEF Counts
    <3>4. session' \in [access : {"none", "open", "granted"}, member : BOOLEAN]
      BY <2>2, Accesses
    <3>5. Stages'
      BY <1>1, <2>1, <3>4, TypeParts DEF Stages, States
    <3> QED
      BY <3>1, <3>2, <3>3, <3>5
  <2>4. SessionTypeOK'
    BY <2>3, Zenon DEF SessionTypeOK, Flags, Numbers, Counts, Stages
  <2>5. MeshFits'
    BY <1>1, <2>1 DEF MeshFits
  <2>6. NoOrphanRoom' /\ OperationsEnd'
    BY <1>1, <2>1, <2>2 DEF NoOrphanRoom, OperationsEnd
  <2>7. TokenOnce' /\ ~blamed'
    BY <1>1, <2>1 DEF TokenOnce
  <2> QED
    BY <2>2, <2>4, <2>5, <2>6, <2>7
<1> QED
  BY <1>3, <1>4

LEMMA AcceptedStep ==
  ASSUME SessionInv, JoinAccepted
  PROVE  SessionInv'
<1> USE DEF SessionInv
<1>1. Answers("reply", {"room.join"}) /\ {"room.join"} \subseteq RoomTypes
  BY DEF JoinAccepted, RoomTypes
<1>2. /\ state = "Ready" /\ Working /\ down # <<>> /\ Head(down).type = "room.join"
      /\ [id |-> Head(down).id, type |-> Head(down).type] \in pending
  BY <1>1, RoomAnswered
<1>3. PICK p \in pending : p = [id |-> Head(down).id, type |-> Head(down).type]
  BY <1>2
<1>4. p.id = Head(down).id /\ p.type = "room.join" /\ p.type # "turn.refresh"
  BY <1>2, <1>3
<1>5. OneAtATime(pending, operation)
  BY <1>2 DEF Working
<1>6. operation = "joining"
  BY <1>4, <1>5 DEF OneAtATime
<1>7. pendingJoin /\ serverMesh
  BY <1>6 DEF MeshFits
<1>8. /\ inRoom' = TRUE /\ pendingJoin' = FALSE /\ operation' = "" /\ untried' = 1
      /\ link' = "trying"
  BY <1>6, <1>7 DEF JoinAccepted
<1>9. /\ pending' = {r \in pending : r.id # Head(down).id} /\ down' = Tail(down)
      /\ UNCHANGED <<state, enabled, accessToken, grant, nextRequest, refresh, up, serverMesh, mesh,
                     session, lost, tokenValid, redeemed, blamed, losses, joins, turns>>
  BY DEF JoinAccepted, read, serverVars, countVars
<1>10. pending' \subseteq pending /\ {r \in pending : r.id # Head(down).id} \subseteq pending'
  BY <1>9
<1>11. OneAtATime(pending', operation')
  BY <1>4, <1>5, <1>8, <1>9, OneLess
<1>12. Phases'
  BY <1>2, <1>9, <1>10, <1>11, Reading
<1>13. SessionTypeOK'
  <2>1. Flags'
    BY <1>8, <1>9, TypeParts DEF Flags
  <2>2. Numbers'
    BY <1>9, <1>10, TypeParts DEF Numbers
  <2>3. Counts'
    BY <1>9, TypeParts DEF Counts
  <2>4. Stages'
    <3>1. /\ operation' \in {"", "join", "joining", "leave"}
          /\ link' \in {"none", "trying", "open"}
      BY <1>8
    <3>2. untried' \in 0..1
      <4>1. untried' = 1
        BY <1>8
      <4> QED
        BY <4>1
    <3>3. state' \in States /\ mesh' \in {"none", "joining", "joined"}
      BY <1>9, TypeParts DEF Stages
    <3>4. session' \in [access : {"none", "open", "granted"}, member : BOOLEAN]
      BY <1>9, TypeParts DEF Stages
    <3> QED
      BY <3>1, <3>2, <3>3, <3>4, Zenon DEF Stages
  <2> QED
    BY <2>1, <2>2, <2>3, <2>4, Zenon DEF SessionTypeOK, Flags, Numbers, Counts, Stages
<1>14. MeshFits'
  BY <1>7, <1>8, <1>9 DEF MeshFits
<1>15. NoOrphanRoom' /\ TokenOnce' /\ ~blamed'
  BY <1>7, <1>9 DEF NoOrphanRoom, TokenOnce
<1>16. OperationsEnd'
  BY <1>8 DEF OperationsEnd
<1> QED
  BY <1>12, <1>13, <1>14, <1>15, <1>16

LEMMA LeftStep ==
  ASSUME SessionInv, LeaveAnswered
  PROVE  SessionInv'
<1> USE DEF SessionInv
<1>1. Answers("reply", {"room.leave"}) /\ {"room.leave"} \subseteq RoomTypes
  BY DEF LeaveAnswered, RoomTypes
<1>2. /\ state = "Ready" /\ Working /\ down # <<>> /\ Head(down).type = "room.leave"
      /\ Head(down) \in RoomAnswers
      /\ [id |-> Head(down).id, type |-> Head(down).type] \in pending
  BY <1>1, RoomAnswered
<1>3. PICK p \in pending : p = [id |-> Head(down).id, type |-> Head(down).type]
  BY <1>2
<1>4. p.id = Head(down).id /\ p.type = "room.leave" /\ p.type # "turn.refresh"
  BY <1>2, <1>3
<1>5. OneAtATime(pending, operation) /\ NoPlace(up, down, session.member) /\ down \in Seq(RoomAnswers)
  BY <1>2 DEF Working
<1>6. operation = "leave"
  BY <1>4, <1>5 DEF OneAtATime
<1>7. ~pendingJoin
  BY <1>6 DEF MeshFits
<1>8. ~session.member
  <2>1. Head(down) = down[1] /\ 1 \in 1..Len(down)
    BY <1>2, <1>5, Less
  <2> QED
    BY <1>2, <1>5, <2>1 DEF NoPlace, Denies
<1>9. /\ pending' = {r \in pending : r.id # Head(down).id} /\ down' = Tail(down) /\ operation' = ""
      /\ UNCHANGED <<state, enabled, accessToken, grant, nextRequest, refresh, up, serverMesh, inRoom,
                     pendingJoin, mesh, link, untried, session, lost, tokenValid, redeemed, blamed,
                     losses, joins, turns>>
  BY DEF LeaveAnswered, read, serverVars, countVars
<1>10. pending' \subseteq pending /\ {r \in pending : r.id # Head(down).id} \subseteq pending'
  BY <1>9
<1>11. OneAtATime(pending', operation')
  BY <1>4, <1>5, <1>9, OneLess
<1>12. Phases'
  BY <1>2, <1>9, <1>10, <1>11, Reading
<1>13. SessionTypeOK'
  <2>1. Flags'
    BY <1>9, TypeParts DEF Flags
  <2>2. Numbers'
    BY <1>9, <1>10, TypeParts DEF Numbers
  <2>3. Counts'
    BY <1>9, TypeParts DEF Counts
  <2>4. Stages'
    BY <1>9, TypeParts DEF Stages
  <2> QED
    BY <2>1, <2>2, <2>3, <2>4, Zenon DEF SessionTypeOK, Flags, Numbers, Counts, Stages
<1>14. MeshFits'
  BY <1>7, <1>9 DEF MeshFits
<1>15. NoOrphanRoom' /\ TokenOnce' /\ ~blamed'
  BY <1>8, <1>9 DEF NoOrphanRoom, TokenOnce
<1>16. OperationsEnd'
  BY <1>9 DEF OperationsEnd
<1> QED
  BY <1>12, <1>13, <1>14, <1>15, <1>16

\* A mesh that is forgotten and its operation ended while the socket is cut off.
LEMMA CutOff ==
  ASSUME SessionInv, forgetMesh, dropConnection,
         UNCHANGED <<redeemed, blamed, losses, joins>>
  PROVE  SessionInv'
<1> USE DEF SessionInv
<1>1. /\ serverMesh' = FALSE /\ inRoom' = FALSE /\ pendingJoin' = FALSE /\ mesh' = "none"
      /\ link' = "none" /\ untried' = 0
  BY DEF forgetMesh
<1>2. /\ operation' = "" /\ resetSocket /\ state' \in {"Disabled", "Connecting"}
      /\ enabled' \in BOOLEAN /\ accessToken' = FALSE /\ grant' = grant
  BY DEF dropConnection, hangUp
<1>3. /\ Phases' /\ pending' = {} /\ refresh' = 0 /\ nextRequest' = 0 /\ turns' = 0
      /\ session' = NoSession /\ lost' \in BOOLEAN /\ tokenValid' \in BOOLEAN
  <2>1. state' \in Idle \cup {"Connecting"}
    BY <1>2 DEF Idle
  <2> QED
    BY <1>2, <2>1, HungUp
<1>4. SessionTypeOK'
  <2>1. Flags'
    BY <1>1, <1>2, <1>3, TypeParts DEF Flags
  <2>2. Numbers'
    BY <1>3, TypeParts DEF Numbers
  <2>3. Counts'
    BY <1>3, TypeParts DEF Counts
  <2>4. Stages'
    <3>1. /\ operation' \in {"", "join", "joining", "leave"}
          /\ link' \in {"none", "trying", "open"} /\ mesh' \in {"none", "joining", "joined"}
      BY <1>1, <1>2
    <3>2. untried' \in 0..1
      BY <1>1
    <3>3. state' \in States
      BY <1>2 DEF States
    <3>4. session' \in [access : {"none", "open", "granted"}, member : BOOLEAN]
      BY <1>3, Accesses
    <3> QED
      BY <3>1, <3>2, <3>3, <3>4, Zenon DEF Stages
  <2> QED
    BY <2>1, <2>2, <2>3, <2>4, Zenon DEF SessionTypeOK, Flags, Numbers, Counts, Stages
<1>5. MeshFits' /\ OperationsEnd'
  BY <1>1, <1>2 DEF MeshFits, OperationsEnd
<1>6. NoOrphanRoom'
  BY <1>3 DEF NoOrphanRoom, NoSession
<1>7. TokenOnce' /\ ~blamed'
  BY <1>2 DEF TokenOnce
<1> QED
  BY <1>3, <1>4, <1>5, <1>6, <1>7

LEMMA LeaveStep ==
  ASSUME SessionInv, leaveMesh
  PROVE  SessionInv'
<1>1. forgetMesh /\ UNCHANGED <<redeemed, blamed, losses, joins>>
  BY DEF leaveMesh
<1>2. CASE dropConnection
  BY <1>1, <1>2, CutOff
<1>3. CASE ~dropConnection
  <2> USE DEF SessionInv
  <2>1. /\ state = "Ready" /\ operation = "" /\ request("room.leave") /\ operation' = "leave"
        /\ UNCHANGED <<state, enabled, accessToken, grant, refresh, down, session, lost, tokenValid,
                       turns>>
    BY <1>3 DEF leaveMesh, canLeave, ready, serverVars
  <2>2. /\ serverMesh' = FALSE /\ inRoom' = FALSE /\ pendingJoin' = FALSE /\ mesh' = "none"
        /\ link' = "none" /\ untried' = 0
    BY <1>1 DEF forgetMesh
  <2>3. "room.leave" \in RoomTypes
    BY DEF RoomTypes
  <2>4. /\ Phases'
        /\ nextRequest' = nextRequest + 1 /\ nextRequest \in Nat
        /\ pending' = pending \cup {[id |-> nextRequest + 1, type |-> "room.leave"]}
        /\ pending' \subseteq [id : 1..nextRequest + 1, type : Types]
    BY <2>1, <2>3, Requesting
  <2>5. Flags'
    BY <1>1, <2>1, <2>2, TypeParts DEF Flags
  <2>6. Numbers'
    <3>1. refresh \in 0..nextRequest
      BY TypeParts DEF Numbers
    <3>2. refresh' \in 0..nextRequest + 1
      BY <2>1, <2>3, <2>4, <3>1, OneRequest
    <3> QED
      BY <2>4, <3>2 DEF Numbers
  <2>7. Counts'
    BY <1>1, <2>1, TypeParts DEF Counts
  <2>8. Stages'
    <3>1. /\ operation' \in {"", "join", "joining", "leave"}
          /\ link' \in {"none", "trying", "open"} /\ mesh' \in {"none", "joining", "joined"}
      BY <2>1, <2>2
    <3>2. untried' \in 0..1
      BY <2>2
    <3>3. state' \in States
      BY <2>1, TypeParts DEF Stages
    <3>4. session' \in [access : {"none", "open", "granted"}, member : BOOLEAN]
      BY <2>1, TypeParts DEF Stages
    <3> QED
      BY <3>1, <3>2, <3>3, <3>4, Zenon DEF Stages
  <2>9. SessionTypeOK'
    BY <2>5, <2>6, <2>7, <2>8, Zenon DEF SessionTypeOK, Flags, Numbers, Counts, Stages
  <2>10. MeshFits'
    BY <2>1, <2>2 DEF MeshFits
  <2>11. NoOrphanRoom' /\ OperationsEnd'
    <3>1. \E p \in pending' : p.type = "room.leave"
      BY <2>3, <2>4, OneRequest
    <3> QED
      BY <2>1, <3>1 DEF NoOrphanRoom, OperationsEnd
  <2>12. TokenOnce' /\ ~blamed'
    BY <1>1, <2>1 DEF TokenOnce
  <2> QED
    BY <2>4, <2>9, <2>10, <2>11, <2>12
<1> QED
  BY <1>2, <1>3

LEMMA RejectedStep ==
  ASSUME SessionInv, JoinRejected
  PROVE  SessionInv'
<1>1. /\ Answers("error", {"room.join"}) /\ {"room.join"} \subseteq RoomTypes /\ forgetMesh
      /\ UNCHANGED <<redeemed, blamed, losses, joins>>
  BY DEF JoinRejected, RoomTypes
<1>2. CASE dropConnection
  BY <1>1, <1>2, CutOff
<1>3. CASE ~dropConnection
  <2> USE DEF SessionInv
  <2>1. /\ read /\ operation' = ""
        /\ UNCHANGED <<state, enabled, accessToken, grant, nextRequest, refresh, up, session, lost,
                       tokenValid, turns>>
    BY <1>3 DEF JoinRejected, serverVars
  <2>2. /\ state = "Ready" /\ Working /\ down # <<>> /\ Head(down).type = "room.join"
        /\ Head(down) \in RoomAnswers /\ Head(down).kind = "error"
        /\ [id |-> Head(down).id, type |-> Head(down).type] \in pending
    BY <1>1, RoomAnswered
  <2>3. PICK p \in pending : p = [id |-> Head(down).id, type |-> Head(down).type]
    BY <2>2
  <2>4. p.id = Head(down).id /\ p.type = "room.join" /\ p.type # "turn.refresh"
    BY <2>2, <2>3
  <2>5. OneAtATime(pending, operation) /\ NoPlace(up, down, session.member) /\ down \in Seq(RoomAnswers)
    BY <2>2 DEF Working
  <2>6. ~session.member
    <3>1. Head(down) = down[1] /\ 1 \in 1..Len(down)
      BY <2>2, <2>5, Less
    <3> QED
      BY <2>2, <2>5, <3>1 DEF NoPlace, Denies
  <2>7. pending' = {r \in pending : r.id # Head(down).id} /\ down' = Tail(down)
    BY <2>1 DEF read
  <2>8. pending' \subseteq pending /\ {r \in pending : r.id # Head(down).id} \subseteq pending'
    BY <2>7
  <2>9. OneAtATime(pending', operation')
    BY <2>1, <2>4, <2>5, <2>7, OneLess
  <2>10. Phases'
    BY <2>1, <2>2, <2>7, <2>8, <2>9, Reading
  <2>11. /\ serverMesh' = FALSE /\ inRoom' = FALSE /\ pendingJoin' = FALSE /\ mesh' = "none"
         /\ link' = "none" /\ untried' = 0
    BY <1>1 DEF forgetMesh
  <2>12. Flags'
    BY <1>1, <2>1, <2>11, TypeParts DEF Flags
  <2>13. Numbers'
    BY <2>1, <2>8, TypeParts DEF Numbers
  <2>14. Counts'
    BY <1>1, <2>1, TypeParts DEF Counts
  <2>15. Stages'
    <3>1. /\ operation' \in {"", "join", "joining", "leave"}
          /\ link' \in {"none", "trying", "open"} /\ mesh' \in {"none", "joining", "joined"}
      BY <2>1, <2>11
    <3>2. untried' \in 0..1
      <4>1. untried' = 0
        BY <2>11
      <4> QED
        BY <4>1
    <3>3. state' \in States
      BY <2>1, TypeParts DEF Stages
    <3>4. session' \in [access : {"none", "open", "granted"}, member : BOOLEAN]
      BY <2>1, TypeParts DEF Stages
    <3> QED
      BY <3>1, <3>2, <3>3, <3>4, Zenon DEF Stages
  <2>16. SessionTypeOK'
    BY <2>12, <2>13, <2>14, <2>15, Zenon DEF SessionTypeOK, Flags, Numbers, Counts, Stages
  <2>17. MeshFits' /\ OperationsEnd'
    BY <2>1, <2>11 DEF MeshFits, OperationsEnd
  <2>18. NoOrphanRoom'
    BY <2>1, <2>6 DEF NoOrphanRoom
  <2>19. TokenOnce' /\ ~blamed'
    BY <1>1, <2>1 DEF TokenOnce
  <2> QED
    BY <2>10, <2>16, <2>17, <2>18, <2>19
<1> QED
  BY <1>2, <1>3

LEMMA BootstrapStep ==
  ASSUME SessionInv, BootstrapFails \/ BootstrapOpens
  PROVE  SessionInv'
<1> USE DEF SessionInv
<1>1. /\ link = "trying"
      /\ UNCHANGED <<state, enabled, accessToken, grant, nextRequest, pending, refresh, up, down,
                     serverMesh, inRoom, operation, pendingJoin, session, lost, tokenValid, redeemed,
                     blamed, losses, joins, turns>>
  BY DEF BootstrapFails, BootstrapOpens, clientVars, wireVars, serverVars, countVars
<1>2. link' \in {"none", "trying", "open"} /\ (mesh' = "joined" \/ mesh' = mesh)
  BY <1>1 DEF BootstrapFails, BootstrapOpens
<1>3. untried' \in 0..1
  <2>1. untried' = untried \/ (untried > 0 /\ untried' = untried - 1)
    BY DEF BootstrapFails, BootstrapOpens
  <2>2. untried \in 0..1
    BY TypeParts DEF Stages
  <2> QED
    BY <2>1, <2>2
<1>4. serverMesh
  BY <1>1 DEF MeshFits
<1>5. Phases'
  BY <1>1 DEF Phases, Quiet, Proving, Working
<1>6. SessionTypeOK'
  <2>1. Flags'
    BY <1>1, TypeParts DEF Flags
  <2>2. Numbers'
    BY <1>1, TypeParts DEF Numbers
  <2>3. Counts'
    BY <1>1, TypeParts DEF Counts
  <2>4. Stages'
    <3>1. mesh' \in {"none", "joining", "joined"}
      BY <1>2, TypeParts DEF Stages
    <3>2. /\ state' \in States /\ operation' \in {"", "join", "joining", "leave"}
          /\ session' \in [access : {"none", "open", "granted"}, member : BOOLEAN]
      BY <1>1, TypeParts DEF Stages
    <3> QED
      BY <1>2, <1>3, <3>1, <3>2, Zenon DEF Stages
  <2> QED
    BY <2>1, <2>2, <2>3, <2>4, Zenon DEF SessionTypeOK, Flags, Numbers, Counts, Stages
<1>7. MeshFits'
  BY <1>1, <1>2, <1>4 DEF MeshFits
<1>8. NoOrphanRoom' /\ OperationsEnd' /\ TokenOnce' /\ ~blamed'
  BY <1>1 DEF NoOrphanRoom, OperationsEnd, TokenOnce
<1> QED
  BY <1>5, <1>6, <1>7, <1>8

-----------------------------------------------------------------------------
(* The steps of the server.                                                *)

\* A request about rooms is answered.
LEMMA Serving ==
  ASSUME SessionInv, NEW types, types \subseteq RoomTypes, Asked(types),
         NEW m \in RoomAnswers, m.id = Head(up).id, m.type = Head(up).type,
         NEW newSession, answer(m, newSession), newSession.access = "granted",
         newSession \in [access : {"none", "open", "granted"}, member : BOOLEAN],
         NoPlace(Tail(up), Append(down, m), newSession.member),
         newSession.member => (session.member \/ serverMesh),
         lost' = lost, tokenValid' = tokenValid
  PROVE  SessionInv'
<1> USE DEF SessionInv
<1>1. /\ up' = Tail(up) /\ down' = Append(down, m) /\ session' = newSession
      /\ UNCHANGED <<state, enabled, accessToken, grant, nextRequest, pending, refresh, serverMesh,
                     inRoom, operation, pendingJoin, mesh, link, untried, redeemed, blamed, losses,
                     joins, turns>>
  BY DEF answer, clientVars, meshVars, countVars
<1>2. state = "Ready" /\ Working /\ up # <<>>
  BY RoomAsked
<1>3. /\ up \in Seq(RoomRequests) /\ down \in Seq(RoomAnswers)
      /\ Ordered(up, down, pending, nextRequest) /\ OneAtATime(pending, operation)
  BY <1>2 DEF Working
<1>4. nextRequest \in Nat
  BY TypeParts DEF Numbers
<1>5. /\ Tail(up) \in Seq(RoomRequests) /\ Append(down, m) \in Seq(RoomAnswers)
      /\ Ordered(Tail(up), Append(down, m), pending, nextRequest)
  BY <1>2, <1>3, <1>4, OrderedServed
<1>6. Working'
  BY <1>1, <1>3, <1>5 DEF Working
<1>7. Phases'
  BY <1>1, <1>2, <1>6 DEF Phases, Idle
<1>8. SessionTypeOK'
  <2>1. Flags'
    BY <1>1, TypeParts DEF Flags
  <2>2. Numbers'
    BY <1>1, TypeParts DEF Numbers
  <2>3. Counts'
    BY <1>1, TypeParts DEF Counts
  <2>4. Stages'
    BY <1>1, TypeParts DEF Stages
  <2> QED
    BY <2>1, <2>2, <2>3, <2>4, Zenon DEF SessionTypeOK, Flags, Numbers, Counts, Stages
<1>9. MeshFits' /\ OperationsEnd' /\ TokenOnce' /\ ~blamed'
  BY <1>1 DEF MeshFits, OperationsEnd, TokenOnce
<1>10. NoOrphanRoom'
  BY <1>1 DEF NoOrphanRoom
<1> QED
  BY <1>7, <1>8, <1>9, <1>10

\* Whoever is answered about a room that it has joined had asked for no other.
LEMMA PlaceGiven ==
  ASSUME NEW q \in Seq(RoomRequests), NEW a \in Seq(RoomAnswers), NEW P, NEW n \in Nat, NEW op,
         Ordered(q, a, P, n), OneAtATime(P, op), q # <<>>, Head(q).type = "room.join",
         NEW m \in RoomAnswers, m.kind = "reply", m.type = "room.join"
  PROVE  NoPlace(Tail(q), Append(a, m), TRUE) /\ op = "joining"
<1> DEFINE t == Tail(q)
           l == Append(a, m)
<1>1. /\ t \in Seq(RoomRequests) /\ Head(q) = q[1] /\ Len(q) \in Nat \ {0} /\ Len(t) = Len(q) - 1
      /\ \A i \in 1..Len(q) - 1 : t[i] = q[i + 1]
  BY Less
<1>2. /\ Len(a) \in Nat /\ Len(l) = Len(a) + 1 /\ l[Len(a) + 1] = m
      /\ \A i \in 1..Len(a) : l[i] = a[i]
  BY More
<1>3. \A i \in 1..Len(t) : t[i] = q[i + 1] /\ i + 1 \in 1..Len(q) /\ i + 1 # 1
  BY <1>1
<1>4. 1 \in 1..Len(q)
  BY <1>1
<1>5. \A i \in 1..Len(l) : i \in 1..Len(a) \/ i = Len(a) + 1
  BY <1>2
<1> DEFINE first == [id |-> q[1].id, type |-> q[1].type]
<1>6. Awaits(q[1], P) /\ q[1].type = "room.join"
  BY <1>1, <1>4 DEF Ordered
<1>7. first \in P
  BY <1>6 DEF Awaits
<1>8. first.type = "room.join" /\ first.id = q[1].id
  BY <1>6
<1> HIDE DEF t, l, first
<1>9. op = "joining"
  BY <1>7, <1>8 DEF OneAtATime
<1>10. ASSUME NEW x, Awaits(x, P), x.id # q[1].id
       PROVE  x.type \notin {"room.join", "room.leave"}
  <2>1. SUFFICES ASSUME x.type \in {"room.join", "room.leave"}
                 PROVE  FALSE
    OBVIOUS
  <2> DEFINE other == [id |-> x.id, type |-> x.type]
  <2>2. other \in P
    BY <1>10, <2>1 DEF Awaits
  <2>3. other.id = x.id /\ other.type = x.type
    OBVIOUS
  <2> HIDE DEF other
  <2>4. x.type # "room.leave"
    BY <1>9, <2>2, <2>3 DEF OneAtATime
  <2> QED
    BY <1>7, <1>8, <1>10, <2>1, <2>2, <2>3, <2>4 DEF OneAtATime
<1>11. \A i \in 1..Len(t) : t[i].type # "room.join"
  <2>1. SUFFICES ASSUME NEW i \in 1..Len(t)
                 PROVE  t[i].type # "room.join"
    OBVIOUS
  <2>2. t[i] = q[i + 1] /\ i + 1 \in 1..Len(q) /\ i + 1 # 1
    BY <1>3
  <2>3. Awaits(t[i], P) /\ t[i].id # q[1].id
    BY <1>4, <2>2 DEF Ordered
  <2> QED
    BY <1>10, <2>3
<1>12. \A i \in 1..Len(a) : ~Denies(a[i])
  <2>1. SUFFICES ASSUME NEW i \in 1..Len(a)
                 PROVE  ~Denies(a[i])
    OBVIOUS
  <2>2. Awaits(a[i], P) /\ a[i].id # q[1].id
    BY <1>4 DEF Ordered
  <2>3. a[i].type \notin {"room.join", "room.leave"}
    BY <1>10, <2>2
  <2> QED
    BY <2>3 DEF Denies
<1>13. ~Denies(m)
  BY DEF Denies
<1> QED
  BY <1>2, <1>5, <1>9, <1>11, <1>12, <1>13 DEF NoPlace, t, l

\* Nothing more is said of a place that is not there, and an answer that does
\* not deny the place leaves it.
LEMMA PlaceKept ==
  ASSUME NEW q \in Seq(RoomRequests), NEW a \in Seq(RoomAnswers), NEW member \in BOOLEAN,
         NoPlace(q, a, member), q # <<>>, NEW m \in RoomAnswers, Denies(m) => ~member
  PROVE  NoPlace(Tail(q), Append(a, m), member)
<1> DEFINE t == Tail(q)
           l == Append(a, m)
<1>1. /\ t \in Seq(RoomRequests) /\ Len(q) \in Nat \ {0} /\ Len(t) = Len(q) - 1
      /\ \A i \in 1..Len(q) - 1 : t[i] = q[i + 1]
  BY Less
<1>2. /\ Len(a) \in Nat /\ Len(l) = Len(a) + 1 /\ l[Len(a) + 1] = m
      /\ \A i \in 1..Len(a) : l[i] = a[i]
  BY More
<1>3. \A i \in 1..Len(t) : t[i] = q[i + 1] /\ i + 1 \in 1..Len(q)
  BY <1>1
<1>4. \A i \in 1..Len(l) : i \in 1..Len(a) \/ i = Len(a) + 1
  BY <1>2
<1> HIDE DEF t, l
<1> QED
  BY <1>2, <1>3, <1>4 DEF NoPlace, t, l

LEMMA ServedStep ==
  ASSUME SessionInv, ServeJoin \/ ServeLeave \/ ServeRefresh
  PROVE  SessionInv'
<1> DEFINE head == Head(up)
           yes == Reply(head.type, head.id)
           no(code) == Error(head.type, head.id, code)
<1>1. PICK type \in RoomTypes : Asked({type}) /\ head.type = type
  BY DEF ServeJoin, ServeLeave, ServeRefresh, Asked, RoomTypes
<1>2. {type} \subseteq RoomTypes
  OBVIOUS
<1>3. state = "Ready" /\ Working /\ up # <<>> /\ head \in RoomRequests
  BY <1>1, <1>2, RoomAsked
<1>4. /\ up \in Seq(RoomRequests) /\ down \in Seq(RoomAnswers)
      /\ Ordered(up, down, pending, nextRequest) /\ OneAtATime(pending, operation)
      /\ NoPlace(up, down, session.member) /\ session.access = "granted"
  BY <1>3 DEF Working
<1>5. nextRequest \in Nat /\ session \in [access : {"none", "open", "granted"}, member : BOOLEAN]
  BY TypeParts DEF SessionInv, Numbers, Stages
<1>6. /\ yes \in RoomAnswers /\ yes.kind = "reply" /\ yes.type = type /\ yes.type = head.type
      /\ yes.id = head.id
  BY <1>1, <1>3 DEF Reply, RoomAnswers, RoomRequests
<1>7. ASSUME NEW code \in {"invalid_invitation", "resource_limit"}, type # "room.leave"
      PROVE  /\ no(code) \in RoomAnswers /\ no(code).type = type /\ no(code).type = head.type
             /\ no(code).id = head.id
  BY <1>1, <1>3, <1>7 DEF Error, RoomAnswers, RoomRequests, RoomTypes
<1>8. type = "room.join" => ~session.member
  <2>1. head = up[1] /\ 1 \in 1..Len(up)
    BY <1>3, <1>4, Less
  <2> QED
    BY <1>1, <1>4, <2>1 DEF NoPlace
<1>9. lost' = lost /\ tokenValid' = tokenValid
  BY DEF ServeJoin, ServeLeave, ServeRefresh
<1> HIDE DEF yes, no, head
<1>10. ASSUME NEW m \in RoomAnswers, m.id = Head(up).id, m.type = Head(up).type,
              answer(m, session), Denies(m) => ~session.member
       PROVE  SessionInv'
  <2>1. NoPlace(Tail(up), Append(down, m), session.member)
    BY <1>3, <1>4, <1>5, <1>10, PlaceKept
  <2> QED
    BY <1>1, <1>2, <1>4, <1>5, <1>9, <1>10, <2>1, Serving
<1> DEFINE joined == [session EXCEPT !.member = TRUE]
           left   == [session EXCEPT !.member = FALSE]
<1>11. /\ joined \in [access : {"none", "open", "granted"}, member : BOOLEAN]
       /\ joined.access = "granted" /\ joined.member = TRUE
       /\ left \in [access : {"none", "open", "granted"}, member : BOOLEAN]
       /\ left.access = "granted" /\ left.member = FALSE
  BY <1>4, <1>5
<1> HIDE DEF joined, left
<1>12. CASE ServeJoin
  <2>1. type = "room.join" /\ type # "room.leave"
    BY <1>1, <1>12 DEF ServeJoin, Asked, head
  <2>2. \/ answer(yes, joined)
        \/ \E code \in {"invalid_invitation", "resource_limit"} : answer(no(code), session)
    BY <1>12 DEF ServeJoin, granted, refused, yes, no, head, joined
  <2>3. CASE answer(yes, joined)
    <3>1. NoPlace(Tail(up), Append(down, yes), TRUE) /\ operation = "joining"
      BY <1>1, <1>3, <1>4, <1>5, <1>6, <2>1, PlaceGiven DEF head
    <3>2. serverMesh
      BY <3>1 DEF SessionInv, MeshFits
    <3> QED
      BY <1>1, <1>2, <1>6, <1>9, <1>11, <2>3, <3>1, <3>2, Serving DEF head
  <2>4. CASE \E code \in {"invalid_invitation", "resource_limit"} : answer(no(code), session)
    <3>1. PICK code \in {"invalid_invitation", "resource_limit"} : answer(no(code), session)
      BY <2>4
    <3> DEFINE m == no(code)
    <3>2. m \in RoomAnswers /\ m.id = Head(up).id /\ m.type = Head(up).type /\ answer(m, session)
      BY <1>7, <2>1, <3>1 DEF head
    <3>3. ~session.member
      BY <1>8, <2>1
    <3> HIDE DEF m
    <3> QED
      BY <1>10, <3>2, <3>3
  <2> QED
    BY <2>2, <2>3, <2>4
<1>13. CASE ServeLeave
  <2>1. answer(yes, left)
    BY <1>13 DEF ServeLeave, granted, yes, head, left
  <2>2. NoPlace(Tail(up), Append(down, yes), left.member)
    BY <1>11 DEF NoPlace
  <2> QED
    BY <1>1, <1>2, <1>6, <1>9, <1>11, <2>1, <2>2, Serving DEF head
<1>14. CASE ServeRefresh
  <2>1. type = "turn.refresh" /\ type # "room.leave"
    BY <1>1, <1>14 DEF ServeRefresh, Asked, head
  <2>2. answer(yes, session) \/ answer(no("resource_limit"), session)
    BY <1>14 DEF ServeRefresh, granted, refused, yes, no, head
  <2>3. CASE answer(yes, session)
    <3>1. ~Denies(yes)
      BY <1>6, <2>1 DEF Denies
    <3> QED
      BY <1>6, <1>10, <2>3, <3>1 DEF head
  <2>4. CASE answer(no("resource_limit"), session)
    <3> DEFINE m == no("resource_limit")
    <3>1. /\ m \in RoomAnswers /\ m.id = Head(up).id /\ m.type = Head(up).type /\ m.type = type
          /\ answer(m, session)
      BY <1>7, <2>1, <2>4 DEF head
    <3> HIDE DEF m
    <3>2. ~Denies(m)
      BY <2>1, <3>1 DEF Denies
    <3> QED
      BY <1>10, <3>1, <3>2
  <2> QED
    BY <2>2, <2>3, <2>4
<1> QED
  BY <1>12, <1>13, <1>14

-----------------------------------------------------------------------------
(* The theorems about the connection.                                      *)

LEMMA SessionInvInit == SessionInit => SessionInv
<1> SUFFICES ASSUME SessionInit
             PROVE  SessionInv
  OBVIOUS
<1>1. /\ state \in {"Disabled", "Connecting"} /\ pending = {} /\ refresh = 0 /\ nextRequest = 0
      /\ up = <<>> /\ down = <<>> /\ operation = "" /\ mesh = "none" /\ link = "none"
      /\ session = NoSession
  BY DEF SessionInit
<1>2. untried = 0 /\ redeemed = 0 /\ losses = 0 /\ joins = 0 /\ turns = 0
  BY DEF SessionInit
<1>3. /\ accessToken = FALSE /\ serverMesh = FALSE /\ inRoom = FALSE /\ pendingJoin = FALSE
      /\ lost = FALSE /\ tokenValid = FALSE /\ blamed = FALSE
      /\ enabled \in BOOLEAN /\ grant \in BOOLEAN
  BY DEF SessionInit
<1>4. SessionTypeOK
  <2>1. Flags
    BY <1>3 DEF Flags
  <2>2. Numbers
    <3>1. pending = {} /\ refresh = 0 /\ nextRequest = 0
      BY DEF SessionInit
    <3> QED
      BY <3>1 DEF Numbers
  <2>3. Counts
    BY <1>2 DEF Counts
  <2>4. Stages
    <3>1. untried \in 0..1
      BY <1>2
    <3>2. session \in [access : {"none", "open", "granted"}, member : BOOLEAN]
      BY <1>1, Accesses
    <3> QED
      BY <1>1, <3>1, <3>2 DEF Stages, States
  <2> QED
    BY <2>1, <2>2, <2>3, <2>4, TypeParts
<1>5. Phases
  BY <1>1 DEF Phases, Quiet, Idle
<1>6. MeshFits
  BY <1>1, <1>3 DEF MeshFits
<1>7. NoOrphanRoom /\ OperationsEnd
  BY <1>1 DEF NoOrphanRoom, OperationsEnd, NoSession
<1>8. TokenOnce /\ ~blamed
  BY <1>2, <1>3 DEF TokenOnce
<1> QED
  BY <1>4, <1>5, <1>6, <1>7, <1>8 DEF SessionInv

LEMMA SessionInvStep == SessionInv /\ [SessionNext]_sessionVars => SessionInv'
<1> SUFFICES ASSUME SessionInv, [SessionNext]_sessionVars
             PROVE  SessionInv'
  OBVIOUS
<1>1. CASE SessionNext
  BY <1>1, ConnectStep, RedeemStep, ReconnectStep, AcceptStep, ConnectionFailsStep, NoticeStep,
     ChallengeStep, AccessMissingStep, ReadyStep, RefusedStep, MaintainStep, TimeoutStep, RefreshStep,
     UnknownStep, JoinStep, AcceptedStep, RejectedStep, LeaveStep, BootstrapStep, LeftStep, ProofServed,
     ServedStep DEF SessionNext, Leave, serverJoinDeadline
<1>2. CASE UNCHANGED sessionVars
  <2> USE DEF SessionInv
  <2>1. UNCHANGED <<state, enabled, accessToken, grant, nextRequest, pending, refresh, up, down,
                    serverMesh, inRoom, operation, pendingJoin, mesh, link, untried, session, lost,
                    tokenValid, redeemed, blamed, losses, joins, turns>>
    BY <1>2 DEF sessionVars, clientVars, wireVars, meshVars, serverVars, countVars
  <2>2. Flags' /\ Numbers' /\ Counts' /\ Stages'
    <3>1. Flags'
      BY <2>1, TypeParts DEF Flags
    <3>2. Numbers'
      BY <2>1, TypeParts DEF Numbers
    <3>3. Counts'
      BY <2>1, TypeParts DEF Counts
    <3>4. Stages'
      BY <2>1, TypeParts DEF Stages
    <3> QED
      BY <3>1, <3>2, <3>3, <3>4
  <2>3. SessionTypeOK'
    BY <2>2, Zenon DEF SessionTypeOK, Flags, Numbers, Counts, Stages
  <2>4. Phases'
    BY <2>1 DEF Phases, Quiet, Proving, Working
  <2>5. MeshFits' /\ NoOrphanRoom' /\ OperationsEnd' /\ TokenOnce' /\ ~blamed'
    BY <2>1 DEF MeshFits, NoOrphanRoom, OperationsEnd, TokenOnce
  <2> QED
    BY <2>3, <2>4, <2>5
<1> QED
  BY <1>1, <1>2

\* The types of the connection's state, what is under way in each of its phases, and what
\* the client and the server believe of each other (signaling_client.cpp,
\* network_session_signaling.cpp), always hold.
THEOREM SessionInvariant == SessionSpec => []SessionInv
  BY SessionInvInit, SessionInvStep, PTL DEF SessionSpec

\* What the client thinks of its connection is true of the server, however often the
\* connection is lost and whatever the server answers: no room is left behind on it when the
\* user leaves the mesh or gives a join up (leaveServerRoom), every operation that keeps the
\* user waiting ends, an access token is sent once, and an honest server is never hung up on.
THEOREM ClientAndServerAlwaysAgree == SessionSpec => []ClientAndServerAgree
<1>1. SessionInv => ClientAndServerAgree
  BY DEF SessionInv, ClientAndServerAgree, TokenOnce, TokenSentOnce, HonestServerKept
<1> QED
  BY <1>1, SessionInvariant, PTL

-----------------------------------------------------------------------------
(* The probing of a far peer.                                              *)

\* The packets of a request that are under way, and who has seen one.
OnTheWay(kind, id) == {m \in reachWire : m.packet.kind = kind /\ m.packet.id = id}
HaveSeen(kind, id) == {p \in Stations : <<kind, id>> \in reachSeen[p]}

\* What is written on a packet, and who has it for whom.
Packets == [kind : {"request", "reply"}, id : ProbeIds, ttl : Nat \ {0}, late : BOOLEAN]
Probes  == [from : Stations, to : Stations, packet : Packets]

\* Everything has its type, and packets are on links that carry them.
ProbesTyped ==
  /\ ReachTypeOK
  /\ reachKnown \in BOOLEAN /\ reachDue \in BOOLEAN
  /\ reachSeen \in [Stations -> SUBSET ({"request", "reply"} \X ProbeIds)]
  /\ reachRequest # NoProbe => reachRequest.id \in ProbeIds
  /\ reachWire \subseteq Probes
  /\ \A m \in reachWire : carries(m.from, m.to)

\* Packets of two requests are told apart by the clock: those of one request are late,
\* those of the other are not.  Before the timer fires, all are.  Packets of the request
\* that is alive tell its age, which is a tick at most.
ProbesApart ==
  /\ \A m, n \in reachWire : m.packet.late = n.packet.late => m.packet.id = n.packet.id
  /\ reachDue => \A m \in reachWire : m.packet.late
  /\ reachRequest # NoProbe => \A m \in reachWire : m.packet.id = reachRequest.id =>
       /\ reachRequest.age <= 1
       /\ m.packet.late <=> reachRequest.age = 1

\* Nothing is carried out of some set around the seeker that is without the sought.
Severed(near) ==
  /\ Seeker \in near /\ Sought \notin near
  /\ \A p \in near, q \in Stations \ near : ~carries(p, q)

\* Within such a set no answer is left but those that were under way when the links went,
\* and they are gone in the second tick; since then the seeker has heard nothing.
ReachMissed ==
  reachKnown => \A near \in SUBSET Stations : Severed(near) =>
    /\ \A m \in reachWire : m.packet.kind = "reply" /\ m.to \in near =>
         reachStable <= 1 /\ (reachStable = 1 => m.packet.late)
    /\ reachSilent >= reachStable - 1

\* V has seen the request, and its reverse routes lead home: no set of members is routed
\* within itself.  W has passed the answer on.  A request has lost a hop for each member
\* that has seen it at most.
FloodSpreads(id, V, W) ==
  /\ Seeker \in V /\ Seeker \notin W /\ W \subseteq V
  /\ \A p \in V \ {Seeker} : reachReverse[p][id] \in V /\ carries(p, reachReverse[p][id])
  /\ \A U \in SUBSET (V \ {Seeker}) : U # {} => \E p \in U : reachReverse[p][id] \notin U
  /\ \A m \in OnTheWay("request", id) : m.from \in V /\ m.packet.ttl >= Ttl + 1 - Cardinality(V)

\* The request is under way over every link out of V.
FloodGoesOn(id, V) ==
  \A p \in V, q \in Stations \ V : carries(p, q) =>
    \E m \in OnTheWay("request", id) : m.from = p /\ m.to = q

\* There is one answer, a step ahead of W, on the way the request came.
AnswerComes(id, V, W) ==
  \E m \in reachWire :
    /\ OnTheWay("reply", id) = {m}
    /\ m.from \in W /\ m.to \in V \ W /\ m.to = reachReverse[m.from][id]
    /\ \A w \in W \ {m.from} : reachReverse[w][id] \in W
    /\ m.packet.ttl >= Ttl + 1 - Cardinality(W)

\* The request spreads until the sought has it, and then its answer comes back.
Flooded(id) ==
  LET V == HaveSeen("request", id)
      W == HaveSeen("reply", id)
  IN  /\ FloodSpreads(id, V, W)
      /\ Sought \notin V => OnTheWay("reply", id) = {} /\ W = {} /\ FloodGoesOn(id, V)
      /\ Sought \in V => AnswerComes(id, V, W)

\* A request that was made since the links last changed will be answered.
AnswerWillCome ==
  reachKnown /\ Reaches =>
    \A id \in ProbeIds : reachRequest.id = id /\ reachRequest.age < reachStable => Flooded(id)

\* Once the links have not changed for as long as a request lives, silence lasts no longer
\* than it takes to ask and to be answered.
HeardInTime ==
  reachKnown /\ Reaches =>
    /\ reachStable >= RequestLife + 1 /\ ~reachDue /\ reachRequest = NoProbe => reachSilent < QuietAfter
    /\ reachStable >= RequestLife + 2 /\ (reachRequest = NoProbe \/ reachRequest.age = 0) => reachSilent <= QuietAfter
    /\ reachStable >= RequestLife + 3 => reachSilent <= QuietAfter + 1

\* The inductive invariant.
ReachInv == ProbesTyped /\ ProbesApart /\ ReachMissed /\ AnswerWillCome /\ HeardInTime

\* A link carries packets both ways, between two members.
LEMMA CarriesBothWays ==
  ASSUME NEW p, NEW q, carries(p, q)
  PROVE  carries(q, p) /\ p # q /\ p \in Stations /\ q \in Stations /\ q \in Neighbours(p)
<1>1. {p, q} = {q, p}
  OBVIOUS
<1>2. {p, q} \in NodePairs /\ reachLinks[{p, q}] = "up"
  BY DEF carries
<1>3. carries(q, p)
  BY <1>1, <1>2 DEF carries
<1>4. PICK a \in Stations, b \in Stations : {p, q} = {a, b}
  BY <1>2, ReachAssumption
<1>5. p \in Stations /\ q \in Stations
  BY <1>4
<1>6. p # q
  <2>1. SUFFICES ASSUME p = q PROVE FALSE
    OBVIOUS
  <2>2. {p, q} = {p}
    BY <2>1
  <2>3. QED
    BY <1>2, <2>2, <1>5, ReachAssumption
<1>7. q \in Neighbours(p)
  BY <1>2, <1>5, <1>6 DEF Neighbours, isOpenTo
<1>8. QED
  BY <1>3, <1>5, <1>6, <1>7

\* What is posted comes from its sender, over a link that carries it.
LEMMA PostedFrom ==
  ASSUME NEW p, NEW qs, NEW packet, NEW m \in Posted(p, qs, packet)
  PROVE  /\ m.from = p /\ m.to \in qs /\ m.packet = packet /\ carries(p, m.to)
         /\ m = [from |-> p, to |-> m.to, packet |-> packet]
BY DEF Posted

\* Whoever is written to over a link that carries packets gets one.
LEMMA PostedTo ==
  ASSUME NEW p, NEW qs, NEW packet, NEW q \in qs, carries(p, q)
  PROVE  \E m \in Posted(p, qs, packet) : m.from = p /\ m.to = q /\ m.packet = packet
<1>1. [from |-> p, to |-> q, packet |-> packet] \in Posted(p, qs, packet)
  BY DEF Posted
<1>2. QED
  BY <1>1

\* There is a way out of every set of members around the seeker, and none out of some
\* set when the sought is out of reach.
LEMMA WayOut ==
  ASSUME Reaches, NEW V \in SUBSET Stations, Seeker \in V, Sought \notin V
  PROVE  \E p \in V, q \in Stations \ V : carries(p, q)
<1>1. PICK pair \in NodePairs : reachLinks[pair] = "up" /\ pair \cap V # {} /\ pair \ V # {}
  BY DEF Reaches
<1>2. PICK p \in pair : p \in V
  BY <1>1
<1>3. PICK q \in pair : q \notin V
  BY <1>1
<1>4. PICK a \in Stations, b \in Stations : pair = {a, b}
  BY ReachAssumption
<1>5. pair = {p, q} /\ q \in Stations
  BY <1>2, <1>3, <1>4
<1>6. QED
  BY <1>1, <1>2, <1>3, <1>5 DEF carries

\* If the sought is out of reach, some set around the seeker is severed.
LEMMA NoWayOut ==
  ASSUME ~Reaches
  PROVE  \E near \in SUBSET Stations : Severed(near)
<1>1. PICK near \in SUBSET Stations :
        /\ Seeker \in near /\ Sought \notin near
        /\ \A pair \in NodePairs : ~(reachLinks[pair] = "up" /\ pair \cap near # {} /\ pair \ near # {})
  BY DEF Reaches
<1>2. ASSUME NEW p \in near, NEW q \in Stations \ near PROVE ~carries(p, q)
  <2>1. {p, q} \cap near # {} /\ {p, q} \ near # {}
    OBVIOUS
  <2>2. QED
    BY <1>1, <2>1 DEF carries
<1>3. QED
  BY <1>1, <1>2 DEF Severed

\* What a member does with a packet: it has seen it; it passes a request on; it is the
\* one that is asked; it is the one that has asked; it passes an answer back.
Elsewhere == UNCHANGED <<reachLinks, reachKnown, reachDue, reachChanges>>
Unheard   == UNCHANGED <<reachRequest, reachSilent, reachStable>>

Discards(m) ==
  /\ <<m.packet.kind, m.packet.id>> \in reachSeen[m.to]
  /\ reachWire' = reachWire \ {m} /\ UNCHANGED <<reachSeen, reachReverse>> /\ Elsewhere /\ Unheard

Passes(m) ==
  /\ m.packet.kind = "request" /\ m.to # Sought
  /\ <<"request", m.packet.id>> \notin reachSeen[m.to]
  /\ reachReverse' = [reachReverse EXCEPT ![m.to][m.packet.id] = m.from]
  /\ reachSeen' = [reachSeen EXCEPT ![m.to] = @ \cup {<<"request", m.packet.id>>}]
  /\ reachWire' = (reachWire \ {m}) \cup
       (IF m.packet.ttl > 1
        THEN Posted(m.to, Neighbours(m.to) \ {m.from}, Forwarded(m.packet))
        ELSE {})
  /\ Elsewhere /\ Unheard

Responds(m) ==
  /\ m.packet.kind = "request" /\ m.to = Sought
  /\ <<"request", m.packet.id>> \notin reachSeen[Sought]
  /\ reachReverse' = [reachReverse EXCEPT ![Sought][m.packet.id] = m.from]
  /\ reachSeen' = [reachSeen EXCEPT ![Sought] = @ \cup {<<"request", m.packet.id>>, <<"reply", m.packet.id>>}]
  /\ reachWire' = (reachWire \ {m}) \cup
       Posted(Sought, {m.from}, Probe("reply", m.packet.id, m.packet.late))
  /\ Elsewhere /\ Unheard

ComesHome(m) ==
  /\ m.packet.kind = "reply" /\ m.to = Seeker
  /\ <<"reply", m.packet.id>> \notin reachSeen[Seeker]
  /\ reachSeen' = [reachSeen EXCEPT ![Seeker] = @ \cup {<<"reply", m.packet.id>>}]
  /\ reachWire' = reachWire \ {m}
  /\ reachSilent' = IF reachRequest.id = m.packet.id /\ reachKnown THEN 0 ELSE reachSilent
  /\ reachStable' = IF reachRequest.id \in {0, m.packet.id} THEN reachStable ELSE 0
  /\ reachRequest' = NoProbe /\ reachReverse' = reachReverse
  /\ Elsewhere

Back(m) == reachReverse[m.to][m.packet.id]
MayGoBack(m) == Back(m) \notin {m.to, m.from} /\ isOpenTo(m.to, Back(m)) /\ m.packet.ttl > 1

GoesBack(m) ==
  /\ m.packet.kind = "reply" /\ m.to # Seeker
  /\ <<"reply", m.packet.id>> \notin reachSeen[m.to]
  /\ reachSeen' = [reachSeen EXCEPT ![m.to] = @ \cup {<<"reply", m.packet.id>>}]
  /\ reachWire' = (reachWire \ {m}) \cup
       (IF MayGoBack(m) THEN Posted(m.to, {Back(m)}, Forwarded(m.packet)) ELSE {})
  /\ reachReverse' = reachReverse
  /\ Elsewhere /\ Unheard

\* A packet is handled in one of these five ways.
LEMMA HandledSomehow ==
  ASSUME NEW m \in reachWire, handleProbe(m)
  PROVE  Discards(m) \/ Passes(m) \/ Responds(m) \/ ComesHome(m) \/ GoesBack(m)
<1> DEFINE id == m.packet.id
<1>1. {<<kind, id>> : kind \in {"request"}} = {<<"request", id>>}
  OBVIOUS
<1>2. {<<kind, id>> : kind \in {"reply"}} = {<<"reply", id>>}
  OBVIOUS
<1>3. {<<kind, id>> : kind \in {"request", "reply"}} = {<<"request", id>>, <<"reply", id>>}
  OBVIOUS
<1>4. CASE m.packet.kind = "request" /\ handleRouteRequest(m, reachWire \ {m}) /\ Unheard
  <2>1. CASE ~unknownTo(m.to, m.packet)
    BY <1>4, <2>1 DEF handleRouteRequest, handleProbe, unknownTo, Discards, Elsewhere, probeVars
  <2>2. CASE unknownTo(m.to, m.packet) /\ m.to = Sought
    <3>1. <<"request", id>> \notin reachSeen[Sought]
      BY <2>2, <1>4 DEF unknownTo
    <3>2. /\ reachReverse' = [reachReverse EXCEPT ![Sought][m.packet.id] = m.from]
          /\ reachSeen' = noted(reachSeen, Sought, {"request", "reply"}, m.packet.id)
          /\ reachWire' = (reachWire \ {m}) \cup Posted(Sought, {m.from}, Probe("reply", m.packet.id, m.packet.late))
      BY <1>4, <2>2 DEF handleRouteRequest
    <3>3. reachSeen' = [reachSeen EXCEPT ![Sought] = @ \cup {<<"request", m.packet.id>>, <<"reply", m.packet.id>>}]
      BY <3>2, <1>3 DEF noted
    <3>4. QED
      BY <3>1, <3>2, <3>3, <2>2, <1>4 DEF Responds, handleProbe, Elsewhere
  <2>3. CASE unknownTo(m.to, m.packet) /\ m.to # Sought
    <3>1. <<"request", id>> \notin reachSeen[m.to]
      BY <2>3, <1>4 DEF unknownTo
    <3>2. /\ reachReverse' = [reachReverse EXCEPT ![m.to][m.packet.id] = m.from]
          /\ reachSeen' = noted(reachSeen, m.to, {"request"}, m.packet.id)
          /\ reachWire' = (reachWire \ {m}) \cup
               (IF m.packet.ttl > 1
                THEN Posted(m.to, Neighbours(m.to) \ {m.from}, Forwarded(m.packet)) ELSE {})
      BY <1>4, <2>3 DEF handleRouteRequest
    <3>3. reachSeen' = [reachSeen EXCEPT ![m.to] = @ \cup {<<"request", m.packet.id>>}]
      BY <3>2, <1>1 DEF noted
    <3>4. QED
      BY <3>1, <3>2, <3>3, <2>3, <1>4 DEF Passes, handleProbe, Elsewhere
  <2>4. QED
    BY <2>1, <2>2, <2>3
<1>5. CASE m.packet.kind = "reply" /\ handleRouteReply(m, reachWire \ {m})
  <2>1. CASE ~unknownTo(m.to, m.packet)
    BY <1>5, <2>1 DEF handleRouteReply, handleProbe, unknownTo, Discards, Elsewhere, Unheard, probeVars
  <2>2. CASE unknownTo(m.to, m.packet)
    <3>1. <<"reply", id>> \notin reachSeen[m.to]
      BY <2>2, <1>5 DEF unknownTo
    <3>2. reachReverse' = reachReverse /\ reachSeen' = noted(reachSeen, m.to, {"reply"}, m.packet.id)
      BY <1>5, <2>2 DEF handleRouteReply
    <3>3. reachSeen' = [reachSeen EXCEPT ![m.to] = @ \cup {<<"reply", m.packet.id>>}]
      BY <3>2, <1>2 DEF noted
    <3>4. CASE m.to = Seeker
      <4>1. /\ reachWire' = reachWire \ {m}
            /\ reachSilent' = IF reachRequest.id = m.packet.id /\ reachKnown THEN 0 ELSE reachSilent
            /\ reachStable' = IF reachRequest.id \in {0, m.packet.id} THEN reachStable ELSE 0
            /\ reachRequest' = NoProbe
        BY <1>5, <2>2, <3>4 DEF handleRouteReply
      <4>2. QED
        BY <4>1, <3>1, <3>2, <3>3, <3>4, <1>5 DEF ComesHome, handleProbe, Elsewhere
    <3>5. CASE m.to # Seeker
      <4>1. /\ reachWire' = (reachWire \ {m}) \cup
                 (IF MayGoBack(m) THEN Posted(m.to, {Back(m)}, Forwarded(m.packet)) ELSE {})
            /\ UNCHANGED <<reachRequest, reachSilent, reachStable>>
        BY <1>5, <2>2, <3>5 DEF handleRouteReply, MayGoBack, Back
      <4>2. QED
        BY <4>1, <3>1, <3>2, <3>3, <3>5, <1>5 DEF GoesBack, handleProbe, Elsewhere, Unheard
    <3>6. QED
      BY <3>4, <3>5
  <2>3. QED
    BY <2>1, <2>2
<1>6. QED
  BY <1>4, <1>5 DEF handleProbe, Unheard

\* Packets keep their type.
LEMMA PostedTyped ==
  ASSUME NEW p \in Stations, NEW qs \in SUBSET Stations, NEW packet \in Packets
  PROVE  Posted(p, qs, packet) \subseteq Probes /\ \A m \in Posted(p, qs, packet) : carries(m.from, m.to)
<1>1. ASSUME NEW m \in Posted(p, qs, packet) PROVE m \in Probes /\ carries(m.from, m.to)
  <2>1. m = [from |-> p, to |-> m.to, packet |-> packet] /\ m.to \in qs /\ carries(p, m.to) /\ m.from = p
    BY PostedFrom
  <2>2. [from |-> p, to |-> m.to, packet |-> packet] \in Probes
    BY <2>1 DEF Probes
  <2>3. QED
    BY <2>1, <2>2
<1>2. QED
  BY <1>1

LEMMA ProbeTyped ==
  ASSUME NEW kind \in {"request", "reply"}, NEW id \in ProbeIds, NEW late \in BOOLEAN
  PROVE  Probe(kind, id, late) \in Packets
<1>1. Ttl \in Nat \ {0}
  <2>1. Cardinality(Stations) # 0 /\ Cardinality(Stations) \in Nat
    BY FS_EmptySet, FS_CardinalityType, ReachAssumption
  <2>2. QED
    BY <2>1, ReachAssumption
<1>2. QED
  BY <1>1 DEF Probe, Packets

LEMMA ForwardedTyped ==
  ASSUME NEW packet \in Packets, packet.ttl > 1
  PROVE  /\ Forwarded(packet) \in Packets
         /\ Forwarded(packet).kind = packet.kind /\ Forwarded(packet).id = packet.id
         /\ Forwarded(packet).late = packet.late /\ Forwarded(packet).ttl = packet.ttl - 1
BY DEF Forwarded, Packets

\* A request is made only while one of the two identifiers is free.
LEMMA FreeProbe ==
  ASSUME ProbesTyped, ProbesApart, reachDue
  PROVE  newProbe \in ProbeIds /\ newProbe \notin InUse
<1>1. \A m, n \in reachWire : m.packet.id = n.packet.id
  BY DEF ProbesTyped, ProbesApart, Probes, Packets
<1>2. \E id \in ProbeIds : id \notin InUse
  BY <1>1 DEF InUse, ProbeIds
<1>3. QED
  BY <1>2 DEF newProbe

\* Links that do not change carry the same.
LEMMA LinksStay ==
  ASSUME reachLinks' = reachLinks
  PROVE  /\ \A p, q : carries(p, q)' <=> carries(p, q)
         /\ Reaches' <=> Reaches
         /\ \A near : Severed(near)' <=> Severed(near)
<1>1. \A p, q : carries(p, q)' <=> carries(p, q)
  BY DEF carries
<1>2. Reaches' <=> Reaches
  BY DEF Reaches
<1>3. \A near : Severed(near)' <=> Severed(near)
  BY <1>1 DEF Severed
<1>4. QED
  BY <1>1, <1>2, <1>3

\* Typing, one action after the other.
LEMMA WireTyped ==
  ASSUME ProbesTyped, reachLinks' = reachLinks, NEW W, W \subseteq Probes,
         \A m \in W : carries(m.from, m.to), reachWire' \subseteq reachWire \cup W
  PROVE  reachWire' \subseteq Probes /\ \A m \in reachWire' : carries(m.from, m.to)'
<1>1. reachWire \subseteq Probes /\ \A m \in reachWire : carries(m.from, m.to)
  BY DEF ProbesTyped
<1>2. \A p, q : carries(p, q)' <=> carries(p, q)
  BY LinksStay
<1>3. reachWire' \subseteq Probes
  BY <1>1
<1>4. ASSUME NEW m \in reachWire' PROVE carries(m.from, m.to)'
  <2>1. carries(m.from, m.to)
    BY <1>1
  <2>2. QED
    BY <2>1, <1>2
<1>5. QED
  BY <1>3, <1>4

\* What a member has seen, with something added.
LEMMA SeenGrows ==
  ASSUME reachSeen \in [Stations -> SUBSET ({"request", "reply"} \X ProbeIds)],
         NEW p \in Stations, NEW S \in SUBSET ({"request", "reply"} \X ProbeIds),
         reachSeen' = [reachSeen EXCEPT ![p] = @ \cup S]
  PROVE  /\ reachSeen' \in [Stations -> SUBSET ({"request", "reply"} \X ProbeIds)]
         /\ reachSeen'[p] = reachSeen[p] \cup S
         /\ \A q \in Stations \ {p} : reachSeen'[q] = reachSeen[q]
OBVIOUS

\* The parts of a packet under way.
LEMMA MemberOfProbes ==
  ASSUME NEW m \in Probes
  PROVE  /\ m.from \in Stations /\ m.to \in Stations /\ m.packet \in Packets
         /\ m.packet.kind \in {"request", "reply"} /\ m.packet.id \in ProbeIds
         /\ m.packet.ttl \in Nat /\ m.packet.ttl >= 1 /\ m.packet.late \in BOOLEAN
BY DEF Probes, Packets

\* Handling a packet keeps the types.
LEMMA HandledTyped ==
  ASSUME ProbesTyped, NEW m \in reachWire, handleProbe(m)
  PROVE  ProbesTyped'
<1>1. Discards(m) \/ Passes(m) \/ Responds(m) \/ ComesHome(m) \/ GoesBack(m)
  BY HandledSomehow
<1>2. m \in Probes /\ carries(m.from, m.to)
  BY DEF ProbesTyped
<1>3. /\ m.from \in Stations /\ m.to \in Stations /\ m.packet \in Packets
      /\ m.packet.kind \in {"request", "reply"} /\ m.packet.id \in ProbeIds
      /\ m.packet.ttl \in Nat /\ m.packet.ttl >= 1 /\ m.packet.late \in BOOLEAN
  BY <1>2, MemberOfProbes
<1>4. reachLinks' = reachLinks /\ reachKnown' = reachKnown /\ reachDue' = reachDue
  BY <1>1 DEF Discards, Passes, Responds, ComesHome, GoesBack, Elsewhere
<1>5. reachReverse' \in [Stations -> [ProbeIds -> Stations]]
  <2>1. CASE reachReverse' = reachReverse
    BY <2>1 DEF ProbesTyped, ReachTypeOK
  <2>2. CASE reachReverse' = [reachReverse EXCEPT ![m.to][m.packet.id] = m.from]
    BY <2>2, <1>3 DEF ProbesTyped, ReachTypeOK
  <2>3. QED
    BY <2>1, <2>2, <1>1 DEF Discards, Passes, Responds, ComesHome, GoesBack
<1>6. reachSeen' \in [Stations -> SUBSET ({"request", "reply"} \X ProbeIds)]
  <2>0. reachSeen \in [Stations -> SUBSET ({"request", "reply"} \X ProbeIds)]
    BY DEF ProbesTyped
  <2>1. CASE reachSeen' = reachSeen
    BY <2>0, <2>1
  <2>2. ASSUME NEW S \in SUBSET ({"request", "reply"} \X ProbeIds), reachSeen' = [reachSeen EXCEPT ![m.to] = @ \cup S]
        PROVE  reachSeen' \in [Stations -> SUBSET ({"request", "reply"} \X ProbeIds)]
    BY <2>0, <2>2, <1>3, SeenGrows
  <2>3. /\ {<<"request", m.packet.id>>} \in SUBSET ({"request", "reply"} \X ProbeIds)
        /\ {<<"reply", m.packet.id>>} \in SUBSET ({"request", "reply"} \X ProbeIds)
        /\ {<<"request", m.packet.id>>, <<"reply", m.packet.id>>} \in SUBSET ({"request", "reply"} \X ProbeIds)
    BY <1>3
  <2>4. CASE Discards(m)
    BY <2>1, <2>4 DEF Discards
  <2>5. CASE Passes(m)
    BY <2>2, <2>3, <2>5 DEF Passes
  <2>6. CASE Responds(m)
    <3>1. reachSeen' = [reachSeen EXCEPT ![m.to] = @ \cup {<<"request", m.packet.id>>, <<"reply", m.packet.id>>}]
      BY <2>6 DEF Responds
    <3>2. QED
      BY <3>1, <2>2, <2>3
  <2>7. CASE ComesHome(m)
    <3>1. reachSeen' = [reachSeen EXCEPT ![m.to] = @ \cup {<<"reply", m.packet.id>>}]
      BY <2>7 DEF ComesHome
    <3>2. QED
      BY <3>1, <2>2, <2>3
  <2>8. CASE GoesBack(m)
    BY <2>2, <2>3, <2>8 DEF GoesBack
  <2>9. QED
    BY <1>1, <2>4, <2>5, <2>6, <2>7, <2>8
<1>7. reachWire' \subseteq Probes /\ \A n \in reachWire' : carries(n.from, n.to)'
  <2>1. CASE reachWire' \subseteq reachWire
    <3>1. /\ reachWire \subseteq Probes /\ \A n \in reachWire : carries(n.from, n.to)
          /\ reachWire' \subseteq reachWire \cup reachWire
      BY <2>1 DEF ProbesTyped
    <3>2. QED
      BY <3>1, <1>4, WireTyped
  <2>2. ASSUME NEW p \in Stations, NEW qs \in SUBSET Stations, NEW packet \in Packets,
               reachWire' = (reachWire \ {m}) \cup Posted(p, qs, packet)
        PROVE  reachWire' \subseteq Probes /\ \A n \in reachWire' : carries(n.from, n.to)'
    BY <2>2, PostedTyped, WireTyped, <1>4
  <2>3. CASE Discards(m) \/ ComesHome(m)
    BY <2>1, <2>3 DEF Discards, ComesHome
  <2>4. CASE Passes(m)
    <3>1. CASE m.packet.ttl > 1
      <4>1. Neighbours(m.to) \ {m.from} \in SUBSET Stations
        BY DEF Neighbours
      <4>2. Forwarded(m.packet) \in Packets
        BY <3>1, <1>3, ForwardedTyped
      <4>3. reachWire' = (reachWire \ {m}) \cup Posted(m.to, Neighbours(m.to) \ {m.from}, Forwarded(m.packet))
        BY <2>4, <3>1 DEF Passes
      <4>4. QED
        BY <4>1, <4>2, <4>3, <1>3, <2>2
    <3>2. CASE ~(m.packet.ttl > 1)
      BY <2>1, <2>4, <3>2 DEF Passes
    <3>3. QED
      BY <3>1, <3>2
  <2>5. CASE Responds(m)
    <3>1. Probe("reply", m.packet.id, m.packet.late) \in Packets
      BY <1>3, ProbeTyped
    <3>2. {m.from} \in SUBSET Stations /\ Sought \in Stations
      BY <1>3, ReachAssumption
    <3>3. reachWire' = (reachWire \ {m}) \cup Posted(Sought, {m.from}, Probe("reply", m.packet.id, m.packet.late))
      BY <2>5 DEF Responds
    <3>4. QED
      BY <3>1, <3>2, <3>3, <2>2
  <2>6. CASE GoesBack(m)
    <3>1. CASE MayGoBack(m)
      <4>1. Forwarded(m.packet) \in Packets
        BY <3>1, <1>3, ForwardedTyped DEF MayGoBack
      <4>2. {Back(m)} \in SUBSET Stations
        BY <1>3 DEF Back, ProbesTyped, ReachTypeOK
      <4>3. reachWire' = (reachWire \ {m}) \cup Posted(m.to, {Back(m)}, Forwarded(m.packet))
        BY <2>6, <3>1 DEF GoesBack
      <4>4. QED
        BY <4>1, <4>2, <4>3, <1>3, <2>2
    <3>2. CASE ~MayGoBack(m)
      BY <2>1, <2>6, <3>2 DEF GoesBack
    <3>3. QED
      BY <3>1, <3>2
  <2>7. QED
    BY <1>1, <2>3, <2>4, <2>5, <2>6
<1>8. /\ reachSilent' \in 0 .. LostAfter /\ reachStable' \in 0 .. SettledAfter
      /\ reachRequest' \in [id : ProbeIds \cup {0}, age : 0 .. RequestLife]
      /\ reachRequest' # NoProbe => reachRequest'.id \in ProbeIds
  <2>1. CASE Unheard
    BY <2>1 DEF Unheard, ProbesTyped, ReachTypeOK
  <2>2. CASE ComesHome(m)
    <3>1. /\ reachSilent' \in {0, reachSilent} /\ reachStable' \in {0, reachStable}
          /\ reachRequest' = NoProbe
      BY <2>2 DEF ComesHome
    <3>2. 0 \in 0 .. LostAfter /\ 0 \in 0 .. SettledAfter /\ 0 \in 0 .. RequestLife
      BY ReachAssumption DEF SettledAfter
    <3>3. QED
      BY <3>1, <3>2 DEF ProbesTyped, ReachTypeOK, NoProbe
  <2>3. QED
    BY <1>1, <2>1, <2>2 DEF Discards, Passes, Responds, GoesBack
<1>9. reachLinks' \in [NodePairs -> {"up", "dead", "down"}] /\ reachKnown' \in BOOLEAN /\ reachDue' \in BOOLEAN
  BY <1>4 DEF ProbesTyped, ReachTypeOK
<1>10. QED
  BY <1>5, <1>6, <1>7, <1>8, <1>9 DEF ProbesTyped, ReachTypeOK

\* What is remembered of live identifiers keeps its type.
LEMMA StillTyped ==
  ASSUME ProbesTyped
  PROVE  /\ seenStill \in [Stations -> SUBSET ({"request", "reply"} \X ProbeIds)]
         /\ reverseStill \in [Stations -> [ProbeIds -> Stations]]
<1>1. seenStill \in [Stations -> SUBSET ({"request", "reply"} \X ProbeIds)]
  BY DEF ProbesTyped, seenStill
<1>2. reverseStill \in [Stations -> [ProbeIds -> Stations]]
  BY DEF ProbesTyped, ReachTypeOK, reverseStill
<1>3. QED
  BY <1>1, <1>2

LEMMA ForgottenTyped ==
  ASSUME NEW r \in [Stations -> [ProbeIds -> Stations]], NEW pair
  PROVE  forgetConnection(r, pair) \in [Stations -> [ProbeIds -> Stations]]
BY DEF forgetConnection

\* The seeker asks all that its links reach.
AsksAround == Posted(Seeker, Neighbours(Seeker), Probe("request", newProbe, FALSE))

LEMMA AskedTyped ==
  ASSUME newProbe \in ProbeIds
  PROVE  AsksAround \subseteq Probes /\ \A m \in AsksAround : carries(m.from, m.to)
<1>1. Seeker \in Stations /\ Neighbours(Seeker) \in SUBSET Stations
  BY ReachAssumption DEF Neighbours
<1>2. Probe("request", newProbe, FALSE) \in Packets
  BY ProbeTyped
<1>3. QED
  BY <1>1, <1>2, PostedTyped DEF AsksAround

LEMMA NotedTyped ==
  ASSUME NEW memory \in [Stations -> SUBSET ({"request", "reply"} \X ProbeIds)], NEW id \in ProbeIds
  PROVE  /\ noted(memory, Seeker, {"request"}, id) = [memory EXCEPT ![Seeker] = @ \cup {<<"request", id>>}]
         /\ noted(memory, Seeker, {"request"}, id) \in [Stations -> SUBSET ({"request", "reply"} \X ProbeIds)]
<1>1. {<<kind, id>> : kind \in {"request"}} = {<<"request", id>>}
  OBVIOUS
<1>2. noted(memory, Seeker, {"request"}, id) = [memory EXCEPT ![Seeker] = @ \cup {<<"request", id>>}]
  BY <1>1 DEF noted
<1>3. [memory EXCEPT ![Seeker] = @ \cup {<<"request", id>>}] \in [Stations -> SUBSET ({"request", "reply"} \X ProbeIds)]
  BY ReachAssumption
<1>4. QED
  BY <1>2, <1>3

\* So does every other action.
LEMMA MaintainTyped ==
  ASSUME ProbesTyped, ProbesApart, maintainPeerReachability
  PROVE  ProbesTyped'
<1>1. /\ reachLinks' = reachLinks /\ reachKnown' = reachKnown /\ reachDue' = FALSE
      /\ reachSilent' = reachSilent /\ reachStable' = reachStable
  BY DEF maintainPeerReachability
<1>2. CASE UNCHANGED <<reachSeen, reachReverse, reachRequest, reachWire>>
  <2>1. \A p, q : carries(p, q)' <=> carries(p, q)
    BY <1>1, LinksStay
  <2>2. \A m \in reachWire : carries(m.from, m.to)'
    BY <2>1 DEF ProbesTyped
  <2>3. QED
    BY <1>1, <1>2, <2>2 DEF ProbesTyped, ReachTypeOK
<1>3. CASE mayAsk /\ requestRoute
  <2>1. newProbe \in ProbeIds
    BY FreeProbe DEF maintainPeerReachability
  <2>2. /\ reachSeen' = noted(seenStill, Seeker, {"request"}, newProbe)
        /\ reachReverse' = reverseStill
        /\ reachRequest' = [id |-> newProbe, age |-> 0]
        /\ reachWire' = reachWire \cup AsksAround
    BY <1>3 DEF requestRoute, AsksAround
  <2>3. reachSeen' \in [Stations -> SUBSET ({"request", "reply"} \X ProbeIds)]
    BY <2>1, <2>2, StillTyped, NotedTyped
  <2>4. reachWire' \subseteq Probes /\ \A m \in reachWire' : carries(m.from, m.to)'
    BY <2>1, <2>2, <1>1, AskedTyped, WireTyped
  <2>5. reachReverse' \in [Stations -> [ProbeIds -> Stations]]
    BY <2>2, StillTyped
  <2>6. /\ reachRequest' \in [id : ProbeIds \cup {0}, age : 0 .. RequestLife]
        /\ reachRequest'.id \in ProbeIds
    BY <2>1, <2>2, ReachAssumption
  <2>7. /\ reachLinks' \in [NodePairs -> {"up", "dead", "down"}] /\ reachKnown' \in BOOLEAN /\ reachDue' \in BOOLEAN
        /\ reachSilent' \in 0 .. LostAfter /\ reachStable' \in 0 .. SettledAfter
    BY <1>1 DEF ProbesTyped, ReachTypeOK
  <2>8. QED
    BY <2>3, <2>4, <2>5, <2>6, <2>7 DEF ProbesTyped, ReachTypeOK
<1>4. QED
  BY <1>2, <1>3 DEF maintainPeerReachability, requestRoute

\* A link that goes down or changes takes its packets with it; the others carry on.
LEMMA OthersCarry ==
  ASSUME NEW pair, \A x \in NodePairs \ {pair} : reachLinks'[x] = reachLinks[x],
         NEW p, NEW q, {p, q} # pair, carries(p, q)
  PROVE  carries(p, q)'
BY DEF carries

LEMMA RemoveTyped ==
  ASSUME ProbesTyped, ProbesApart, removeMeshPeer
  PROVE  ProbesTyped'
<1> DEFINE cut == {Seeker, Sought}
<1>1. newProbe \in ProbeIds
  BY FreeProbe DEF removeMeshPeer
<1>2. /\ reachKnown' = FALSE /\ reachDue' = FALSE /\ reachRequest' = NoProbe
      /\ reachSilent' = reachSilent /\ reachStable' = reachStable
      /\ reachSeen' = (IF mayAsk THEN noted(seenStill, Seeker, {"request"}, newProbe) ELSE reachSeen)
      /\ reachReverse' = forgetConnection(IF mayAsk THEN reverseStill ELSE reachReverse, cut)
      /\ reachLinks' = [pair \in NodePairs |-> IF pair = cut THEN "down" ELSE reachLinks[pair]]
      /\ reachWire' = {mail \in reachWire \cup (IF mayAsk THEN AsksAround ELSE {}) : {mail.from, mail.to} # cut}
  BY DEF removeMeshPeer, AsksAround
<1>3. reachSeen' \in [Stations -> SUBSET ({"request", "reply"} \X ProbeIds)]
  <2>1. CASE mayAsk
    BY <1>1, <1>2, <2>1, StillTyped, NotedTyped
  <2>2. CASE ~mayAsk
    BY <1>2, <2>2 DEF ProbesTyped
  <2>3. QED
    BY <2>1, <2>2
<1>4. reachReverse' \in [Stations -> [ProbeIds -> Stations]]
  <2>1. (IF mayAsk THEN reverseStill ELSE reachReverse) \in [Stations -> [ProbeIds -> Stations]]
    BY StillTyped DEF ProbesTyped, ReachTypeOK
  <2>2. PICK r \in [Stations -> [ProbeIds -> Stations]] : r = (IF mayAsk THEN reverseStill ELSE reachReverse)
    BY <2>1
  <2>3. reachReverse' = forgetConnection(r, cut)
    BY <1>2, <2>2
  <2>4. QED
    BY <2>2, <2>3, ForgottenTyped
<1>5. reachLinks' \in [NodePairs -> {"up", "dead", "down"}]
  BY <1>2 DEF ProbesTyped, ReachTypeOK
<1>6. \A x \in NodePairs \ {cut} : reachLinks'[x] = reachLinks[x]
  BY <1>2
<1>7. ASSUME NEW m \in reachWire' PROVE m \in Probes /\ carries(m.from, m.to)'
  <2>1. {m.from, m.to} # cut /\ m \in reachWire \cup AsksAround
    BY <1>2
  <2>2. m \in Probes /\ carries(m.from, m.to)
    BY <2>1, <1>1, AskedTyped DEF ProbesTyped
  <2>3. QED
    BY <2>1, <2>2, <1>6, OthersCarry
<1>8. reachWire' \subseteq Probes /\ \A m \in reachWire' : carries(m.from, m.to)'
  BY <1>7
<1>9. reachRequest' \in [id : ProbeIds \cup {0}, age : 0 .. RequestLife]
  BY <1>2, ReachAssumption DEF NoProbe
<1>10. reachSilent' \in 0 .. LostAfter /\ reachStable' \in 0 .. SettledAfter
  BY <1>2 DEF ProbesTyped, ReachTypeOK
<1>11. QED
  BY <1>2, <1>3, <1>4, <1>5, <1>8, <1>9, <1>10 DEF ProbesTyped, ReachTypeOK

LEMMA ExpireTyped ==
  ASSUME ProbesTyped, RequestExpires
  PROVE  ProbesTyped'
<1>1. reachRequest' = NoProbe /\ UNCHANGED <<reachLinks, reachWire, reachSilent, reachKnown, probeVars, timeVars>>
  BY DEF RequestExpires
<1>2. \A p, q : carries(p, q)' <=> carries(p, q)
  BY <1>1, LinksStay
<1>3. \A m \in reachWire' : carries(m.from, m.to)'
  BY <1>1, <1>2 DEF ProbesTyped
<1>4. reachRequest' \in [id : ProbeIds \cup {0}, age : 0 .. RequestLife]
  BY <1>1, ReachAssumption DEF NoProbe
<1>5. QED
  BY <1>1, <1>3, <1>4 DEF ProbesTyped, ReachTypeOK, probeVars, timeVars

LEMMA NoteTyped ==
  ASSUME ProbesTyped, notePeerReachable
  PROVE  ProbesTyped'
<1>1. reachSilent' = 0 /\ UNCHANGED <<reachLinks, reachWire, reachRequest, reachKnown, probeVars, timeVars>>
  BY DEF notePeerReachable
<1>2. \A p, q : carries(p, q)' <=> carries(p, q)
  BY <1>1, LinksStay
<1>3. \A m \in reachWire' : carries(m.from, m.to)'
  BY <1>1, <1>2 DEF ProbesTyped
<1>4. reachSilent' \in 0 .. LostAfter
  BY <1>1, ReachAssumption
<1>5. QED
  BY <1>1, <1>3, <1>4 DEF ProbesTyped, ReachTypeOK, probeVars, timeVars

LEMMA LinkTyped ==
  ASSUME ProbesTyped, NEW pair \in NodePairs, NEW to \in {"up", "dead", "down"}, LinkChanges(pair, to)
  PROVE  ProbesTyped'
<1>1. /\ reachLinks' = [reachLinks EXCEPT ![pair] = to]
      /\ reachWire' = {mail \in reachWire : {mail.from, mail.to} # pair}
      /\ reachStable' = 0 /\ reachSilent' \in {0, reachSilent} /\ reachKnown' \in {TRUE, reachKnown}
      /\ reachReverse' = (IF to = "down" THEN forgetConnection(reachReverse, pair) ELSE reachReverse)
      /\ UNCHANGED <<reachRequest, reachSeen, reachDue>>
  BY DEF LinkChanges
<1>2. reachReverse' \in [Stations -> [ProbeIds -> Stations]]
  BY <1>1, ForgottenTyped DEF ProbesTyped, ReachTypeOK
<1>3. reachLinks' \in [NodePairs -> {"up", "dead", "down"}]
  BY <1>1 DEF ProbesTyped, ReachTypeOK
<1>4. \A x \in NodePairs \ {pair} : reachLinks'[x] = reachLinks[x]
  BY <1>1 DEF ProbesTyped, ReachTypeOK
<1>5. ASSUME NEW m \in reachWire' PROVE m \in Probes /\ carries(m.from, m.to)'
  <2>1. {m.from, m.to} # pair /\ m \in reachWire
    BY <1>1
  <2>2. m \in Probes /\ carries(m.from, m.to)
    BY <2>1 DEF ProbesTyped
  <2>3. QED
    BY <2>1, <2>2, <1>4, OthersCarry
<1>6. reachWire' \subseteq Probes /\ \A m \in reachWire' : carries(m.from, m.to)'
  BY <1>5
<1>7. reachSilent' \in 0 .. LostAfter /\ reachStable' \in 0 .. SettledAfter
  BY <1>1, ReachAssumption DEF ProbesTyped, ReachTypeOK, SettledAfter
<1>8. reachKnown' \in BOOLEAN
  BY <1>1 DEF ProbesTyped
<1>9. QED
  BY <1>1, <1>2, <1>3, <1>6, <1>7, <1>8 DEF ProbesTyped, ReachTypeOK

\* At a tick every packet becomes late, and is otherwise what it was.
Late(m) == [m EXCEPT !.packet.late = TRUE]

LEMMA LateFields ==
  ASSUME NEW m \in Probes
  PROVE  /\ Late(m) \in Probes /\ Late(m).from = m.from /\ Late(m).to = m.to
         /\ Late(m).packet.kind = m.packet.kind /\ Late(m).packet.id = m.packet.id
         /\ Late(m).packet.ttl = m.packet.ttl /\ Late(m).packet.late = TRUE
BY DEF Late, Probes, Packets

LEMMA TickTyped ==
  ASSUME ProbesTyped, ReachTick
  PROVE  ProbesTyped'
<1>1. /\ reachWire' = {Late(m) : m \in reachWire}
      /\ reachDue' = TRUE /\ reachSeen' = seenStill /\ reachReverse' = reverseStill
      /\ UNCHANGED <<reachLinks, reachKnown, reachChanges>>
  BY DEF ReachTick, Late
<1>2. reachSilent' \in 0 .. LostAfter /\ reachStable' \in 0 .. SettledAfter
  BY ReachAssumption DEF ReachTick, ProbesTyped, ReachTypeOK, SettledAfter
<1>3. /\ reachRequest' \in [id : ProbeIds \cup {0}, age : 0 .. RequestLife]
      /\ reachRequest' # NoProbe => reachRequest'.id \in ProbeIds
  <2>1. reachRequest' \in {reachRequest, [reachRequest EXCEPT !.age = @ + 1]}
    BY DEF ReachTick
  <2>2. reachRequest' # reachRequest => reachRequest # NoProbe /\ reachRequest.age # RequestLife
    BY DEF ReachTick
  <2>3. CASE reachRequest' = reachRequest
    BY <2>3 DEF ProbesTyped, ReachTypeOK
  <2>4. CASE reachRequest' # reachRequest
    <3>1. reachRequest \in [id : ProbeIds \cup {0}, age : 0 .. RequestLife] /\ reachRequest.age # RequestLife
      BY <2>2, <2>4 DEF ProbesTyped, ReachTypeOK
    <3>2. reachRequest.id \in ProbeIds
      BY <2>2, <2>4 DEF ProbesTyped
    <3>3. reachRequest' = [reachRequest EXCEPT !.age = @ + 1]
      BY <2>1, <2>4
    <3>4. reachRequest' = [id |-> reachRequest.id, age |-> reachRequest.age + 1]
      BY <3>1, <3>3
    <3>5. reachRequest.age + 1 \in 0 .. RequestLife
      BY <3>1, ReachAssumption
    <3>6. QED
      BY <3>1, <3>2, <3>4, <3>5
  <2>5. QED
    BY <2>3, <2>4
<1>4. \A p, q : carries(p, q)' <=> carries(p, q)
  BY <1>1, LinksStay
<1>5. ASSUME NEW n \in reachWire' PROVE n \in Probes /\ carries(n.from, n.to)'
  <2>1. PICK m \in reachWire : n = Late(m)
    BY <1>1
  <2>2. m \in Probes /\ carries(m.from, m.to)
    BY DEF ProbesTyped
  <2>3. n \in Probes /\ n.from = m.from /\ n.to = m.to
    BY <2>1, <2>2, LateFields
  <2>4. QED
    BY <2>2, <2>3, <1>4
<1>6. reachWire' \subseteq Probes /\ \A m \in reachWire' : carries(m.from, m.to)'
  BY <1>5
<1>7. /\ reachSeen' \in [Stations -> SUBSET ({"request", "reply"} \X ProbeIds)]
      /\ reachReverse' \in [Stations -> [ProbeIds -> Stations]]
  BY <1>1, StillTyped
<1>8. reachLinks' \in [NodePairs -> {"up", "dead", "down"}] /\ reachKnown' \in BOOLEAN /\ reachDue' \in BOOLEAN
  BY <1>1 DEF ProbesTyped, ReachTypeOK
<1>9. QED
  BY <1>2, <1>3, <1>6, <1>7, <1>8 DEF ProbesTyped, ReachTypeOK

\* What handling a packet puts under way is of the same request, and as late.
LEMMA HandledKin ==
  ASSUME ProbesTyped, NEW m \in reachWire, handleProbe(m), NEW n \in reachWire'
  PROVE  n \in reachWire \/ (n.packet.id = m.packet.id /\ n.packet.late = m.packet.late)
<1>1. Discards(m) \/ Passes(m) \/ Responds(m) \/ ComesHome(m) \/ GoesBack(m)
  BY HandledSomehow
<1>2. m.packet \in Packets
  BY MemberOfProbes DEF ProbesTyped
<1>3. CASE Discards(m) \/ ComesHome(m)
  BY <1>3 DEF Discards, ComesHome
<1>4. CASE Passes(m)
  <2>1. SUFFICES ASSUME n \notin reachWire
                 PROVE  n.packet.id = m.packet.id /\ n.packet.late = m.packet.late
    OBVIOUS
  <2>2. m.packet.ttl > 1 /\ n \in Posted(m.to, Neighbours(m.to) \ {m.from}, Forwarded(m.packet))
    BY <1>4, <2>1 DEF Passes
  <2>3. n.packet = Forwarded(m.packet)
    BY <2>2, PostedFrom
  <2>4. QED
    BY <2>2, <2>3, <1>2, ForwardedTyped
<1>5. CASE Responds(m)
  <2>1. SUFFICES ASSUME n \notin reachWire
                 PROVE  n.packet.id = m.packet.id /\ n.packet.late = m.packet.late
    OBVIOUS
  <2>2. n \in Posted(Sought, {m.from}, Probe("reply", m.packet.id, m.packet.late))
    BY <1>5, <2>1 DEF Responds
  <2>3. n.packet = Probe("reply", m.packet.id, m.packet.late)
    BY <2>2, PostedFrom
  <2>4. QED
    BY <2>3 DEF Probe
<1>6. CASE GoesBack(m)
  <2>1. SUFFICES ASSUME n \notin reachWire
                 PROVE  n.packet.id = m.packet.id /\ n.packet.late = m.packet.late
    OBVIOUS
  <2>2. MayGoBack(m) /\ n \in Posted(m.to, {Back(m)}, Forwarded(m.packet))
    BY <1>6, <2>1 DEF GoesBack
  <2>3. n.packet = Forwarded(m.packet)
    BY <2>2, PostedFrom
  <2>4. QED
    BY <2>2, <2>3, <1>2, ForwardedTyped DEF MayGoBack
<1>7. QED
  BY <1>1, <1>3, <1>4, <1>5, <1>6

\* So handling one leaves the requests apart.
LEMMA HandledApart ==
  ASSUME ProbesTyped, ProbesApart, NEW m \in reachWire, handleProbe(m)
  PROVE  ProbesApart'
<1>1. \A n \in reachWire' : \E k \in reachWire : n.packet.id = k.packet.id /\ n.packet.late = k.packet.late
  BY HandledKin
<1>2. reachDue' = reachDue /\ (reachRequest' = reachRequest \/ reachRequest' = NoProbe)
  BY HandledSomehow DEF Discards, Passes, Responds, ComesHome, GoesBack, Elsewhere, Unheard
<1>3. \A k, n \in reachWire' : k.packet.late = n.packet.late => k.packet.id = n.packet.id
  BY <1>1 DEF ProbesApart
<1>4. reachDue' => \A n \in reachWire' : n.packet.late
  BY <1>1, <1>2 DEF ProbesApart
<1>5. ASSUME reachRequest' # NoProbe, NEW n \in reachWire', n.packet.id = reachRequest'.id
      PROVE  reachRequest'.age <= 1 /\ (n.packet.late <=> reachRequest'.age = 1)
  <2>1. PICK k \in reachWire : n.packet.id = k.packet.id /\ n.packet.late = k.packet.late
    BY <1>1
  <2>2. reachRequest' = reachRequest
    BY <1>2, <1>5
  <2>3. reachRequest.age <= 1 /\ (k.packet.late <=> reachRequest.age = 1)
    BY <2>1, <2>2, <1>5 DEF ProbesApart
  <2>4. QED
    BY <2>1, <2>2, <2>3
<1>6. QED
  BY <1>3, <1>4, <1>5 DEF ProbesApart

\* Fewer packets and the same request, or none, keep them apart.
LEMMA FewerApart ==
  ASSUME ProbesApart, reachWire' \subseteq reachWire, reachDue' = reachDue \/ reachDue' = FALSE,
         reachRequest' = reachRequest \/ reachRequest' = NoProbe
  PROVE  ProbesApart'
<1>1. reachRequest' # NoProbe => reachRequest' = reachRequest
  OBVIOUS
<1>2. reachDue' => reachDue
  OBVIOUS
<1>3. QED
  BY <1>1, <1>2 DEF ProbesApart

LEMMA AskedKin ==
  ASSUME NEW m \in AsksAround
  PROVE  m.packet.id = newProbe /\ m.packet.late = FALSE /\ m.packet.kind = "request" /\ m.from = Seeker
         /\ m.packet.ttl = Ttl
BY PostedFrom DEF AsksAround, Probe

\* A new request, with some of what was under way before the timer fired.
LEMMA MoreApart ==
  ASSUME ProbesTyped, ProbesApart, reachDue, reachWire' \subseteq reachWire \cup AsksAround, reachDue' = FALSE,
         reachRequest' = NoProbe \/ (reachRequest'.id = newProbe /\ reachRequest'.age = 0)
  PROVE  ProbesApart'
<1>1. newProbe \in ProbeIds /\ newProbe \notin InUse
  BY FreeProbe
<1>2. \A m \in reachWire : m.packet.late = TRUE /\ m.packet.id # newProbe
  BY <1>1 DEF ProbesApart, InUse, ProbesTyped, Probes, Packets
<1>3. \A m \in AsksAround : m.packet.late = FALSE /\ m.packet.id = newProbe
  BY AskedKin
<1>4. ASSUME NEW m \in reachWire', NEW n \in reachWire', m.packet.late = n.packet.late
      PROVE  m.packet.id = n.packet.id
  <2>1. CASE m \in reachWire
    <3>1. n \in reachWire
      BY <1>2, <1>3, <1>4, <2>1
    <3>2. QED
      BY <2>1, <3>1, <1>4 DEF ProbesApart
  <2>2. CASE m \in AsksAround
    <3>1. n \in AsksAround
      BY <1>2, <1>3, <1>4, <2>2
    <3>2. QED
      BY <2>2, <3>1, <1>3
  <2>3. QED
    BY <2>1, <2>2
<1>5. ASSUME reachRequest' # NoProbe, NEW m \in reachWire', m.packet.id = reachRequest'.id
      PROVE  reachRequest'.age <= 1 /\ (m.packet.late <=> reachRequest'.age = 1)
  <2>1. m \in AsksAround
    BY <1>2, <1>5
  <2>2. QED
    BY <2>1, <1>3, <1>5
<1>6. QED
  BY <1>4, <1>5 DEF ProbesApart

\* The other actions do, too.
LEMMA MaintainApart ==
  ASSUME ProbesTyped, ProbesApart, maintainPeerReachability
  PROVE  ProbesApart'
<1>1. reachDue' = FALSE /\ reachDue
  BY DEF maintainPeerReachability
<1>2. CASE UNCHANGED <<reachSeen, reachReverse, reachRequest, reachWire>>
  BY <1>1, <1>2, FewerApart
<1>3. CASE mayAsk /\ requestRoute
  <2>1. reachWire' = reachWire \cup AsksAround /\ reachRequest' = [id |-> newProbe, age |-> 0]
    BY <1>3 DEF requestRoute, AsksAround
  <2>2. QED
    BY <2>1, <1>1, MoreApart
<1>4. QED
  BY <1>2, <1>3 DEF maintainPeerReachability, requestRoute

LEMMA RemoveApart ==
  ASSUME ProbesTyped, ProbesApart, removeMeshPeer
  PROVE  ProbesApart'
<1>1. /\ reachDue /\ reachDue' = FALSE /\ reachRequest' = NoProbe
      /\ reachWire' \subseteq reachWire \cup (IF mayAsk THEN AsksAround ELSE {})
  BY DEF removeMeshPeer, AsksAround
<1>2. reachWire' \subseteq reachWire \cup AsksAround
  BY <1>1
<1>3. QED
  BY <1>1, <1>2, MoreApart

LEMMA TickApart ==
  ASSUME ProbesTyped, ProbesApart, ReachTick
  PROVE  ProbesApart'
<1>1. /\ reachWire' = {Late(m) : m \in reachWire}
      /\ reachDue' = TRUE /\ \A m \in reachWire : ~m.packet.late
      /\ reachRequest' = (IF reachRequest = NoProbe \/ reachRequest.age = RequestLife
                          THEN reachRequest ELSE [reachRequest EXCEPT !.age = @ + 1])
  BY DEF ReachTick, Late
<1>2. \A n \in reachWire' : \E m \in reachWire : n.packet.id = m.packet.id /\ n.packet.late = TRUE /\ ~m.packet.late
  <2>1. TAKE n \in reachWire'
  <2>2. PICK m \in reachWire : n = Late(m)
    BY <1>1
  <2>3. n.packet.id = m.packet.id /\ n.packet.late = TRUE
    BY <2>2, LateFields DEF ProbesTyped
  <2>4. QED
    BY <2>3, <1>1
<1>3. \A m, n \in reachWire : m.packet.id = n.packet.id
  BY <1>1 DEF ProbesApart, ProbesTyped, Probes, Packets
<1>4. \A m, n \in reachWire' : m.packet.id = n.packet.id
  BY <1>2, <1>3
<1>5. \A n \in reachWire' : n.packet.late = TRUE
  BY <1>2
<1>6. ASSUME reachRequest' # NoProbe, NEW n \in reachWire', n.packet.id = reachRequest'.id
      PROVE  reachRequest'.age = 1
  <2>1. reachRequest \in [id : ProbeIds \cup {0}, age : 0 .. RequestLife]
    BY DEF ProbesTyped, ReachTypeOK
  <2>2. PICK m \in reachWire : n.packet.id = m.packet.id /\ ~m.packet.late
    BY <1>2
  <2>3. reachRequest # NoProbe /\ reachRequest'.id = reachRequest.id
    BY <1>1, <1>6, <2>1
  <2>4. reachRequest.age <= 1 /\ reachRequest.age # 1
    BY <2>2, <2>3, <1>6 DEF ProbesApart
  <2>5. reachRequest.age = 0
    BY <2>1, <2>4
  <2>6. reachRequest' = [reachRequest EXCEPT !.age = @ + 1]
    BY <1>1, <2>3, <2>5, ReachAssumption
  <2>7. QED
    BY <2>1, <2>5, <2>6
<1>7. QED
  BY <1>1, <1>4, <1>5, <1>6 DEF ProbesApart

\* Over a cut nothing is carried: who gets a packet inside has it from inside.
LEMMA StaysInside ==
  ASSUME NEW near \in SUBSET Stations, Severed(near), NEW p, NEW q, carries(p, q), q \in near
  PROVE  p \in near
<1>1. carries(q, p) /\ p \in Stations
  BY CarriesBothWays
<1>2. QED
  BY <1>1 DEF Severed

\* No silence is too short for a change as recent as this.
LEMMA SilentEnough ==
  ASSUME NEW silent \in Nat, NEW stable \in Nat, stable <= 1
  PROVE  silent >= stable - 1
OBVIOUS

\* Who is out of reach stays missed, whatever is handled.
LEMMA HandledMissed ==
  ASSUME ProbesTyped, ProbesTyped', ReachMissed, NEW m \in reachWire, handleProbe(m)
  PROVE  ReachMissed'
<1>1. Discards(m) \/ Passes(m) \/ Responds(m) \/ ComesHome(m) \/ GoesBack(m)
  BY HandledSomehow
<1>2. reachLinks' = reachLinks /\ reachKnown' = reachKnown
  BY <1>1 DEF Discards, Passes, Responds, ComesHome, GoesBack, Elsewhere
<1>3. SUFFICES ASSUME reachKnown, NEW near \in SUBSET Stations, Severed(near)
               PROVE  /\ \A n \in reachWire' : n.packet.kind = "reply" /\ n.to \in near =>
                           reachStable' <= 1 /\ (reachStable' = 1 => n.packet.late)
                      /\ reachSilent' >= reachStable' - 1
  BY <1>2, LinksStay DEF ReachMissed
<1>4. /\ \A n \in reachWire : n.packet.kind = "reply" /\ n.to \in near =>
           reachStable <= 1 /\ (reachStable = 1 => n.packet.late)
      /\ reachSilent >= reachStable - 1
  BY <1>3 DEF ReachMissed
<1>5. reachStable \in Nat /\ reachSilent \in Nat
  BY DEF ProbesTyped, ReachTypeOK
<1>6. m.packet \in Packets
  BY MemberOfProbes DEF ProbesTyped
<1>7. ASSUME NEW n \in reachWire', n.packet.kind = "reply", n.to \in near
      PROVE  \E k \in reachWire : k.packet.kind = "reply" /\ k.to \in near /\ k.packet.late = n.packet.late
  <2>1. SUFFICES ASSUME n \notin reachWire
                 PROVE  m.packet.kind = "reply" /\ m.to \in near /\ m.packet.late = n.packet.late
    BY <1>7
  <2>2. carries(n.from, n.to)
    <3>1. carries(n.from, n.to)'
      BY <1>7 DEF ProbesTyped
    <3>2. QED
      BY <3>1, <1>2, LinksStay
  <2>3. n.from \in near
    BY <2>2, <1>3, <1>7, StaysInside
  <2>4. CASE Passes(m)
    <3>1. m.packet.ttl > 1 /\ n \in Posted(m.to, Neighbours(m.to) \ {m.from}, Forwarded(m.packet))
      BY <2>1, <2>4 DEF Passes
    <3>2. n.packet.kind = m.packet.kind
      BY <3>1, <1>6, PostedFrom, ForwardedTyped
    <3>3. QED
      BY <3>2, <2>4, <1>7 DEF Passes
  <2>5. CASE Responds(m)
    <3>1. n \in Posted(Sought, {m.from}, Probe("reply", m.packet.id, m.packet.late))
      BY <2>1, <2>5 DEF Responds
    <3>2. n.from = Sought
      BY <3>1, PostedFrom
    <3>3. QED
      BY <3>2, <2>3, <1>3 DEF Severed
  <2>6. CASE GoesBack(m)
    <3>1. MayGoBack(m) /\ n \in Posted(m.to, {Back(m)}, Forwarded(m.packet))
      BY <2>1, <2>6 DEF GoesBack
    <3>2. n.from = m.to /\ n.packet = Forwarded(m.packet)
      BY <3>1, PostedFrom
    <3>3. n.packet.late = m.packet.late
      BY <3>1, <3>2, <1>6, ForwardedTyped DEF MayGoBack
    <3>4. QED
      BY <3>2, <3>3, <2>3, <2>6 DEF GoesBack
  <2>7. QED
    BY <1>1, <2>1, <2>4, <2>5, <2>6 DEF Discards, ComesHome
<1>8. CASE Unheard
  <2>1. reachStable' = reachStable /\ reachSilent' = reachSilent
    BY <1>8 DEF Unheard
  <2>2. QED
    BY <2>1, <1>4, <1>7
<1>9. CASE ComesHome(m)
  <2>1. Seeker \in near
    BY <1>3 DEF Severed
  <2>2. reachStable <= 1 /\ (reachStable = 1 => m.packet.late)
    BY <1>4, <1>9, <2>1 DEF ComesHome
  <2>3. reachStable' \in {0, reachStable} /\ reachSilent' \in {0, reachSilent}
    BY <1>9 DEF ComesHome
  <2>10. reachStable <= 1
    BY <2>2
  <2>11. reachStable' <= 1 /\ reachSilent' \in Nat /\ reachStable' \in Nat
    BY <2>3, <2>10, <1>5
  <2>4. reachSilent' >= reachStable' - 1
    BY <2>11, SilentEnough
  <2>5. \A n \in reachWire' : n.packet.kind = "reply" /\ n.to \in near =>
           reachStable' <= 1 /\ (reachStable' = 1 => n.packet.late)
    <3>1. SUFFICES ASSUME NEW n \in reachWire', n.packet.kind = "reply", n.to \in near
                   PROVE  reachStable' <= 1 /\ (reachStable' = 1 => n.packet.late)
      OBVIOUS
    <3>2. n \in reachWire
      BY <1>9, <3>1 DEF ComesHome
    <3>3. reachStable <= 1 /\ (reachStable = 1 => n.packet.late)
      BY <1>4, <3>1, <3>2
    <3>4. QED
      BY <3>3, <2>3
  <2>9. QED
    BY <2>4, <2>5
<1>10. QED
  BY <1>1, <1>8, <1>9 DEF Discards, Passes, Responds, GoesBack

\* And whatever else happens.
LEMMA MaintainMissed ==
  ASSUME ReachMissed, maintainPeerReachability
  PROVE  ReachMissed'
<1>1. UNCHANGED <<reachLinks, reachSilent, reachKnown, reachStable>>
  BY DEF maintainPeerReachability
<1>2. reachWire' \subseteq reachWire \cup AsksAround
  BY DEF maintainPeerReachability, requestRoute, AsksAround
<1>3. \A n \in reachWire' : n.packet.kind = "reply" => n \in reachWire
  BY <1>2, AskedKin
<1>4. QED
  BY <1>1, <1>3, LinksStay DEF ReachMissed

LEMMA RemoveMissed ==
  ASSUME removeMeshPeer
  PROVE  ReachMissed'
<1>1. ~reachKnown'
  BY DEF removeMeshPeer
<1>2. QED
  BY <1>1 DEF ReachMissed

LEMMA ExpireMissed ==
  ASSUME ReachMissed, RequestExpires
  PROVE  ReachMissed'
<1>1. UNCHANGED <<reachLinks, reachSilent, reachKnown, reachStable, reachWire>>
  BY DEF RequestExpires, timeVars
<1>2. QED
  BY <1>1, LinksStay DEF ReachMissed

LEMMA NoteMissed ==
  ASSUME ReachMissed, notePeerReachable
  PROVE  ReachMissed'
<1>1. reachLinks' = reachLinks /\ carries(Seeker, Sought)
  BY DEF notePeerReachable
<1>2. ASSUME NEW near \in SUBSET Stations, Severed(near) PROVE FALSE
  BY <1>1, <1>2, ReachAssumption DEF Severed
<1>3. QED
  BY <1>1, <1>2, LinksStay DEF ReachMissed

LEMMA LinkMissed ==
  ASSUME ProbesTyped', NEW pair \in NodePairs, NEW to \in {"up", "dead", "down"}, LinkChanges(pair, to)
  PROVE  ReachMissed'
<1>1. reachStable' = 0
  BY DEF LinkChanges
<1>2. reachSilent' \in Nat
  BY DEF ProbesTyped, ReachTypeOK
<1>3. reachStable' <= 1 /\ reachStable' # 1 /\ reachSilent' >= reachStable' - 1
  BY <1>1, <1>2
<1>4. QED
  BY <1>3 DEF ReachMissed

LEMMA TickMissed ==
  ASSUME ProbesTyped, ReachMissed, ReachTick
  PROVE  ReachMissed'
<1>1. /\ reachWire' = {Late(m) : m \in reachWire}
      /\ \A m \in reachWire : ~m.packet.late
      /\ UNCHANGED <<reachLinks, reachKnown>>
      /\ reachSilent' = (IF reachSilent < LostAfter THEN reachSilent + 1 ELSE reachSilent)
      /\ reachStable' = (IF reachStable < SettledAfter THEN reachStable + 1 ELSE reachStable)
  BY DEF ReachTick, Late
<1>2. SUFFICES ASSUME reachKnown, NEW near \in SUBSET Stations, Severed(near)
               PROVE  /\ \A n \in reachWire' : n.packet.kind = "reply" /\ n.to \in near =>
                           reachStable' <= 1 /\ (reachStable' = 1 => n.packet.late)
                      /\ reachSilent' >= reachStable' - 1
  BY <1>1, LinksStay DEF ReachMissed
<1>3. /\ \A n \in reachWire : n.packet.kind = "reply" /\ n.to \in near =>
           reachStable <= 1 /\ (reachStable = 1 => n.packet.late)
      /\ reachSilent >= reachStable - 1
  BY <1>2 DEF ReachMissed
<1>4. /\ reachStable \in Nat /\ reachSilent \in 0 .. LostAfter /\ reachStable <= SettledAfter
      /\ LostAfter \in Nat /\ RequestLife \in Nat /\ LostAfter >= RequestLife + 2
  BY ReachAssumption DEF ProbesTyped, ReachTypeOK
<1>5. reachSilent' >= reachStable' - 1
  BY <1>1, <1>3, <1>4 DEF SettledAfter
<1>6. ASSUME NEW n \in reachWire', n.packet.kind = "reply", n.to \in near
      PROVE  reachStable' <= 1 /\ (reachStable' = 1 => n.packet.late)
  <2>1. PICK m \in reachWire : n = Late(m)
    BY <1>1
  <2>2. m.packet.kind = "reply" /\ m.to \in near /\ n.packet.late = TRUE
    BY <2>1, <1>6, LateFields DEF ProbesTyped
  <2>3. reachStable <= 1 /\ reachStable # 1
    BY <1>1, <1>3, <2>2
  <2>4. reachStable' <= 1
    BY <1>1, <1>4, <2>3
  <2>5. QED
    BY <2>2, <2>4
<1>7. QED
  BY <1>5, <1>6

\* Two members who have not seen a packet yet leave it two hops at least.
LEMMA RoomToGo ==
  ASSUME NEW V \in SUBSET Stations, NEW a \in Stations \ V, NEW b \in Stations \ V, a # b
  PROVE  /\ Cardinality(V) \in Nat /\ Cardinality(V \cup {a}) = Cardinality(V) + 1
         /\ Ttl \in Nat /\ Cardinality(V) <= Ttl - 2
<1>1. IsFiniteSet(Stations) /\ Cardinality(Stations) <= Ttl /\ Ttl \in Nat
  BY ReachAssumption
<1>2. IsFiniteSet(V) /\ Cardinality(V) \in Nat
  BY <1>1, FS_Subset, FS_CardinalityType
<1>3. IsFiniteSet(V \cup {a}) /\ Cardinality(V \cup {a}) = Cardinality(V) + 1
  BY <1>2, FS_AddElement
<1>4. PICK X : X = V \cup {a}
  OBVIOUS
<1>5. Cardinality(X \cup {b}) = Cardinality(V) + 2
  <2>1. b \notin X /\ IsFiniteSet(X) /\ Cardinality(X) = Cardinality(V) + 1
    BY <1>3, <1>4
  <2>2. Cardinality(X \cup {b}) = Cardinality(X) + 1
    BY <2>1, FS_AddElement
  <2>3. QED
    BY <1>2, <2>1, <2>2
<1>6. Cardinality(X \cup {b}) <= Cardinality(Stations) /\ Cardinality(Stations) \in Nat
  <2>1. X \cup {b} \in SUBSET Stations
    BY <1>4
  <2>2. QED
    BY <2>1, <1>1, FS_Subset, FS_CardinalityType
<1>7. QED
  BY <1>1, <1>2, <1>3, <1>5, <1>6

\* The same packets, the same memory, the same links.
LEMMA FloodUnmoved ==
  ASSUME NEW id, Flooded(id), reachLinks' = reachLinks,
         HaveSeen("request", id)' = HaveSeen("request", id), HaveSeen("reply", id)' = HaveSeen("reply", id),
         OnTheWay("request", id)' = OnTheWay("request", id), OnTheWay("reply", id)' = OnTheWay("reply", id),
         \A p \in Stations : reachReverse'[p][id] = reachReverse[p][id]
  PROVE  Flooded(id)'
<1> DEFINE V == HaveSeen("request", id)  W == HaveSeen("reply", id)
<1>1. V \subseteq Stations /\ W \subseteq Stations
  BY DEF HaveSeen
<1>2. PICK Vn : Vn = V
  OBVIOUS
<1>3. PICK Wn : Wn = W
  OBVIOUS
<1> HIDE DEF V, W
<1>4. \A p, q : carries(p, q)' <=> carries(p, q)
  BY LinksStay
<1>5. FloodSpreads(id, Vn, Wn) => FloodSpreads(id, Vn, Wn)'
  <2>1. HAVE FloodSpreads(id, Vn, Wn)
  <2>2. /\ Seeker \in Vn /\ Seeker \notin Wn /\ Wn \subseteq Vn
        /\ \A p \in Vn \ {Seeker} : reachReverse[p][id] \in Vn /\ carries(p, reachReverse[p][id])
        /\ \A U \in SUBSET (Vn \ {Seeker}) : U # {} => \E p \in U : reachReverse[p][id] \notin U
        /\ \A m \in OnTheWay("request", id) : m.from \in Vn /\ m.packet.ttl >= Ttl + 1 - Cardinality(Vn)
    BY <2>1 DEF FloodSpreads
  <2>3. \A p \in Vn \ {Seeker} : reachReverse'[p][id] \in Vn /\ carries(p, reachReverse[p][id])'
    <3>1. TAKE p \in Vn \ {Seeker}
    <3>2. reachReverse'[p][id] = reachReverse[p][id]
      BY <1>1, <1>2
    <3>3. PICK r : r = reachReverse[p][id]
      OBVIOUS
    <3>4. r \in Vn /\ carries(p, r)
      BY <2>2, <3>3
    <3>5. carries(p, r)'
      BY <3>4, <1>4
    <3>6. QED
      BY <3>2, <3>3, <3>4, <3>5
  <2>4. \A U \in SUBSET (Vn \ {Seeker}) : U # {} => \E p \in U : reachReverse'[p][id] \notin U
    <3>1. TAKE U \in SUBSET (Vn \ {Seeker})
    <3>2. HAVE U # {}
    <3>3. PICK p \in U : reachReverse[p][id] \notin U
      BY <2>2, <3>2
    <3>4. reachReverse'[p][id] = reachReverse[p][id]
      BY <1>1, <1>2
    <3>5. QED
      BY <3>3, <3>4
  <2>5. \A m \in OnTheWay("request", id)' : m.from \in Vn /\ m.packet.ttl >= Ttl + 1 - Cardinality(Vn)
    BY <2>2
  <2>6. QED
    BY <2>2, <2>3, <2>4, <2>5 DEF FloodSpreads
<1>6. FloodGoesOn(id, Vn) => FloodGoesOn(id, Vn)'
  BY <1>4 DEF FloodGoesOn
<1>7. AnswerComes(id, Vn, Wn) => AnswerComes(id, Vn, Wn)'
  <2>1. HAVE AnswerComes(id, Vn, Wn)
  <2>2. PICK m \in reachWire :
          /\ OnTheWay("reply", id) = {m}
          /\ m.from \in Wn /\ m.to \in Vn \ Wn /\ m.to = reachReverse[m.from][id]
          /\ \A w \in Wn \ {m.from} : reachReverse[w][id] \in Wn
          /\ m.packet.ttl >= Ttl + 1 - Cardinality(Wn)
    BY <2>1 DEF AnswerComes
  <2>3. m \in reachWire' /\ OnTheWay("reply", id)' = {m}
    BY <2>2 DEF OnTheWay
  <2>4. \A w \in Wn : reachReverse'[w][id] = reachReverse[w][id]
    BY <1>1, <1>3
  <2>5. QED
    BY <2>2, <2>3, <2>4 DEF AnswerComes
<1>8. /\ FloodSpreads(id, V, W)
      /\ Sought \notin V => OnTheWay("reply", id) = {} /\ W = {} /\ FloodGoesOn(id, V)
      /\ Sought \in V => AnswerComes(id, V, W)
  BY DEF Flooded, V, W
<1>9. HaveSeen("request", id)' = Vn /\ HaveSeen("reply", id)' = Wn
  BY <1>2, <1>3 DEF V, W
<1>10. /\ FloodSpreads(id, Vn, Wn)'
       /\ Sought \notin Vn => OnTheWay("reply", id)' = {} /\ Wn = {} /\ FloodGoesOn(id, Vn)'
       /\ Sought \in Vn => AnswerComes(id, Vn, Wn)'
  BY <1>2, <1>3, <1>5, <1>6, <1>7, <1>8
<1>11. QED
  BY <1>9, <1>10 DEF Flooded

\* A packet of another request leaves this one alone.
LEMMA OtherProbe ==
  ASSUME ProbesTyped, NEW m \in reachWire, handleProbe(m), NEW id \in ProbeIds, m.packet.id # id, Flooded(id)
  PROVE  Flooded(id)'
<1>1. Discards(m) \/ Passes(m) \/ Responds(m) \/ ComesHome(m) \/ GoesBack(m)
  BY HandledSomehow
<1>2. reachLinks' = reachLinks
  BY <1>1 DEF Discards, Passes, Responds, ComesHome, GoesBack, Elsewhere
<1>3. m.to \in Stations /\ m.packet.id \in ProbeIds
  BY MemberOfProbes DEF ProbesTyped
<1>4. \A n \in reachWire' : n.packet.id = id => n \in reachWire
  BY HandledKin
<1>5. \A n \in reachWire : n # m => n \in reachWire'
  BY <1>1 DEF Discards, Passes, Responds, ComesHome, GoesBack
<1>6. \A kind : OnTheWay(kind, id)' = OnTheWay(kind, id)
  BY <1>4, <1>5 DEF OnTheWay
<1>7. \A p \in Stations : reachReverse'[p][id] = reachReverse[p][id]
  <2>1. reachReverse \in [Stations -> [ProbeIds -> Stations]]
    BY DEF ProbesTyped, ReachTypeOK
  <2>2. reachReverse' = reachReverse \/ reachReverse' = [reachReverse EXCEPT ![m.to][m.packet.id] = m.from]
    BY <1>1 DEF Discards, Passes, Responds, ComesHome, GoesBack
  <2>3. QED
    BY <2>1, <2>2, <1>3
<1>8. \A kind : HaveSeen(kind, id)' = HaveSeen(kind, id)
  <2>1. reachSeen \in [Stations -> SUBSET ({"request", "reply"} \X ProbeIds)]
    BY DEF ProbesTyped
  <2>2. \A p \in Stations : \A kind : <<kind, id>> \in reachSeen'[p] <=> <<kind, id>> \in reachSeen[p]
    <3>1. CASE Discards(m)
      BY <3>1 DEF Discards
    <3>2. CASE Passes(m)
      BY <3>2, <2>1, <1>3 DEF Passes
    <3>3. CASE Responds(m)
      BY <3>3, <2>1, <1>3 DEF Responds
    <3>4. CASE ComesHome(m)
      BY <3>4, <2>1, <1>3 DEF ComesHome
    <3>5. CASE GoesBack(m)
      BY <3>5, <2>1, <1>3 DEF GoesBack
    <3>6. QED
      BY <1>1, <3>1, <3>2, <3>3, <3>4, <3>5
  <2>3. QED
    BY <2>2 DEF HaveSeen
<1>9. QED
  BY <1>2, <1>6, <1>7, <1>8, FloodUnmoved

\* A member that sees the request for the first time joins the flood.
LEMMA FloodWidens ==
  ASSUME ProbesTyped, NEW id \in ProbeIds, NEW V \in SUBSET Stations, NEW W, FloodSpreads(id, V, W),
         NEW m \in OnTheWay("request", id), m.to \notin V,
         reachLinks' = reachLinks,
         reachReverse' = [reachReverse EXCEPT ![m.to][id] = m.from],
         NEW X, X \subseteq V \cup {m.to}, Seeker \notin X,
         \A n \in OnTheWay("request", id)' :
            n \in OnTheWay("request", id) \/ (n.from = m.to /\ n.packet.ttl = m.packet.ttl - 1)
  PROVE  FloodSpreads(id, V \cup {m.to}, X)'
<1>1. m \in reachWire /\ m \in Probes /\ carries(m.from, m.to)
  BY DEF OnTheWay, ProbesTyped
<1>2. m.from \in Stations /\ m.to \in Stations /\ m.packet.ttl \in Nat
  BY <1>1, MemberOfProbes
<1>3. PICK t \in Stations : t = m.to
  BY <1>2
<1>4. PICK N : N = V \cup {t}
  OBVIOUS
<1>5. /\ Seeker \in V
      /\ \A p \in V \ {Seeker} : reachReverse[p][id] \in V /\ carries(p, reachReverse[p][id])
      /\ \A U \in SUBSET (V \ {Seeker}) : U # {} => \E p \in U : reachReverse[p][id] \notin U
      /\ \A n \in OnTheWay("request", id) : n.from \in V /\ n.packet.ttl >= Ttl + 1 - Cardinality(V)
  BY DEF FloodSpreads
<1>6. m.from \in V /\ m.packet.ttl >= Ttl + 1 - Cardinality(V)
  BY <1>5
<1>7. /\ reachReverse'[t][id] = m.from
      /\ \A p \in Stations \ {t} : reachReverse'[p][id] = reachReverse[p][id]
  BY <1>2, <1>3 DEF ProbesTyped, ReachTypeOK
<1>8. \A p, q : carries(p, q)' <=> carries(p, q)
  BY LinksStay
<1>9. Cardinality(V) \in Nat /\ Cardinality(N) = Cardinality(V) + 1 /\ Ttl \in Nat
  <2>1. IsFiniteSet(V) /\ Cardinality(V) \in Nat /\ Ttl \in Nat
    BY ReachAssumption, FS_Subset, FS_CardinalityType
  <2>2. Cardinality(V \cup {t}) = Cardinality(V) + 1
    BY <2>1, <1>3, FS_AddElement
  <2>3. QED
    BY <2>1, <2>2, <1>4
<1>10. \A p \in N \ {Seeker} : reachReverse'[p][id] \in N /\ carries(p, reachReverse[p][id])'
  <2>1. TAKE p \in N \ {Seeker}
  <2>2. CASE p = t
    <3>1. carries(t, m.from)
      BY <1>1, <1>3, CarriesBothWays
    <3>2. carries(t, m.from)'
      BY <3>1, <1>8
    <3>3. QED
      BY <2>2, <3>2, <1>4, <1>6, <1>7
  <2>3. CASE p # t
    <3>1. p \in V \ {Seeker} /\ p \in Stations \ {t}
      BY <1>4, <2>1, <2>3
    <3>2. reachReverse'[p][id] = reachReverse[p][id]
      BY <3>1, <1>7
    <3>3. PICK r : r = reachReverse[p][id]
      OBVIOUS
    <3>4. r \in V /\ carries(p, r)
      BY <3>1, <3>3, <1>5
    <3>5. carries(p, r)'
      BY <3>4, <1>8
    <3>6. QED
      BY <3>2, <3>3, <3>4, <3>5, <1>4
  <2>4. QED
    BY <2>2, <2>3
<1>11. \A U \in SUBSET (N \ {Seeker}) : U # {} => \E p \in U : reachReverse'[p][id] \notin U
  <2>1. TAKE U \in SUBSET (N \ {Seeker})
  <2>2. HAVE U # {}
  <2>3. CASE U \ {t} = {}
    <3>1. t \in U /\ m.from # t /\ m.from \notin U
      BY <2>2, <2>3, <1>3, <1>6
    <3>2. QED
      BY <3>1, <1>7
  <2>4. CASE U \ {t} # {}
    <3>1. PICK Y : Y = U \ {t}
      OBVIOUS
    <3>2. Y \in SUBSET (V \ {Seeker}) /\ Y # {}
      BY <3>1, <2>4, <1>4
    <3>3. PICK p \in Y : reachReverse[p][id] \notin Y
      BY <3>2, <1>5
    <3>4. p \in V \ {Seeker} /\ p \in Stations \ {t} /\ p \in U
      BY <3>1, <3>2
    <3>5. reachReverse[p][id] \in V
      BY <3>4, <1>5
    <3>6. reachReverse[p][id] # t
      BY <3>5, <1>3
    <3>7. reachReverse[p][id] \notin U
      BY <3>1, <3>3, <3>6
    <3>8. QED
      BY <3>4, <3>7, <1>7
  <2>5. QED
    BY <2>3, <2>4
<1>12. \A n \in OnTheWay("request", id)' : n.from \in N /\ n.packet.ttl >= Ttl + 1 - Cardinality(N)
  <2>1. TAKE n \in OnTheWay("request", id)'
  <2>2. CASE n \in OnTheWay("request", id)
    <3>1. n.from \in V /\ n.packet.ttl >= Ttl + 1 - Cardinality(V)
      BY <2>2, <1>5
    <3>2. n.packet.ttl \in Nat
      BY <2>2, MemberOfProbes DEF OnTheWay, ProbesTyped
    <3>3. QED
      BY <3>1, <3>2, <1>4, <1>9
  <2>3. CASE n.from = m.to /\ n.packet.ttl = m.packet.ttl - 1
    <3>1. n.packet.ttl >= Ttl + 1 - Cardinality(N)
      BY <2>3, <1>2, <1>6, <1>9
    <3>2. QED
      BY <2>3, <3>1, <1>3, <1>4
  <2>4. QED
    BY <2>1, <2>2, <2>3
<1>13. Seeker \in N /\ Seeker \notin X /\ X \subseteq N
  BY <1>3, <1>4, <1>5
<1>14. FloodSpreads(id, N, X)'
  BY <1>10, <1>11, <1>12, <1>13 DEF FloodSpreads
<1>15. QED
  BY <1>3, <1>4, <1>14

\* What a member has seen, once it has seen one packet more.
LEMMA SeenMore ==
  ASSUME reachSeen \in [Stations -> SUBSET ({"request", "reply"} \X ProbeIds)],
         NEW p \in Stations, NEW kind \in {"request", "reply"}, NEW id \in ProbeIds,
         reachSeen' = [reachSeen EXCEPT ![p] = @ \cup {<<kind, id>>}]
  PROVE  /\ HaveSeen(kind, id)' = HaveSeen(kind, id) \cup {p}
         /\ \A other : other # kind => HaveSeen(other, id)' = HaveSeen(other, id)
<1>1. \A q \in Stations : \A k : <<k, id>> \in reachSeen'[q] <=> (<<k, id>> \in reachSeen[q] \/ (q = p /\ k = kind))
  OBVIOUS
<1>2. QED
  BY <1>1 DEF HaveSeen

LEMMA BothSeen ==
  ASSUME reachSeen \in [Stations -> SUBSET ({"request", "reply"} \X ProbeIds)],
         NEW p \in Stations, NEW id \in ProbeIds,
         reachSeen' = [reachSeen EXCEPT ![p] = @ \cup {<<"request", id>>, <<"reply", id>>}]
  PROVE  /\ HaveSeen("request", id)' = HaveSeen("request", id) \cup {p}
         /\ HaveSeen("reply", id)' = HaveSeen("reply", id) \cup {p}
<1>1. \A q \in Stations : /\ <<"request", id>> \in reachSeen'[q] <=> (<<"request", id>> \in reachSeen[q] \/ q = p)
                         /\ <<"reply", id>> \in reachSeen'[q] <=> (<<"reply", id>> \in reachSeen[q] \/ q = p)
  OBVIOUS
<1>2. QED
  BY <1>1 DEF HaveSeen

\* A request that is passed on.
LEMMA PassedOn ==
  ASSUME ProbesTyped, NEW m \in reachWire, NEW id \in ProbeIds, m.packet.id = id, Passes(m), Flooded(id)
  PROVE  Flooded(id)'
<1>1. m \in Probes /\ carries(m.from, m.to) /\ m \in OnTheWay("request", id)
  BY DEF ProbesTyped, OnTheWay, Passes
<1>2. m.from \in Stations /\ m.to \in Stations /\ m.packet \in Packets /\ m.packet.ttl \in Nat
  BY <1>1, MemberOfProbes
<1>3. PICK t \in Stations : t = m.to
  BY <1>2
<1>4. PICK V : V = HaveSeen("request", id)
  OBVIOUS
<1>5. PICK W : W = HaveSeen("reply", id)
  OBVIOUS
<1>6. PICK N : N = V \cup {t}
  OBVIOUS
<1>7. V \in SUBSET Stations /\ W \in SUBSET Stations /\ N \in SUBSET Stations
  BY <1>4, <1>5, <1>6 DEF HaveSeen
<1>8. /\ FloodSpreads(id, V, W)
      /\ Sought \notin V => OnTheWay("reply", id) = {} /\ W = {} /\ FloodGoesOn(id, V)
      /\ Sought \in V => AnswerComes(id, V, W)
  BY <1>4, <1>5 DEF Flooded
<1>9. t \notin V /\ t # Sought
  BY <1>3, <1>4 DEF Passes, HaveSeen
<1>10. Seeker \in V /\ Seeker \notin W /\ W \subseteq V /\ m.from \in V /\ m.packet.ttl >= Ttl + 1 - Cardinality(V)
  BY <1>1, <1>8 DEF FloodSpreads
<1>11. HaveSeen("request", id)' = N /\ HaveSeen("reply", id)' = W
  <2>1. reachSeen' = [reachSeen EXCEPT ![t] = @ \cup {<<"request", id>>}]
    BY <1>3 DEF Passes
  <2>2. HaveSeen("request", id)' = HaveSeen("request", id) \cup {t} /\ HaveSeen("reply", id)' = HaveSeen("reply", id)
    BY <2>1, SeenMore DEF ProbesTyped
  <2>3. QED
    BY <2>2, <1>4, <1>5, <1>6
<1>12. reachLinks' = reachLinks /\ reachReverse' = [reachReverse EXCEPT ![t][id] = m.from]
  BY <1>3 DEF Passes, Elsewhere
<1>13. /\ reachReverse'[t][id] = m.from
       /\ \A p \in Stations \ {t} : reachReverse'[p][id] = reachReverse[p][id]
  BY <1>2, <1>3, <1>12 DEF ProbesTyped, ReachTypeOK
<1>14. \A p, q : carries(p, q)' <=> carries(p, q)
  BY <1>12, LinksStay
<1>15. PICK packet : packet = Forwarded(m.packet)
  OBVIOUS
<1>16. reachWire' = (reachWire \ {m}) \cup (IF m.packet.ttl > 1 THEN Posted(t, Neighbours(t) \ {m.from}, packet) ELSE {})
  BY <1>3, <1>15 DEF Passes
<1>17. m.packet.ttl > 1 => packet.kind = "request" /\ packet.id = id /\ packet.ttl = m.packet.ttl - 1
  BY <1>2, <1>15, ForwardedTyped DEF Passes
<1>18. \A n \in reachWire' : n \in reachWire \/ (n.from = t /\ n.packet = packet /\ m.packet.ttl > 1)
  BY <1>16, PostedFrom
<1>19. OnTheWay("reply", id)' = OnTheWay("reply", id)
  <2>1. \A n \in reachWire' : n.packet.kind = "reply" => n \in reachWire
    BY <1>17, <1>18
  <2>2. \A n \in reachWire : n.packet.kind = "reply" => n \in reachWire'
    BY <1>16 DEF Passes
  <2>3. QED
    BY <2>1, <2>2 DEF OnTheWay
<1>20. \A n \in OnTheWay("request", id)' :
          n \in OnTheWay("request", id) \/ (n.from = t /\ n.packet.ttl = m.packet.ttl - 1)
  BY <1>17, <1>18 DEF OnTheWay
<1>21. FloodSpreads(id, N, W)'
  BY <1>1, <1>3, <1>6, <1>7, <1>8, <1>9, <1>10, <1>12, <1>20, FloodWidens
<1>22. CASE Sought \notin V
  <2>1. OnTheWay("reply", id) = {} /\ W = {} /\ FloodGoesOn(id, V)
    BY <1>8, <1>22
  <2>2. Sought \in Stations \ V /\ Sought # t /\ t \in Stations \ V
    BY <1>9, <1>22, ReachAssumption
  <2>4. m.packet.ttl > 1
    <3>1. Cardinality(V) \in Nat /\ Ttl \in Nat /\ Cardinality(V) <= Ttl - 2
      BY <1>7, <2>2, RoomToGo
    <3>2. QED
      BY <3>1, <1>2, <1>10
  <2>5. FloodGoesOn(id, N)'
    <3>1. SUFFICES ASSUME NEW p \in N, NEW q \in Stations \ N, carries(p, q)'
                   PROVE  \E n \in OnTheWay("request", id)' : n.from = p /\ n.to = q
      BY DEF FloodGoesOn
    <3>2. carries(p, q)
      BY <3>1, <1>14
    <3>3. CASE p \in V
      <4>1. PICK n \in OnTheWay("request", id) : n.from = p /\ n.to = q
        BY <2>1, <3>1, <3>2, <3>3, <1>6 DEF FloodGoesOn
      <4>2. n \in reachWire' /\ n \in OnTheWay("request", id)'
        BY <4>1, <3>1, <1>3, <1>6, <1>16 DEF OnTheWay
      <4>3. QED
        BY <4>1, <4>2
    <3>4. CASE p = t
      <4>1. q \in Neighbours(t) \ {m.from}
        BY <3>1, <3>2, <3>4, <1>6, <1>10, CarriesBothWays
      <4>2. PICK qs : qs = Neighbours(t) \ {m.from}
        OBVIOUS
      <4>3. PICK n \in Posted(t, qs, packet) : n.from = t /\ n.to = q /\ n.packet = packet
        BY <4>1, <4>2, <3>2, <3>4, PostedTo
      <4>4. n \in reachWire'
        BY <4>2, <4>3, <2>4, <1>16
      <4>5. QED
        BY <4>3, <4>4, <2>4, <1>17, <3>4 DEF OnTheWay
    <3>5. QED
      BY <3>1, <3>3, <3>4, <1>6
  <2>6. Sought \notin N
    BY <2>2, <1>6
  <2>7. QED
    BY <2>1, <2>5, <2>6, <1>11, <1>19, <1>21 DEF Flooded
<1>23. CASE Sought \in V
  <2>1. PICK r \in reachWire :
          /\ OnTheWay("reply", id) = {r}
          /\ r.from \in W /\ r.to \in V \ W /\ r.to = reachReverse[r.from][id]
          /\ \A w \in W \ {r.from} : reachReverse[w][id] \in W
          /\ r.packet.ttl >= Ttl + 1 - Cardinality(W)
    BY <1>8, <1>23 DEF AnswerComes
  <2>2. \A w \in W : reachReverse'[w][id] = reachReverse[w][id]
    BY <1>7, <1>9, <1>10, <1>13
  <2>3. r \in reachWire' /\ OnTheWay("reply", id)' = {r} /\ r.to \in N \ W
    BY <2>1, <1>6, <1>19 DEF OnTheWay
  <2>4. AnswerComes(id, N, W)'
    BY <2>1, <2>2, <2>3 DEF AnswerComes
  <2>5. Sought \in N
    BY <1>23, <1>6
  <2>6. QED
    BY <2>4, <2>5, <1>11, <1>21 DEF Flooded
<1>24. QED
  BY <1>22, <1>23

\* The sought gets the request, and answers.
LEMMA Answered ==
  ASSUME ProbesTyped, NEW m \in reachWire, NEW id \in ProbeIds, m.packet.id = id, Responds(m), Flooded(id)
  PROVE  Flooded(id)'
<1>1. m \in Probes /\ carries(m.from, m.to) /\ m \in OnTheWay("request", id)
  BY DEF ProbesTyped, OnTheWay, Responds
<1>2. m.from \in Stations /\ m.to = Sought /\ Sought \in Stations /\ Sought # Seeker /\ m.packet \in Packets
  BY <1>1, MemberOfProbes, ReachAssumption DEF Responds
<1>3. PICK V : V = HaveSeen("request", id)
  OBVIOUS
<1>4. PICK N : N = V \cup {Sought}
  OBVIOUS
<1>5. PICK X : X = {Sought}
  OBVIOUS
<1>6. V \in SUBSET Stations /\ Sought \notin V
  BY <1>2, <1>3 DEF HaveSeen, Responds
<1>7. FloodSpreads(id, V, HaveSeen("reply", id)) /\ OnTheWay("reply", id) = {} /\ HaveSeen("reply", id) = {}
  BY <1>3, <1>6 DEF Flooded
<1>8. Seeker \in V /\ m.from \in V
  BY <1>1, <1>7 DEF FloodSpreads
<1>9. HaveSeen("request", id)' = N /\ HaveSeen("reply", id)' = X
  <2>1. reachSeen' = [reachSeen EXCEPT ![Sought] = @ \cup {<<"request", id>>, <<"reply", id>>}]
    BY DEF Responds
  <2>2. HaveSeen("request", id)' = HaveSeen("request", id) \cup {Sought} /\ HaveSeen("reply", id)' = HaveSeen("reply", id) \cup {Sought}
    BY <2>1, <1>2, BothSeen DEF ProbesTyped
  <2>3. QED
    BY <2>2, <1>3, <1>4, <1>5, <1>7
<1>10. reachLinks' = reachLinks /\ reachReverse' = [reachReverse EXCEPT ![Sought][id] = m.from]
  BY DEF Responds, Elsewhere
<1>11. reachReverse'[Sought][id] = m.from
  BY <1>2, <1>10 DEF ProbesTyped, ReachTypeOK
<1>12. PICK packet : packet = Probe("reply", id, m.packet.late)
  OBVIOUS
<1>13. packet.kind = "reply" /\ packet.id = id /\ packet.ttl = Ttl
  BY <1>12 DEF Probe
<1>14. PICK qs : qs = {m.from}
  OBVIOUS
<1>15. reachWire' = (reachWire \ {m}) \cup Posted(Sought, qs, packet)
  BY <1>12, <1>14 DEF Responds
<1>16. carries(Sought, m.from)
  BY <1>1, <1>2, CarriesBothWays
<1>17. PICK n \in Posted(Sought, qs, packet) : n.from = Sought /\ n.to = m.from /\ n.packet = packet
  BY <1>14, <1>16, PostedTo
<1>18. \A k \in Posted(Sought, qs, packet) : k = n
  <2>1. TAKE k \in Posted(Sought, qs, packet)
  <2>2. k = [from |-> Sought, to |-> k.to, packet |-> packet] /\ k.to = m.from
    BY <1>14, PostedFrom
  <2>3. n = [from |-> Sought, to |-> n.to, packet |-> packet] /\ n.to = m.from
    BY <1>17, PostedFrom
  <2>4. QED
    BY <2>2, <2>3
<1>19. n \in reachWire' /\ \A k \in reachWire' : k \in reachWire \/ k = n
  BY <1>15, <1>17, <1>18
<1>20. OnTheWay("reply", id)' = {n}
  BY <1>7, <1>13, <1>17, <1>19 DEF OnTheWay
<1>21. \A k \in OnTheWay("request", id)' : k \in OnTheWay("request", id)
  BY <1>13, <1>17, <1>19 DEF OnTheWay
<1>22. FloodSpreads(id, N, X)'
  <2>1. m.to \notin V /\ N = V \cup {m.to} /\ X \subseteq V \cup {m.to} /\ Seeker \notin X
    BY <1>2, <1>4, <1>5, <1>6
  <2>2. reachReverse' = [reachReverse EXCEPT ![m.to][id] = m.from]
    BY <1>2, <1>10
  <2>3. PICK W : W = HaveSeen("reply", id)
    OBVIOUS
  <2>4. FloodSpreads(id, V, W)
    BY <2>3, <1>7
  <2>5. FloodSpreads(id, V \cup {m.to}, X)'
    BY <2>1, <2>2, <2>4, <1>1, <1>6, <1>10, <1>21, FloodWidens
  <2>6. QED
    BY <2>1, <2>5
<1>23. AnswerComes(id, N, X)'
  <2>1. Cardinality(X) = 1
    BY <1>5, FS_Singleton
  <2>2. n.packet.ttl >= Ttl + 1 - Cardinality(X)
    BY <2>1, <1>13, <1>17, ReachAssumption
  <2>3. n.from \in X /\ n.to \in N \ X /\ n.to = reachReverse'[n.from][id] /\ X \ {n.from} = {}
    BY <1>4, <1>5, <1>6, <1>8, <1>11, <1>17
  <2>4. QED
    BY <2>2, <2>3, <1>19, <1>20 DEF AnswerComes
<1>24. Sought \in N
  BY <1>4
<1>25. QED
  BY <1>9, <1>22, <1>23, <1>24 DEF Flooded

\* A packet that was seen before is dropped.
LEMMA SeenBefore ==
  ASSUME ProbesTyped, NEW m \in reachWire, NEW id \in ProbeIds, m.packet.id = id, Discards(m), Flooded(id)
  PROVE  Flooded(id)'
<1>1. m.packet.kind \in {"request", "reply"} /\ m.to \in Stations
  BY MemberOfProbes DEF ProbesTyped
<1>2. PICK V : V = HaveSeen("request", id)
  OBVIOUS
<1>3. PICK W : W = HaveSeen("reply", id)
  OBVIOUS
<1>4. V \in SUBSET Stations /\ W \in SUBSET Stations
  BY <1>2, <1>3 DEF HaveSeen
<1>5. /\ FloodSpreads(id, V, W)
      /\ Sought \notin V => OnTheWay("reply", id) = {} /\ W = {} /\ FloodGoesOn(id, V)
      /\ Sought \in V => AnswerComes(id, V, W)
  BY <1>2, <1>3 DEF Flooded
<1>6. reachWire' = reachWire \ {m} /\ reachSeen' = reachSeen /\ reachReverse' = reachReverse /\ reachLinks' = reachLinks
  BY DEF Discards, Elsewhere
<1>7. \A p, q : carries(p, q)' <=> carries(p, q)
  BY <1>6, LinksStay
<1>8. HaveSeen("request", id)' = V /\ HaveSeen("reply", id)' = W
  BY <1>2, <1>3, <1>6 DEF HaveSeen
<1>9. m.packet.kind = "request" /\ m.to \in V
  <2>1. CASE m.packet.kind = "request"
    BY <2>1, <1>1, <1>2 DEF Discards, HaveSeen
  <2>2. CASE m.packet.kind = "reply"
    <3>1. m \in OnTheWay("reply", id) /\ m.to \in W
      BY <2>2, <1>1, <1>3 DEF Discards, HaveSeen, OnTheWay
    <3>2. Sought \in V
      BY <3>1, <1>5
    <3>3. PICK r \in reachWire : OnTheWay("reply", id) = {r} /\ r.to \in V \ W
      BY <3>2, <1>5 DEF AnswerComes
    <3>4. QED
      BY <3>1, <3>3
  <2>3. QED
    BY <2>1, <2>2, <1>1
<1>10. OnTheWay("reply", id)' = OnTheWay("reply", id) /\ OnTheWay("request", id)' = OnTheWay("request", id) \ {m}
  BY <1>6, <1>9 DEF OnTheWay
<1>11. FloodSpreads(id, V, W)'
  <2>1. /\ Seeker \in V /\ Seeker \notin W /\ W \subseteq V
        /\ \A p \in V \ {Seeker} : reachReverse[p][id] \in V /\ carries(p, reachReverse[p][id])
        /\ \A U \in SUBSET (V \ {Seeker}) : U # {} => \E p \in U : reachReverse[p][id] \notin U
        /\ \A n \in OnTheWay("request", id) : n.from \in V /\ n.packet.ttl >= Ttl + 1 - Cardinality(V)
    BY <1>5 DEF FloodSpreads
  <2>2. \A p \in V \ {Seeker} : carries(p, reachReverse[p][id])'
    <3>1. TAKE p \in V \ {Seeker}
    <3>2. PICK r : r = reachReverse[p][id]
      OBVIOUS
    <3>3. carries(p, r)'
      BY <3>2, <2>1, <1>7
    <3>4. QED
      BY <3>2, <3>3, <1>6
  <2>3. \A n \in OnTheWay("request", id)' : n.from \in V /\ n.packet.ttl >= Ttl + 1 - Cardinality(V)
    BY <2>1, <1>10
  <2>4. QED
    BY <2>1, <2>2, <2>3, <1>6 DEF FloodSpreads
<1>12. FloodGoesOn(id, V) => FloodGoesOn(id, V)'
  BY <1>7, <1>9, <1>10 DEF FloodGoesOn
<1>13. AnswerComes(id, V, W) => AnswerComes(id, V, W)'
  <2>1. HAVE AnswerComes(id, V, W)
  <2>2. PICK r \in reachWire :
          /\ OnTheWay("reply", id) = {r}
          /\ r.from \in W /\ r.to \in V \ W /\ r.to = reachReverse[r.from][id]
          /\ \A w \in W \ {r.from} : reachReverse[w][id] \in W
          /\ r.packet.ttl >= Ttl + 1 - Cardinality(W)
    BY <2>1 DEF AnswerComes
  <2>3. r \in reachWire' /\ OnTheWay("reply", id)' = {r}
    BY <2>2, <1>10 DEF OnTheWay
  <2>4. QED
    BY <2>2, <2>3, <1>6 DEF AnswerComes
<1>14. QED
  BY <1>5, <1>8, <1>10, <1>11, <1>12, <1>13 DEF Flooded

\* The answer goes a step back along the way the request came, which leads home.
LEMMA GoneBack ==
  ASSUME ProbesTyped, NEW m \in reachWire, NEW id \in ProbeIds, m.packet.id = id, GoesBack(m), Flooded(id)
  PROVE  Flooded(id)'
<1>1. m \in Probes /\ m \in OnTheWay("reply", id) /\ m.to # Seeker
  BY DEF ProbesTyped, OnTheWay, GoesBack
<1>2. m.from \in Stations /\ m.packet \in Packets /\ m.packet.ttl \in Nat /\ m.packet.kind = "reply"
  BY <1>1, MemberOfProbes DEF GoesBack
<1>3. PICK t \in Stations : t = m.to
  BY <1>1, MemberOfProbes
<1>4. PICK V : V = HaveSeen("request", id)
  OBVIOUS
<1>5. PICK W : W = HaveSeen("reply", id)
  OBVIOUS
<1>6. PICK X : X = W \cup {t}
  OBVIOUS
<1>7. V \in SUBSET Stations /\ W \in SUBSET Stations
  BY <1>4, <1>5 DEF HaveSeen
<1>8. /\ FloodSpreads(id, V, W)
      /\ Sought \notin V => OnTheWay("reply", id) = {}
      /\ Sought \in V => AnswerComes(id, V, W)
  BY <1>4, <1>5 DEF Flooded
<1>9. Sought \in V
  BY <1>1, <1>8
<1>10. /\ Seeker \in V /\ Seeker \notin W /\ W \subseteq V
       /\ \A p \in V \ {Seeker} : reachReverse[p][id] \in V /\ carries(p, reachReverse[p][id])
       /\ \A U \in SUBSET (V \ {Seeker}) : U # {} => \E p \in U : reachReverse[p][id] \notin U
       /\ \A n \in OnTheWay("request", id) : n.from \in V /\ n.packet.ttl >= Ttl + 1 - Cardinality(V)
  BY <1>8 DEF FloodSpreads
<1>11. /\ OnTheWay("reply", id) = {m}
       /\ m.from \in W /\ t \in V \ W /\ t = reachReverse[m.from][id]
       /\ \A w \in W \ {m.from} : reachReverse[w][id] \in W
       /\ m.packet.ttl >= Ttl + 1 - Cardinality(W)
  <2>1. PICK r \in reachWire :
          /\ OnTheWay("reply", id) = {r}
          /\ r.from \in W /\ r.to \in V \ W /\ r.to = reachReverse[r.from][id]
          /\ \A w \in W \ {r.from} : reachReverse[w][id] \in W
          /\ r.packet.ttl >= Ttl + 1 - Cardinality(W)
    BY <1>8, <1>9 DEF AnswerComes
  <2>2. r = m
    BY <2>1, <1>1
  <2>3. QED
    BY <2>1, <2>2, <1>3
<1>12. PICK back : back = reachReverse[t][id]
  OBVIOUS
<1>13. back \in V /\ carries(t, back) /\ t # Seeker
  BY <1>1, <1>3, <1>10, <1>11, <1>12
<1>14. back \notin X
  <2>1. X \in SUBSET (V \ {Seeker}) /\ X # {}
    BY <1>6, <1>10, <1>11, <1>13
  <2>2. PICK p \in X : reachReverse[p][id] \notin X
    BY <2>1, <1>10
  <2>3. p \notin W \ {m.from} /\ p # m.from
    BY <2>2, <1>6, <1>11
  <2>4. p = t
    BY <2>2, <2>3, <1>6
  <2>5. QED
    BY <2>2, <2>4, <1>12
<1>15. /\ Cardinality(W) \in Nat /\ Cardinality(X) = Cardinality(W) + 1
       /\ Ttl \in Nat /\ m.packet.ttl > 1
  <2>1. t \in Stations \ W /\ Seeker \in Stations \ W /\ t # Seeker
    BY <1>10, <1>11, <1>13, ReachAssumption
  <2>2. Cardinality(W) \in Nat /\ Cardinality(W \cup {t}) = Cardinality(W) + 1 /\ Ttl \in Nat /\ Cardinality(W) <= Ttl - 2
    BY <2>1, <1>7, RoomToGo
  <2>3. QED
    BY <2>2, <1>2, <1>6, <1>11
<1>16. MayGoBack(m) /\ back = Back(m)
  <2>1. back = Back(m)
    BY <1>3, <1>12 DEF Back
  <2>2. isOpenTo(t, back)
    BY <1>13 DEF isOpenTo, carries
  <2>3. back \notin {m.to, m.from}
    BY <1>3, <1>6, <1>11, <1>14
  <2>4. QED
    BY <2>1, <2>2, <2>3, <1>3, <1>15 DEF MayGoBack
<1>17. PICK packet : packet = Forwarded(m.packet)
  OBVIOUS
<1>18. packet.kind = "reply" /\ packet.id = id /\ packet.ttl = m.packet.ttl - 1
  BY <1>2, <1>15, <1>17, ForwardedTyped
<1>19. PICK qs : qs = {back}
  OBVIOUS
<1>20. reachWire' = (reachWire \ {m}) \cup Posted(t, qs, packet)
  BY <1>3, <1>16, <1>17, <1>19 DEF GoesBack
<1>21. PICK n \in Posted(t, qs, packet) : n.from = t /\ n.to = back /\ n.packet = packet
  BY <1>13, <1>19, PostedTo
<1>22. \A k \in Posted(t, qs, packet) : k = n
  <2>1. TAKE k \in Posted(t, qs, packet)
  <2>2. k = [from |-> t, to |-> k.to, packet |-> packet] /\ k.to = back
    BY <1>19, PostedFrom
  <2>3. n = [from |-> t, to |-> n.to, packet |-> packet] /\ n.to = back
    BY <1>21, PostedFrom
  <2>4. QED
    BY <2>2, <2>3
<1>23. n \in reachWire' /\ \A k \in reachWire' : (k \in reachWire /\ k # m) \/ k = n
  BY <1>20, <1>21, <1>22
<1>24. OnTheWay("reply", id)' = {n}
  <2>1. \A k \in reachWire : k.packet.kind = "reply" /\ k.packet.id = id => k = m
    BY <1>11 DEF OnTheWay
  <2>2. n.packet.kind = "reply" /\ n.packet.id = id
    BY <1>18, <1>21
  <2>3. QED
    BY <2>1, <2>2, <1>23 DEF OnTheWay
<1>25. \A k \in OnTheWay("request", id)' : k \in OnTheWay("request", id)
  BY <1>18, <1>21, <1>23 DEF OnTheWay
<1>26. reachReverse' = reachReverse /\ reachLinks' = reachLinks
  BY DEF GoesBack, Elsewhere
<1>27. \A p, q : carries(p, q)' <=> carries(p, q)
  BY <1>26, LinksStay
<1>28. HaveSeen("request", id)' = V /\ HaveSeen("reply", id)' = X
  <2>1. reachSeen' = [reachSeen EXCEPT ![t] = @ \cup {<<"reply", id>>}]
    BY <1>3 DEF GoesBack
  <2>2. HaveSeen("reply", id)' = HaveSeen("reply", id) \cup {t} /\ HaveSeen("request", id)' = HaveSeen("request", id)
    BY <2>1, SeenMore DEF ProbesTyped
  <2>3. QED
    BY <2>2, <1>4, <1>5, <1>6
<1>29. FloodSpreads(id, V, X)'
  <2>1. Seeker \notin X /\ X \subseteq V
    BY <1>6, <1>10, <1>11, <1>13
  <2>2. \A p \in V \ {Seeker} : carries(p, reachReverse[p][id])'
    <3>1. TAKE p \in V \ {Seeker}
    <3>2. PICK r : r = reachReverse[p][id]
      OBVIOUS
    <3>3. carries(p, r)'
      BY <3>2, <1>10, <1>27
    <3>4. QED
      BY <3>2, <3>3, <1>26
  <2>3. \A k \in OnTheWay("request", id)' : k.from \in V /\ k.packet.ttl >= Ttl + 1 - Cardinality(V)
    BY <1>10, <1>25
  <2>4. QED
    BY <2>1, <2>2, <2>3, <1>10, <1>26 DEF FloodSpreads
<1>30. AnswerComes(id, V, X)'
  <2>1. n.from \in X /\ n.to \in V \ X /\ n.to = reachReverse'[n.from][id]
    BY <1>6, <1>12, <1>13, <1>14, <1>21, <1>26
  <2>2. \A w \in X \ {n.from} : reachReverse'[w][id] \in X
    BY <1>6, <1>11, <1>21, <1>26
  <2>3. n.packet.ttl >= Ttl + 1 - Cardinality(X)
    BY <1>2, <1>11, <1>15, <1>18, <1>21
  <2>4. QED
    BY <2>1, <2>2, <2>3, <1>23, <1>24 DEF AnswerComes
<1>31. QED
  BY <1>9, <1>28, <1>29, <1>30 DEF Flooded

\* Something is under way as long as the answer is to come.
LEMMA UnderWay ==
  ASSUME Reaches, NEW id, Flooded(id)
  PROVE  \E m \in reachWire : m.packet.id = id
<1>1. PICK V : V = HaveSeen("request", id)
  OBVIOUS
<1>2. V \in SUBSET Stations
  BY <1>1 DEF HaveSeen
<1>3. /\ FloodSpreads(id, V, HaveSeen("reply", id))
      /\ Sought \notin V => FloodGoesOn(id, V)
      /\ Sought \in V => AnswerComes(id, V, HaveSeen("reply", id))
  BY <1>1 DEF Flooded
<1>4. CASE Sought \notin V
  <2>1. Seeker \in V
    BY <1>3 DEF FloodSpreads
  <2>2. PICK p \in V, q \in Stations \ V : carries(p, q)
    BY <2>1, <1>2, <1>4, WayOut
  <2>3. PICK m \in OnTheWay("request", id) : m.from = p /\ m.to = q
    BY <2>2, <1>3, <1>4 DEF FloodGoesOn
  <2>4. QED
    BY <2>3 DEF OnTheWay
<1>5. CASE Sought \in V
  <2>1. PICK m \in reachWire : OnTheWay("reply", id) = {m}
    BY <1>3, <1>5 DEF AnswerComes
  <2>2. m \in OnTheWay("reply", id)
    BY <2>1
  <2>3. QED
    BY <2>2 DEF OnTheWay
<1>6. QED
  BY <1>4, <1>5

\* The answer stays on its way, whatever is handled.
LEMMA HandledComes ==
  ASSUME ProbesTyped, AnswerWillCome, NEW m \in reachWire, handleProbe(m)
  PROVE  AnswerWillCome'
<1>1. Discards(m) \/ Passes(m) \/ Responds(m) \/ ComesHome(m) \/ GoesBack(m)
  BY HandledSomehow
<1>2. CASE ComesHome(m)
  <2>1. reachRequest'.id = 0
    BY <1>2 DEF ComesHome, NoProbe
  <2>2. QED
    BY <2>1 DEF AnswerWillCome, ProbeIds
<1>3. CASE ~ComesHome(m)
  <2>1. reachRequest' = reachRequest /\ reachStable' = reachStable /\ reachLinks' = reachLinks /\ reachKnown' = reachKnown
    BY <1>1, <1>3 DEF Discards, Passes, Responds, GoesBack, Elsewhere, Unheard
  <2>2. SUFFICES ASSUME reachKnown, Reaches, NEW id \in ProbeIds, reachRequest.id = id, reachRequest.age < reachStable
                 PROVE  Flooded(id)'
    BY <2>1, LinksStay DEF AnswerWillCome
  <2>3. Flooded(id)
    BY <2>2 DEF AnswerWillCome
  <2>4. CASE m.packet.id # id
    BY <2>3, <2>4, OtherProbe
  <2>5. CASE m.packet.id = id
    BY <2>3, <2>5, <1>1, <1>3, PassedOn, Answered, SeenBefore, GoneBack
  <2>6. QED
    BY <2>4, <2>5
<1>4. QED
  BY <1>2, <1>3

\* The flood of a new request begins around the seeker.
LEMMA AskedFlooded ==
  ASSUME ProbesTyped, ProbesApart, reachDue, requestRoute, mayAsk, reachLinks' = reachLinks,
         NEW id \in ProbeIds, id = newProbe
  PROVE  Flooded(id)'
<1>1. id = newProbe /\ id \notin InUse
  BY FreeProbe
<1>2. /\ reachSeen' = noted(seenStill, Seeker, {"request"}, id)
      /\ reachWire' = reachWire \cup AsksAround
  BY <1>1 DEF requestRoute, AsksAround
<1>3. PICK V : V = {Seeker}
  OBVIOUS
<1>4. PICK W : W = {}
  OBVIOUS
<1>5. Seeker \in Stations /\ Sought \in Stations /\ Sought # Seeker /\ Ttl \in Nat
  BY ReachAssumption
<1>6. reachSeen' = [seenStill EXCEPT ![Seeker] = @ \cup {<<"request", id>>}]
  BY <1>2, StillTyped, NotedTyped
<1>7. \A p \in Stations : \A kind : <<kind, id>> \notin seenStill[p]
  BY <1>1 DEF seenStill
<1>8. \A p \in Stations : \A kind : <<kind, id>> \in reachSeen'[p] <=> (p = Seeker /\ kind = "request")
  BY <1>5, <1>6, <1>7, StillTyped
<1>9. HaveSeen("request", id)' = V /\ HaveSeen("reply", id)' = W
  BY <1>3, <1>4, <1>5, <1>8 DEF HaveSeen
<1>10. \A m \in reachWire : m.packet.id # id
  BY <1>1 DEF InUse
<1>11. \A m \in AsksAround : m.packet.kind = "request" /\ m.packet.id = id /\ m.from = Seeker /\ m.packet.ttl = Ttl
  BY <1>1, AskedKin
<1>12. OnTheWay("reply", id)' = {} /\ OnTheWay("request", id)' = AsksAround
  BY <1>2, <1>10, <1>11 DEF OnTheWay
<1>13. FloodSpreads(id, V, W)'
  <2>1. Cardinality(V) = 1
    BY <1>3, FS_Singleton
  <2>2. \A m \in OnTheWay("request", id)' : m.from \in V /\ m.packet.ttl >= Ttl + 1 - Cardinality(V)
    BY <2>1, <1>3, <1>5, <1>11, <1>12
  <2>3. V \ {Seeker} = {}
    BY <1>3
  <2>4. QED
    BY <2>2, <2>3, <1>3, <1>4 DEF FloodSpreads
<1>14. FloodGoesOn(id, V)'
  <2>1. SUFFICES ASSUME NEW q \in Stations \ V, carries(Seeker, q)'
                 PROVE  \E m \in OnTheWay("request", id)' : m.from = Seeker /\ m.to = q
    BY <1>3 DEF FloodGoesOn
  <2>2. carries(Seeker, q)
    BY <2>1, LinksStay
  <2>3. q \in Neighbours(Seeker)
    BY <2>2, CarriesBothWays
  <2>4. PICK qs : qs = Neighbours(Seeker)
    OBVIOUS
  <2>5. PICK packet : packet = Probe("request", newProbe, FALSE)
    OBVIOUS
  <2>6. PICK m \in Posted(Seeker, qs, packet) : m.from = Seeker /\ m.to = q
    BY <2>2, <2>3, <2>4, PostedTo
  <2>7. m \in AsksAround
    BY <2>4, <2>5, <2>6 DEF AsksAround
  <2>8. QED
    BY <2>6, <2>7, <1>12
<1>15. Sought \notin V
  BY <1>3, <1>5
<1>16. QED
  BY <1>4, <1>9, <1>12, <1>13, <1>14, <1>15 DEF Flooded

\* And whatever else happens.
LEMMA MaintainComes ==
  ASSUME ProbesTyped, ProbesApart, AnswerWillCome, maintainPeerReachability
  PROVE  AnswerWillCome'
<1>1. reachLinks' = reachLinks /\ reachKnown' = reachKnown /\ reachStable' = reachStable /\ reachDue
  BY DEF maintainPeerReachability
<1>2. SUFFICES ASSUME reachKnown, Reaches, NEW id \in ProbeIds, reachRequest'.id = id, reachRequest'.age < reachStable
               PROVE  Flooded(id)'
  BY <1>1, LinksStay DEF AnswerWillCome
<1>3. CASE UNCHANGED <<reachSeen, reachReverse, reachRequest, reachWire>>
  <2>1. Flooded(id)
    BY <1>2, <1>3 DEF AnswerWillCome
  <2>2. /\ HaveSeen("request", id)' = HaveSeen("request", id) /\ HaveSeen("reply", id)' = HaveSeen("reply", id)
        /\ OnTheWay("request", id)' = OnTheWay("request", id) /\ OnTheWay("reply", id)' = OnTheWay("reply", id)
    BY <1>3 DEF HaveSeen, OnTheWay
  <2>3. QED
    BY <2>1, <2>2, <1>1, <1>3, FloodUnmoved
<1>4. CASE mayAsk /\ requestRoute
  <2>1. id = newProbe
    BY <1>2, <1>4 DEF requestRoute
  <2>2. QED
    BY <2>1, <1>1, <1>4, AskedFlooded
<1>5. QED
  BY <1>3, <1>4 DEF maintainPeerReachability, requestRoute

LEMMA RemoveComes ==
  ASSUME removeMeshPeer
  PROVE  AnswerWillCome'
<1>1. ~reachKnown'
  BY DEF removeMeshPeer
<1>2. QED
  BY <1>1 DEF AnswerWillCome

LEMMA ExpireComes ==
  ASSUME RequestExpires
  PROVE  AnswerWillCome'
<1>1. reachRequest'.id = 0
  BY DEF RequestExpires, NoProbe
<1>2. QED
  BY <1>1 DEF AnswerWillCome, ProbeIds

LEMMA NoteComes ==
  ASSUME AnswerWillCome, notePeerReachable
  PROVE  AnswerWillCome'
<1>1. UNCHANGED <<reachLinks, reachWire, reachRequest, reachKnown, reachSeen, reachReverse, reachStable>>
  BY DEF notePeerReachable, probeVars, timeVars
<1>2. SUFFICES ASSUME reachKnown, Reaches, NEW id \in ProbeIds, reachRequest.id = id, reachRequest.age < reachStable
               PROVE  Flooded(id)'
  BY <1>1, LinksStay DEF AnswerWillCome
<1>3. Flooded(id)
  BY <1>2 DEF AnswerWillCome
<1>4. /\ HaveSeen("request", id)' = HaveSeen("request", id) /\ HaveSeen("reply", id)' = HaveSeen("reply", id)
      /\ OnTheWay("request", id)' = OnTheWay("request", id) /\ OnTheWay("reply", id)' = OnTheWay("reply", id)
  BY <1>1 DEF HaveSeen, OnTheWay
<1>5. QED
  BY <1>1, <1>3, <1>4, FloodUnmoved

LEMMA LinkComes ==
  ASSUME ProbesTyped', NEW pair \in NodePairs, NEW to \in {"up", "dead", "down"}, LinkChanges(pair, to)
  PROVE  AnswerWillCome'
<1>1. reachStable' = 0 /\ reachRequest'.age \in Nat
  BY DEF LinkChanges, ProbesTyped, ReachTypeOK
<1>2. ~(reachRequest'.age < reachStable')
  BY <1>1
<1>3. QED
  BY <1>2 DEF AnswerWillCome

\* A tick makes the packets late, and what is under way is remembered.
LEMMA TickFlooded ==
  ASSUME ProbesTyped, ReachTick, Reaches, NEW id \in ProbeIds, Flooded(id)
  PROVE  Flooded(id)'
<1>1. /\ reachWire' = {Late(m) : m \in reachWire} /\ reachLinks' = reachLinks
      /\ reachSeen' = seenStill /\ reachReverse' = reverseStill
  BY DEF ReachTick, Late
<1>2. id \in InUse
  BY UnderWay DEF InUse
<1>3. \A m \in reachWire : /\ Late(m) \in reachWire' /\ Late(m).from = m.from /\ Late(m).to = m.to
                           /\ Late(m).packet.kind = m.packet.kind /\ Late(m).packet.id = m.packet.id
                           /\ Late(m).packet.ttl = m.packet.ttl
  BY <1>1, LateFields DEF ProbesTyped
<1>4. \A n \in reachWire' : \E m \in reachWire : n = Late(m)
  BY <1>1
<1>5. \A p \in Stations : reachReverse'[p][id] = reachReverse[p][id]
  BY <1>1, <1>2 DEF reverseStill
<1>6. PICK V : V = HaveSeen("request", id)
  OBVIOUS
<1>7. PICK W : W = HaveSeen("reply", id)
  OBVIOUS
<1>8. V \in SUBSET Stations /\ W \in SUBSET Stations
  BY <1>6, <1>7 DEF HaveSeen
<1>9. HaveSeen("request", id)' = V /\ HaveSeen("reply", id)' = W
  <2>1. \A p \in Stations : \A kind : <<kind, id>> \in reachSeen'[p] <=> <<kind, id>> \in reachSeen[p]
    BY <1>1, <1>2 DEF seenStill
  <2>2. QED
    BY <2>1, <1>6, <1>7 DEF HaveSeen
<1>10. /\ FloodSpreads(id, V, W)
       /\ Sought \notin V => OnTheWay("reply", id) = {} /\ W = {} /\ FloodGoesOn(id, V)
       /\ Sought \in V => AnswerComes(id, V, W)
  BY <1>6, <1>7 DEF Flooded
<1>11. \A kind : /\ \A m \in OnTheWay(kind, id) : Late(m) \in OnTheWay(kind, id)'
                 /\ \A n \in OnTheWay(kind, id)' : \E m \in OnTheWay(kind, id) : n = Late(m)
  BY <1>3, <1>4 DEF OnTheWay
<1>12. \A p, q : carries(p, q)' <=> carries(p, q)
  BY <1>1, LinksStay
<1>13. FloodSpreads(id, V, W)'
  <2>1. /\ Seeker \in V /\ Seeker \notin W /\ W \subseteq V
        /\ \A p \in V \ {Seeker} : reachReverse[p][id] \in V /\ carries(p, reachReverse[p][id])
        /\ \A U \in SUBSET (V \ {Seeker}) : U # {} => \E p \in U : reachReverse[p][id] \notin U
        /\ \A m \in OnTheWay("request", id) : m.from \in V /\ m.packet.ttl >= Ttl + 1 - Cardinality(V)
    BY <1>10 DEF FloodSpreads
  <2>2. \A p \in V \ {Seeker} : reachReverse'[p][id] \in V /\ carries(p, reachReverse[p][id])'
    <3>1. TAKE p \in V \ {Seeker}
    <3>2. reachReverse'[p][id] = reachReverse[p][id]
      BY <1>5, <1>8
    <3>3. PICK r : r = reachReverse[p][id]
      OBVIOUS
    <3>4. r \in V /\ carries(p, r)'
      BY <2>1, <3>3, <1>12
    <3>5. QED
      BY <3>2, <3>3, <3>4
  <2>3. \A U \in SUBSET (V \ {Seeker}) : U # {} => \E p \in U : reachReverse'[p][id] \notin U
    <3>1. TAKE U \in SUBSET (V \ {Seeker})
    <3>2. HAVE U # {}
    <3>3. PICK p \in U : reachReverse[p][id] \notin U
      BY <2>1, <3>2
    <3>4. reachReverse'[p][id] = reachReverse[p][id]
      BY <1>5, <1>8
    <3>5. QED
      BY <3>3, <3>4
  <2>4. \A n \in OnTheWay("request", id)' : n.from \in V /\ n.packet.ttl >= Ttl + 1 - Cardinality(V)
    <3>1. TAKE n \in OnTheWay("request", id)'
    <3>2. PICK m \in OnTheWay("request", id) : n = Late(m)
      BY <1>11
    <3>3. n.from = m.from /\ n.packet.ttl = m.packet.ttl
      BY <3>2, <1>3 DEF OnTheWay
    <3>4. QED
      BY <2>1, <3>2, <3>3
  <2>5. QED
    BY <2>1, <2>2, <2>3, <2>4 DEF FloodSpreads
<1>14. FloodGoesOn(id, V) => FloodGoesOn(id, V)'
  <2>1. HAVE FloodGoesOn(id, V)
  <2>2. SUFFICES ASSUME NEW p \in V, NEW q \in Stations \ V, carries(p, q)'
                 PROVE  \E n \in OnTheWay("request", id)' : n.from = p /\ n.to = q
    BY DEF FloodGoesOn
  <2>3. carries(p, q)
    BY <2>2, <1>12
  <2>4. PICK m \in OnTheWay("request", id) : m.from = p /\ m.to = q
    BY <2>1, <2>3 DEF FloodGoesOn
  <2>5. Late(m) \in OnTheWay("request", id)' /\ Late(m).from = p /\ Late(m).to = q
    BY <2>4, <1>3, <1>11 DEF OnTheWay
  <2>6. QED
    BY <2>5
<1>15. AnswerComes(id, V, W) => AnswerComes(id, V, W)'
  <2>1. HAVE AnswerComes(id, V, W)
  <2>2. PICK m \in reachWire :
          /\ OnTheWay("reply", id) = {m}
          /\ m.from \in W /\ m.to \in V \ W /\ m.to = reachReverse[m.from][id]
          /\ \A w \in W \ {m.from} : reachReverse[w][id] \in W
          /\ m.packet.ttl >= Ttl + 1 - Cardinality(W)
    BY <2>1 DEF AnswerComes
  <2>3. PICK n : n = Late(m)
    OBVIOUS
  <2>4. n \in reachWire' /\ n.from = m.from /\ n.to = m.to /\ n.packet.ttl = m.packet.ttl
    BY <2>3, <1>3
  <2>5. OnTheWay("reply", id)' = {n}
    BY <2>2, <2>3, <1>11
  <2>6. \A w \in W : reachReverse'[w][id] = reachReverse[w][id]
    BY <1>5, <1>8
  <2>7. QED
    BY <2>2, <2>4, <2>5, <2>6 DEF AnswerComes
<1>16. OnTheWay("reply", id) = {} => OnTheWay("reply", id)' = {}
  BY <1>11
<1>17. QED
  BY <1>9, <1>10, <1>13, <1>14, <1>15, <1>16 DEF Flooded

LEMMA TickComes ==
  ASSUME ProbesTyped, AnswerWillCome, ReachTick
  PROVE  AnswerWillCome'
<1>1. /\ reachLinks' = reachLinks /\ reachKnown' = reachKnown /\ ~requestOver
      /\ reachStable' = (IF reachStable < SettledAfter THEN reachStable + 1 ELSE reachStable)
      /\ reachRequest' = (IF reachRequest = NoProbe \/ reachRequest.age = RequestLife
                          THEN reachRequest ELSE [reachRequest EXCEPT !.age = @ + 1])
  BY DEF ReachTick
<1>2. SUFFICES ASSUME reachKnown, Reaches, NEW id \in ProbeIds, reachRequest'.id = id, reachRequest'.age < reachStable'
               PROVE  Flooded(id)'
  BY <1>1, LinksStay DEF AnswerWillCome
<1>3. reachRequest \in [id : ProbeIds \cup {0}, age : 0 .. RequestLife] /\ reachStable \in 0 .. SettledAfter /\ RequestLife \in Nat
  BY ReachAssumption DEF ProbesTyped, ReachTypeOK
<1>4. reachRequest # NoProbe
  BY <1>1, <1>2 DEF NoProbe, ProbeIds
<1>5. reachRequest.age < RequestLife
  BY <1>1, <1>3, <1>4 DEF requestOver
<1>6. reachRequest' = [id |-> reachRequest.id, age |-> reachRequest.age + 1]
  BY <1>1, <1>3, <1>4, <1>5
<1>7. reachRequest.id = id /\ reachRequest.age < reachStable
  BY <1>1, <1>2, <1>3, <1>5, <1>6 DEF SettledAfter
<1>8. Flooded(id)
  BY <1>2, <1>7 DEF AnswerWillCome
<1>9. QED
  BY <1>2, <1>8, TickFlooded

\* Where no link has changed for as long as a request lives, a request that is alive is
\* young, and its packets tell its age.
LEMMA RequestIsYoung ==
  ASSUME ProbesTyped, ProbesApart, AnswerWillCome, reachKnown, Reaches,
         reachRequest # NoProbe, reachStable >= RequestLife + 1
  PROVE  \E m \in reachWire : reachRequest.age <= 1 /\ (m.packet.late <=> reachRequest.age = 1)
<1>1. reachRequest \in [id : ProbeIds \cup {0}, age : 0 .. RequestLife] /\ reachStable \in Nat /\ RequestLife \in Nat
  BY ReachAssumption DEF ProbesTyped, ReachTypeOK
<1>2. PICK id \in ProbeIds : id = reachRequest.id
  BY DEF ProbesTyped
<1>3. reachRequest.age < reachStable
  BY <1>1
<1>4. Flooded(id)
  BY <1>2, <1>3 DEF AnswerWillCome
<1>5. PICK m \in reachWire : m.packet.id = id
  BY <1>4, UnderWay
<1>6. QED
  BY <1>2, <1>5 DEF ProbesApart

\* The numbers of the timer.
LEMMA TimesTyped ==
  ASSUME ProbesTyped
  PROVE  /\ reachStable \in Nat /\ reachSilent \in Nat /\ reachRequest.age \in Nat
         /\ reachStable <= SettledAfter /\ SettledAfter = RequestLife + 3
         /\ reachRequest.age <= RequestLife
         /\ reachRequest \in [id : ProbeIds \cup {0}, age : 0 .. RequestLife]
         /\ RequestLife \in Nat /\ RequestLife >= 2 /\ QuietAfter \in Nat /\ QuietAfter >= 1
         /\ LostAfter \in Nat /\ LostAfter > QuietAfter + 1
BY ReachAssumption DEF ProbesTyped, ReachTypeOK, SettledAfter

\* Every action keeps who is in reach heard in time.
LEMMA HandledHeard ==
  ASSUME ProbesTyped, HeardInTime, NEW m \in reachWire, handleProbe(m)
  PROVE  HeardInTime'
<1>1. Discards(m) \/ Passes(m) \/ Responds(m) \/ ComesHome(m) \/ GoesBack(m)
  BY HandledSomehow
<1>2. reachLinks' = reachLinks /\ reachKnown' = reachKnown /\ reachDue' = reachDue
  BY <1>1 DEF Discards, Passes, Responds, ComesHome, GoesBack, Elsewhere
<1>3. Reaches' <=> Reaches
  BY <1>2, LinksStay
<1>4. CASE Unheard
  BY <1>2, <1>3, <1>4 DEF Unheard, HeardInTime
<1>5. CASE ComesHome(m)
  <2>1. /\ reachSilent' = IF reachRequest.id = m.packet.id /\ reachKnown THEN 0 ELSE reachSilent
        /\ reachStable' = IF reachRequest.id \in {0, m.packet.id} THEN reachStable ELSE 0
        /\ reachRequest' = NoProbe
    BY <1>5 DEF ComesHome
  <2>2. CASE reachRequest.id = 0
    <3>1. reachRequest = NoProbe
      BY <2>2 DEF ProbesTyped, ProbeIds
    <3>2. m.packet.id # 0
      BY MemberOfProbes DEF ProbesTyped, ProbeIds
    <3>3. reachRequest' = reachRequest /\ reachSilent' = reachSilent /\ reachStable' = reachStable
      BY <2>1, <2>2, <3>1, <3>2
    <3>4. QED
      BY <3>3, <1>2, <1>3 DEF HeardInTime
  <2>3. CASE reachRequest.id = m.packet.id /\ reachKnown
    <3>1. reachSilent' = 0
      BY <2>1, <2>3
    <3>2. reachSilent' < QuietAfter /\ reachSilent' <= QuietAfter /\ reachSilent' <= QuietAfter + 1
      BY <3>1, TimesTyped
    <3>3. QED
      BY <3>2 DEF HeardInTime
  <2>4. CASE ~reachKnown
    BY <2>4, <1>2 DEF HeardInTime
  <2>5. CASE reachRequest.id \notin {0, m.packet.id}
    <3>1. reachStable' = 0
      BY <2>1, <2>5
    <3>2. ~(reachStable' >= RequestLife + 1) /\ ~(reachStable' >= RequestLife + 2) /\ ~(reachStable' >= RequestLife + 3)
      BY <3>1, TimesTyped
    <3>3. QED
      BY <3>2 DEF HeardInTime
  <2>6. QED
    BY <2>2, <2>3, <2>4, <2>5
<1>6. QED
  BY <1>1, <1>4, <1>5 DEF Discards, Passes, Responds, GoesBack

LEMMA MaintainHeard ==
  ASSUME ProbesTyped, ProbesApart, HeardInTime, maintainPeerReachability
  PROVE  HeardInTime'
<1>1. /\ reachLinks' = reachLinks /\ reachKnown' = reachKnown /\ reachDue' = FALSE
      /\ reachSilent' = reachSilent /\ reachStable' = reachStable
  BY DEF maintainPeerReachability
<1>2. Reaches' <=> Reaches
  BY <1>1, LinksStay
<1>3. SUFFICES ASSUME reachKnown, Reaches PROVE HeardInTime'
  BY <1>1, <1>2 DEF HeardInTime
<1>4. requestRoute
  BY <1>3 DEF maintainPeerReachability
<1>5. CASE mayAsk
  <2>1. reachRequest = NoProbe
    BY <1>5 DEF mayAsk
  <2>2. reachRequest' = [id |-> newProbe, age |-> 0]
    BY <1>4, <1>5 DEF requestRoute
  <2>3. newProbe \in ProbeIds
    BY FreeProbe DEF maintainPeerReachability
  <2>4. reachRequest' # NoProbe
    BY <2>2, <2>3 DEF NoProbe, ProbeIds
  <2>5. QED
    BY <2>1, <2>4, <1>1, <1>3 DEF HeardInTime
<1>6. CASE ~mayAsk
  <2>1. reachRequest' = reachRequest
    BY <1>4, <1>6 DEF requestRoute
  <2>2. reachRequest = NoProbe => reachSilent < QuietAfter
    BY <1>6, TimesTyped DEF mayAsk
  <2>3. QED
    BY <2>1, <2>2, <1>1, <1>3 DEF HeardInTime
<1>7. QED
  BY <1>5, <1>6

LEMMA RemoveHeard ==
  ASSUME removeMeshPeer
  PROVE  HeardInTime'
<1>1. ~reachKnown'
  BY DEF removeMeshPeer
<1>2. QED
  BY <1>1 DEF HeardInTime

LEMMA ExpireHeard ==
  ASSUME ProbesTyped, ProbesApart, AnswerWillCome, RequestExpires
  PROVE  HeardInTime'
<1>1. UNCHANGED <<reachLinks, reachSilent, reachKnown, reachStable>> /\ reachRequest # NoProbe /\ reachRequest.age >= RequestLife
  BY DEF RequestExpires, requestOver, timeVars
<1>2. SUFFICES ASSUME reachKnown, Reaches, reachStable >= RequestLife + 1 PROVE FALSE
  <2>1. CASE reachKnown /\ Reaches /\ reachStable >= RequestLife + 1
    BY <1>2, <2>1
  <2>2. CASE ~reachKnown \/ ~Reaches
    <3>1. ~reachKnown' \/ ~Reaches'
      BY <2>2, <1>1, LinksStay
    <3>2. QED
      BY <3>1 DEF HeardInTime
  <2>3. CASE ~(reachStable >= RequestLife + 1)
    <3>1. ~(reachStable' >= RequestLife + 1) /\ ~(reachStable' >= RequestLife + 2) /\ ~(reachStable' >= RequestLife + 3)
      BY <2>3, <1>1, TimesTyped
    <3>2. QED
      BY <3>1 DEF HeardInTime
  <2>4. QED
    BY <2>1, <2>2, <2>3
<1>3. reachRequest.age <= 1
  BY <1>1, <1>2, RequestIsYoung
<1>4. QED
  BY <1>1, <1>3, TimesTyped

LEMMA NoteHeard ==
  ASSUME ProbesTyped, notePeerReachable
  PROVE  HeardInTime'
<1>1. reachSilent' = 0
  BY DEF notePeerReachable
<1>2. reachSilent' < QuietAfter /\ reachSilent' <= QuietAfter /\ reachSilent' <= QuietAfter + 1
  BY <1>1, TimesTyped
<1>3. QED
  BY <1>2 DEF HeardInTime

LEMMA LinkHeard ==
  ASSUME ProbesTyped, NEW pair \in NodePairs, NEW to \in {"up", "dead", "down"}, LinkChanges(pair, to)
  PROVE  HeardInTime'
<1>1. reachStable' = 0
  BY DEF LinkChanges
<1>2. ~(reachStable' >= RequestLife + 1) /\ ~(reachStable' >= RequestLife + 2) /\ ~(reachStable' >= RequestLife + 3)
  BY <1>1, TimesTyped
<1>3. QED
  BY <1>2 DEF HeardInTime

LEMMA TickHeard ==
  ASSUME ProbesTyped, ProbesApart, AnswerWillCome, HeardInTime, ReachTick
  PROVE  HeardInTime'
<1>1. /\ reachLinks' = reachLinks /\ reachKnown' = reachKnown /\ ~requestOver /\ ~reachDue /\ reachDue'
      /\ \A m \in reachWire : ~m.packet.late
      /\ reachSilent' = (IF reachSilent < LostAfter THEN reachSilent + 1 ELSE reachSilent)
      /\ reachStable' = (IF reachStable < SettledAfter THEN reachStable + 1 ELSE reachStable)
      /\ reachRequest' = (IF reachRequest = NoProbe \/ reachRequest.age = RequestLife
                          THEN reachRequest ELSE [reachRequest EXCEPT !.age = @ + 1])
  BY DEF ReachTick
<1>2. SUFFICES ASSUME reachKnown, Reaches
               PROVE  /\ reachStable' >= RequestLife + 2 /\ (reachRequest' = NoProbe \/ reachRequest'.age = 0)
                         => reachSilent' <= QuietAfter
                      /\ reachStable' >= RequestLife + 3 => reachSilent' <= QuietAfter + 1
  BY <1>1, LinksStay DEF HeardInTime
<1>3. /\ reachStable >= RequestLife + 1 /\ reachRequest = NoProbe => reachSilent < QuietAfter
      /\ reachStable >= RequestLife + 2 /\ (reachRequest = NoProbe \/ reachRequest.age = 0) => reachSilent <= QuietAfter
      /\ reachStable >= RequestLife + 3 => reachSilent <= QuietAfter + 1
  BY <1>1, <1>2 DEF HeardInTime
<1>4. ASSUME reachStable' >= RequestLife + 2, reachRequest' = NoProbe \/ reachRequest'.age = 0
      PROVE  reachSilent' <= QuietAfter
  <2>1. reachStable >= RequestLife + 1
    BY <1>1, <1>4, TimesTyped
  <2>2. reachRequest = NoProbe
    <3>1. SUFFICES ASSUME reachRequest # NoProbe PROVE FALSE
      OBVIOUS
    <3>2. reachRequest.age < RequestLife
      BY <1>1, <3>1, TimesTyped DEF requestOver
    <3>3. reachRequest' = [id |-> reachRequest.id, age |-> reachRequest.age + 1]
      BY <1>1, <3>1, <3>2, TimesTyped
    <3>4. QED
      BY <1>4, <3>3, TimesTyped DEF NoProbe
  <2>3. reachSilent < QuietAfter
    BY <1>3, <2>1, <2>2
  <2>4. QED
    BY <1>1, <2>3, TimesTyped
<1>5. ASSUME reachStable' >= RequestLife + 3
      PROVE  reachSilent' <= QuietAfter + 1
  <2>1. reachStable >= RequestLife + 2 /\ reachStable >= RequestLife + 1
    BY <1>1, <1>5, TimesTyped
  <2>2. reachRequest = NoProbe \/ reachRequest.age = 0
    <3>1. SUFFICES ASSUME reachRequest # NoProbe PROVE reachRequest.age = 0
      OBVIOUS
    <3>2. PICK m \in reachWire : reachRequest.age <= 1 /\ (m.packet.late <=> reachRequest.age = 1)
      BY <1>2, <2>1, <3>1, RequestIsYoung
    <3>3. reachRequest.age # 1
      BY <1>1, <3>2
    <3>4. reachRequest.age <= 1
      BY <3>2
    <3>5. QED
      BY <3>3, <3>4, TimesTyped
  <2>3. reachSilent <= QuietAfter
    BY <1>3, <2>1, <2>2
  <2>4. QED
    BY <1>1, <2>3, TimesTyped
<1>6. QED
  BY <1>4, <1>5

\* The invariant holds at first and is kept.
LEMMA ReachInitInv == ReachInit => ReachInv
<1> SUFFICES ASSUME ReachInit PROVE ReachInv
  OBVIOUS
<1>1. /\ reachWire = {} /\ reachRequest = NoProbe /\ reachSilent = 0 /\ reachStable = 0
      /\ reachKnown = TRUE /\ reachDue = TRUE
      /\ reachSeen = [p \in Stations |-> {}]
      /\ reachReverse = [p \in Stations |-> [id \in ProbeIds |-> p]]
      /\ reachLinks = [pair \in NodePairs |-> IF pair \in InitialPairs THEN "up" ELSE "down"]
  BY DEF ReachInit
<1>2. RequestLife \in Nat /\ LostAfter \in Nat
  BY ReachAssumption
<1>3. ProbesTyped
  <2>1. reachLinks \in [NodePairs -> {"up", "dead", "down"}]
    BY <1>1
  <2>2. reachSeen \in [Stations -> SUBSET ({"request", "reply"} \X ProbeIds)]
    BY <1>1
  <2>3. reachReverse \in [Stations -> [ProbeIds -> Stations]]
    BY <1>1
  <2>4. /\ reachSilent \in 0 .. LostAfter /\ reachStable \in 0 .. SettledAfter
        /\ reachRequest \in [id : ProbeIds \cup {0}, age : 0 .. RequestLife]
    BY <1>1, <1>2 DEF SettledAfter, NoProbe
  <2>5. QED
    BY <1>1, <2>1, <2>2, <2>3, <2>4 DEF ProbesTyped, ReachTypeOK
<1>4. ProbesApart
  BY <1>1 DEF ProbesApart
<1>5. ReachMissed
  BY <1>1 DEF ReachMissed
<1>6. AnswerWillCome
  <2>1. reachRequest.id = 0
    BY <1>1 DEF NoProbe
  <2>2. QED
    BY <2>1 DEF AnswerWillCome, ProbeIds
<1>7. HeardInTime
  BY <1>1, <1>2 DEF HeardInTime
<1>8. QED
  BY <1>3, <1>4, <1>5, <1>6, <1>7 DEF ReachInv

LEMMA ReachNextInv == ReachInv /\ [ReachNext]_reachVars => ReachInv'
<1> SUFFICES ASSUME ReachInv, [ReachNext]_reachVars PROVE ReachInv'
  OBVIOUS
<1>1. ProbesTyped /\ ProbesApart /\ ReachMissed /\ AnswerWillCome /\ HeardInTime
  BY DEF ReachInv
<1>2. CASE maintainPeerReachability
  BY <1>1, <1>2, MaintainTyped, MaintainApart, MaintainMissed, MaintainComes, MaintainHeard DEF ReachInv
<1>3. CASE removeMeshPeer
  BY <1>1, <1>3, RemoveTyped, RemoveApart, RemoveMissed, RemoveComes, RemoveHeard DEF ReachInv
<1>4. CASE RequestExpires
  <2>1. ProbesApart'
    <3>1. reachWire' = reachWire /\ reachDue' = reachDue /\ reachRequest' = NoProbe
      BY <1>4 DEF RequestExpires, timeVars
    <3>2. QED
      BY <1>1, <3>1, FewerApart
  <2>2. QED
    BY <1>1, <1>4, <2>1, ExpireTyped, ExpireMissed, ExpireComes, ExpireHeard DEF ReachInv
<1>5. CASE \E mail \in reachWire : handleProbe(mail)
  <2>1. PICK m \in reachWire : handleProbe(m)
    BY <1>5
  <2>2. ProbesTyped'
    BY <1>1, <2>1, HandledTyped
  <2>3. QED
    BY <1>1, <2>1, <2>2, HandledApart, HandledMissed, HandledComes, HandledHeard DEF ReachInv
<1>6. CASE notePeerReachable
  <2>1. ProbesApart'
    <3>1. reachWire' = reachWire /\ reachDue' = reachDue /\ reachRequest' = reachRequest
      BY <1>6 DEF notePeerReachable, timeVars
    <3>2. QED
      BY <1>1, <3>1, FewerApart
  <2>2. QED
    BY <1>1, <1>6, <2>1, NoteTyped, NoteMissed, NoteComes, NoteHeard DEF ReachInv
<1>7. CASE \E pair \in NodePairs, to \in {"up", "dead", "down"} : LinkChanges(pair, to)
  <2>1. PICK pair \in NodePairs, to \in {"up", "dead", "down"} : LinkChanges(pair, to)
    BY <1>7
  <2>2. ProbesTyped'
    BY <1>1, <2>1, LinkTyped
  <2>3. ProbesApart'
    <3>1. reachWire' \subseteq reachWire /\ reachDue' = reachDue /\ reachRequest' = reachRequest
      BY <2>1 DEF LinkChanges
    <3>2. QED
      BY <1>1, <3>1, FewerApart
  <2>4. QED
    BY <1>1, <2>1, <2>2, <2>3, LinkMissed, LinkComes, LinkHeard DEF ReachInv
<1>8. CASE ReachTick
  BY <1>1, <1>8, TickTyped, TickApart, TickMissed, TickComes, TickHeard DEF ReachInv
<1>9. CASE UNCHANGED reachVars
  <2>1. UNCHANGED <<reachLinks, reachWire, reachSeen, reachReverse, reachRequest, reachSilent, reachKnown, reachDue, reachStable>>
    BY <1>9 DEF reachVars
  <2>2. ProbesTyped'
    <3>1. \A p, q : carries(p, q)' <=> carries(p, q)
      BY <2>1, LinksStay
    <3>2. \A m \in reachWire' : carries(m.from, m.to)'
      BY <1>1, <2>1, <3>1 DEF ProbesTyped
    <3>3. QED
      BY <1>1, <2>1, <3>2 DEF ProbesTyped, ReachTypeOK
  <2>3. ProbesApart'
    BY <1>1, <2>1, FewerApart
  <2>4. ReachMissed' /\ HeardInTime'
    BY <1>1, <2>1, LinksStay DEF ReachMissed, HeardInTime
  <2>5. AnswerWillCome'
    <3>1. SUFFICES ASSUME reachKnown, Reaches, NEW id \in ProbeIds, reachRequest.id = id, reachRequest.age < reachStable
                   PROVE  Flooded(id)'
      BY <2>1, LinksStay DEF AnswerWillCome
    <3>2. Flooded(id)
      BY <1>1, <3>1 DEF AnswerWillCome
    <3>3. /\ HaveSeen("request", id)' = HaveSeen("request", id) /\ HaveSeen("reply", id)' = HaveSeen("reply", id)
          /\ OnTheWay("request", id)' = OnTheWay("request", id) /\ OnTheWay("reply", id)' = OnTheWay("reply", id)
      BY <2>1 DEF HaveSeen, OnTheWay
    <3>4. QED
      BY <2>1, <3>2, <3>3, FloodUnmoved
  <2>6. QED
    BY <2>2, <2>3, <2>4, <2>5 DEF ReachInv
<1>10. QED
  BY <1>2, <1>3, <1>4, <1>5, <1>6, <1>7, <1>8, <1>9 DEF ReachNext

\* ReachInv is invariant: two requests are never mixed up, no answer crosses a cut, and
\* where no link has changed since a request was made, its flood reaches the sought and the
\* answer finds the way back before the hops run out (maintainPeerReachability,
\* requestRoute, handleRouteRequest, handleRouteReply, SignalingRouter).
THEOREM ReachInvariant == ReachSpec => []ReachInv
<1>1. ReachInit => ReachInv
  BY ReachInitInv
<1>2. ReachInv /\ [ReachNext]_reachVars => ReachInv'
  BY ReachNextInv
<1>3. QED
  BY <1>1, <1>2, PTL DEF ReachSpec

\* In a mesh of any size and shape, with any periods: nobody within reach is about to be
\* forgotten once the links have settled, and who is out of reach is missed for nearly as
\* long (maintainPeerReachability, handleRouteReply).
THEOREM ReachIsAlwaysKnown == ReachSpec => []ReachIsKnown
<1>1. ReachInv => ReachIsKnown
  <2>1. SUFFICES ASSUME ReachInv PROVE ReachIsKnown
    OBVIOUS
  <2>2. ProbesTyped /\ ReachTypeOK /\ ReachMissed /\ HeardInTime
    BY <2>1 DEF ReachInv, ProbesTyped
  <2>3. SUFFICES ASSUME reachKnown, reachStable = SettledAfter
                 PROVE  IF Reaches THEN reachSilent < LostAfter ELSE reachSilent >= SettledAfter - 1
    BY <2>2 DEF ReachIsKnown
  <2>4. CASE Reaches
    <3>1. reachStable >= RequestLife + 3
      BY <2>2, <2>3, TimesTyped
    <3>2. reachSilent <= QuietAfter + 1
      BY <2>2, <2>3, <2>4, <3>1 DEF HeardInTime
    <3>3. reachSilent < LostAfter
      BY <2>2, <3>2, TimesTyped
    <3>4. QED
      BY <2>4, <3>3
  <2>5. CASE ~Reaches
    <3>1. PICK near \in SUBSET Stations : Severed(near)
      BY <2>5, NoWayOut
    <3>2. reachSilent >= reachStable - 1
      BY <2>2, <2>3, <3>1 DEF ReachMissed
    <3>3. QED
      BY <2>3, <2>5, <3>2
  <2>6. QED
    BY <2>4, <2>5
<1>2. QED
  BY <1>1, ReachInvariant, PTL
=============================================================================
