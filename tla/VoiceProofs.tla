---------------------------- MODULE VoiceProofs ----------------------------
(***************************************************************************)
(* Theorems about Voice, for any links, hangover, queue limits, and however *)
(* often the user commands and the links change.                            *)
(***************************************************************************)
EXTENDS Voice, SequenceTheorems, WellFoundedInduction, TLAPS

-----------------------------------------------------------------------------
(* What is kept of a queue.                                                *)

\* Induction over the natural numbers, with a set in place of a predicate.
LEMMA Induct ==
  ASSUME NEW S, 0 \in S, \A n \in Nat : n \in S => n + 1 \in S
  PROVE  \A n \in Nat : n \in S
<1> SUFFICES ASSUME ~(\A n \in Nat : n \in S) PROVE FALSE
  OBVIOUS
<1> DEFINE T == {n \in Nat : n \notin S}
           R == OpToRel(<, Nat)
<1>1. IsWellFoundedOn(R, Nat)
  BY NatLessThanWellFounded
<1>2. T \subseteq Nat /\ T # {}
  OBVIOUS
<1> HIDE DEF R, T
<1>3. \E x \in T : \A y \in T : ~(<<y, x>> \in R)
  BY <1>1, <1>2, WFMin, Zenon
<1>4. PICK x \in T : \A y \in T : ~(<<y, x>> \in R)
  BY <1>3
<1>5. x \in Nat /\ x \notin S
  BY DEF T
<1>6. x # 0 /\ x - 1 \in Nat /\ x - 1 + 1 = x
  BY <1>5
<1>7. x - 1 \notin S
  BY <1>5, <1>6
<1>8. x - 1 \in T
  BY <1>6, <1>7 DEF T
<1>9. <<x - 1, x>> \in R
  BY <1>5, <1>6 DEF R, OpToRel
<1> QED
  BY <1>4, <1>8, <1>9

\* f tells what is kept of each of the first n elements of s.
Keeps(f, s, W, n) ==
  f = [i \in 0 .. n |->
         IF i = 0 THEN <<>>
         ELSE IF s[i] \in W THEN Append(f[i - 1], s[i]) ELSE f[i - 1]]

\* Such an f exists, however long the queue is.
LEMMA KeepsExists ==
  ASSUME NEW s, NEW W
  PROVE  \A n \in Nat : \E f : Keeps(f, s, W, n)
<1> DEFINE S == {n \in Nat : \E f : Keeps(f, s, W, n)}
<1>1. 0 \in S
  <2> DEFINE f == [i \in 0 .. 0 |-> <<>>]
  <2>1. Keeps(f, s, W, 0)
    BY DEF Keeps
  <2> QED
    BY <2>1
<1>2. ASSUME NEW n \in Nat, n \in S PROVE n + 1 \in S
  <2>1. PICK f : Keeps(f, s, W, n)
    BY <1>2
  <2> DEFINE last == IF s[n + 1] \in W THEN Append(f[n], s[n + 1]) ELSE f[n]
             g == [i \in 0 .. n + 1 |-> IF i = n + 1 THEN last ELSE f[i]]
  <2>2. \A i \in 0 .. n + 1 :
          g[i] = IF i = 0 THEN <<>>
                 ELSE IF s[i] \in W THEN Append(g[i - 1], s[i]) ELSE g[i - 1]
    <3> TAKE i \in 0 .. n + 1
    <3>1. CASE i = n + 1
      <4>1. g[i] = last /\ i # 0 /\ i - 1 = n /\ g[n] = f[n]
        BY <3>1
      <4> QED
        BY <4>1, <3>1
    <3>2. CASE i # n + 1
      <4>1. i \in 0 .. n /\ g[i] = f[i] /\ (i # 0 => g[i - 1] = f[i - 1])
        BY <3>2
      <4>2. f[i] = IF i = 0 THEN <<>>
                   ELSE IF s[i] \in W THEN Append(f[i - 1], s[i]) ELSE f[i - 1]
        BY <2>1, <4>1 DEF Keeps
      <4> QED
        BY <4>1, <4>2
    <3> QED
      BY <3>1, <3>2
  <2>3. g = [i \in 0 .. n + 1 |-> g[i]]
    OBVIOUS
  <2> HIDE DEF g
  <2>4. Keeps(g, s, W, n + 1)
    BY <2>2, <2>3 DEF Keeps
  <2> QED
    BY <2>4
<1> HIDE DEF S
<1>3. \A n \in Nat : n \in S
  BY <1>1, <1>2, Induct
<1> QED
  BY <1>3 DEF S

\* What is kept is a queue of elements that were there and are wanted; if all were
\* wanted it is as long as before, and the last element stays the last if wanted.
LEMMA KeptFacts ==
  ASSUME NEW V, NEW s \in Seq(V), NEW W
  PROVE  /\ kept(s, W) \in Seq(V)
         /\ Len(kept(s, W)) <= Len(s)
         /\ \A i \in 1 .. Len(kept(s, W)) :
              kept(s, W)[i] \in W /\ \E j \in 1 .. Len(s) : kept(s, W)[i] = s[j]
         /\ (\A j \in 1 .. Len(s) : s[j] \in W) => Len(kept(s, W)) = Len(s)
         /\ (s # <<>> /\ Last(s) \in W)
              => (kept(s, W) # <<>> /\ Last(kept(s, W)) = Last(s))
<1>0. Len(s) \in Nat
  OBVIOUS
<1> DEFINE f == CHOOSE f : Keeps(f, s, W, Len(s))
<1>1. kept(s, W) = f[Len(s)]
  BY DEF kept, Keeps
<1>2. Keeps(f, s, W, Len(s))
  BY <1>0, KeepsExists
<1> HIDE DEF f
<1>3. \A i \in 0 .. Len(s) :
        f[i] = IF i = 0 THEN <<>>
               ELSE IF s[i] \in W THEN Append(f[i - 1], s[i]) ELSE f[i - 1]
  BY <1>2 DEF Keeps
<1> DEFINE P(n) == /\ f[n] \in Seq(V)
                   /\ Len(f[n]) <= n
                   /\ \A i \in 1 .. Len(f[n]) :
                        f[n][i] \in W /\ \E j \in 1 .. n : f[n][i] = s[j]
                   /\ (\A j \in 1 .. n : s[j] \in W) => Len(f[n]) = n
           S == {n \in Nat : n <= Len(s) => P(n)}
<1>4. 0 \in S
  <2>1. f[0] = <<>>
    BY <1>0, <1>3
  <2>2. f[0] \in Seq(V) /\ Len(f[0]) = 0
    BY <2>1
  <2>3. 1 .. Len(f[0]) = {}
    BY <2>2
  <2>4. P(0)
    BY <2>2, <2>3
  <2> QED
    BY <2>4
<1>5. ASSUME NEW n \in Nat, n \in S PROVE n + 1 \in S
  <2> SUFFICES ASSUME n + 1 <= Len(s) PROVE P(n + 1)
    OBVIOUS
  <2>1. P(n)
    BY <1>0, <1>5
  <2>2. n + 1 \in 0 .. Len(s) /\ n + 1 \in 1 .. Len(s) /\ n + 1 - 1 = n /\ n + 1 # 0
    BY <1>0
  <2>3. f[n + 1] = IF s[n + 1] \in W THEN Append(f[n], s[n + 1]) ELSE f[n]
    BY <1>3, <2>2
  <2>4. s[n + 1] \in V
    BY <2>2
  <2>5. CASE s[n + 1] \in W
    <3>1. f[n + 1] = Append(f[n], s[n + 1])
      BY <2>3, <2>5
    <3>2. f[n + 1] \in Seq(V) /\ Len(f[n + 1]) = Len(f[n]) + 1
      BY <2>1, <2>4, <3>1
    <3>3. ASSUME NEW i \in 1 .. Len(f[n + 1])
          PROVE  f[n + 1][i] \in W /\ \E j \in 1 .. n + 1 : f[n + 1][i] = s[j]
      <4>1. CASE i = Len(f[n]) + 1
        <5>1. f[n + 1][i] = s[n + 1]
          BY <2>1, <3>1, <4>1
        <5> QED
          BY <2>5, <5>1
      <4>2. CASE i # Len(f[n]) + 1
        <5>1. i \in 1 .. Len(f[n]) /\ f[n + 1][i] = f[n][i]
          BY <2>1, <3>1, <3>2, <4>2
        <5>2. f[n][i] \in W /\ \E j \in 1 .. n : f[n][i] = s[j]
          BY <2>1, <5>1
        <5> QED
          BY <5>1, <5>2
      <4> QED
        BY <4>1, <4>2
    <3> QED
      BY <2>1, <3>2, <3>3
  <2>6. CASE s[n + 1] \notin W
    <3>1. f[n + 1] = f[n]
      BY <2>3, <2>6
    <3>2. n + 1 \in 1 .. n + 1
      OBVIOUS
    <3> QED
      BY <2>1, <2>6, <3>1, <3>2
  <2> QED
    BY <2>5, <2>6
<1> HIDE DEF S
<1>6. \A n \in Nat : n \in S
  BY <1>4, <1>5, Induct
<1>7. P(Len(s))
  BY <1>0, <1>6 DEF S
<1>8. ASSUME s # <<>>, Last(s) \in W
      PROVE  kept(s, W) # <<>> /\ Last(kept(s, W)) = Last(s)
  <2>1. Len(s) \in Nat \ {0} /\ Last(s) = s[Len(s)]
    BY <1>8 DEF Last
  <2>2. f[Len(s)] = Append(f[Len(s) - 1], s[Len(s)])
    <3>1. Len(s) \in 0 .. Len(s) /\ Len(s) # 0 /\ s[Len(s)] \in W
      BY <1>8, <2>1
    <3> QED
      BY <1>3, <3>1
  <2>3. Len(s) - 1 \in S /\ Len(s) - 1 \in Nat
    BY <1>6, <2>1
  <2>4. f[Len(s) - 1] \in Seq(V) /\ s[Len(s)] \in V
    BY <2>1, <2>3 DEF S
  <2>5. Append(f[Len(s) - 1], s[Len(s)]) # <<>>
        /\ Last(Append(f[Len(s) - 1], s[Len(s)])) = s[Len(s)]
    BY <2>4 DEF Last
  <2> QED
    BY <1>1, <2>1, <2>2, <2>5
<1> QED
  BY <1>1, <1>7, <1>8

\* If everything that waits came over one link, one frame less waits.
LEMMA RemoveFirstFacts ==
  ASSUME NEW V, NEW s \in Seq(V), NEW e, s # <<>>, \A i \in 1 .. Len(s) : s[i] = e
  PROVE  /\ RemoveFirst(s, e) \in Seq(V)
         /\ Len(RemoveFirst(s, e)) = Len(s) - 1
         /\ \A i \in 1 .. Len(RemoveFirst(s, e)) : RemoveFirst(s, e)[i] = e
<1>1. Len(s) \in Nat \ {0}
  OBVIOUS
<1> DEFINE I == {i \in 1 .. Len(s) : s[i] = e}
<1>2. I # {} /\ Min(I) = 1
  <2>1. I = 1 .. Len(s) /\ 1 \in I
    BY <1>1
  <2> HIDE DEF I
  <2>2. \A y \in I : 1 =< y
    BY <2>1
  <2>3. \A x \in I : (\A y \in I : x =< y) => x = 1
    <3> SUFFICES ASSUME NEW x \in I, \A y \in I : x =< y PROVE x = 1
      OBVIOUS
    <3>1. x =< 1 /\ x \in 1 .. Len(s)
      BY <2>1
    <3> QED
      BY <1>1, <3>1
  <2>4. Min(I) \in I /\ \A y \in I : Min(I) =< y
    BY <2>1, <2>2 DEF Min
  <2> QED
    BY <2>1, <2>3, <2>4
<1>3. RemoveFirst(s, e) = SubSeq(s, 1, 0) \o SubSeq(s, 2, Len(s))
  <2>1. \E i \in 1 .. Len(s) : s[i] = e
    BY <1>2
  <2>2. RemoveFirst(s, e) = SubSeq(s, 1, Min(I) - 1) \o SubSeq(s, Min(I) + 1, Len(s))
    BY <1>2, <2>1 DEF RemoveFirst, RemoveAt, SelectInSeq
  <2> HIDE DEF I
  <2> QED
    BY <1>2, <2>2
<1> HIDE DEF I
<1> DEFINE a == SubSeq(s, 1, 0)
           b == SubSeq(s, 2, Len(s))
<1>4. a \in Seq(V) /\ Len(a) = 0
  BY <1>1
<1>5. b \in Seq(V) /\ Len(b) = Len(s) - 1 /\ \A i \in 1 .. Len(b) : b[i] = s[i + 1]
  BY <1>1, HeadTailProperties, TailIsSubSeq
<1>6. \A i \in 1 .. Len(b) : b[i] = e
  <2> TAKE i \in 1 .. Len(b)
  <2>1. i + 1 \in 1 .. Len(s)
    BY <1>1, <1>5
  <2> QED
    BY <1>5, <2>1
<1> HIDE DEF a, b
<1>7. a \o b \in Seq(V) /\ Len(a \o b) = Len(b) /\ \A i \in 1 .. Len(b) : (a \o b)[i] = b[i]
  BY <1>4, <1>5
<1> QED
  BY <1>3, <1>5, <1>6, <1>7 DEF a, b

-----------------------------------------------------------------------------
(* The steps of a command.                                                 *)

StepSet ==
  [kind : {"receive", "transmit", "pressed", "muted", "testing", "start", "stop", "join",
           "discard"}, on : BOOLEAN]
    \cup [kind : {"talking", "post"}, on : {FALSE}]
    \cup [kind : {"mode"}, on : Modes]

KindsOf(s) == {s[i].kind : i \in 1 .. Len(s)}

\* The steps that turn the engine on and off.
Turns == {"start", "stop", "join"}

\* A stop is waited for, and a start is the last turn.
Orderly(s) ==
  \A i \in 1 .. Len(s) :
    /\ s[i].kind = "stop" => \E j \in i + 1 .. Len(s) : s[j].kind = "join"
    /\ s[i].kind = "start" => \A j \in i + 1 .. Len(s) : s[j].kind \notin Turns

\* The last step of this kind is one with this argument.
Ends(s, k, on) ==
  \E i \in 1 .. Len(s) :
    /\ s[i].kind = k /\ s[i].on = on
    /\ \A j \in i + 1 .. Len(s) : s[j].kind # k

\* The elements of a concatenation.
LEMMA Concat ==
  ASSUME NEW V, NEW s \in Seq(V), NEW t \in Seq(V)
  PROVE  /\ s \o t \in Seq(V)
         /\ Len(s) \in Nat /\ Len(t) \in Nat
         /\ Len(s \o t) = Len(s) + Len(t)
         /\ \A i \in 1 .. Len(s) : (s \o t)[i] = s[i]
         /\ \A i \in 1 .. Len(t) : (s \o t)[Len(s) + i] = t[i]
         /\ \A i \in Len(s) + 1 .. Len(s) + Len(t) :
              i - Len(s) \in 1 .. Len(t) /\ (s \o t)[i] = t[i - Len(s)]
  OBVIOUS

\* What kinds of steps two lists of steps have between them.
LEMMA ConcatKinds ==
  ASSUME NEW s \in Seq(StepSet), NEW t \in Seq(StepSet)
  PROVE  KindsOf(s \o t) = KindsOf(s) \cup KindsOf(t)
<1> DEFINE u == s \o t
           n == Len(s)
           m == Len(t)
<1>1. /\ n \in Nat /\ m \in Nat /\ Len(u) = n + m
      /\ \A i \in 1 .. n : u[i] = s[i]
      /\ \A i \in 1 .. m : u[n + i] = t[i]
      /\ \A i \in n + 1 .. n + m : i - n \in 1 .. m /\ u[i] = t[i - n]
  BY Concat
<1> HIDE DEF u
<1>2. ASSUME NEW k \in KindsOf(u) PROVE k \in KindsOf(s) \cup KindsOf(t)
  <2>1. PICK i \in 1 .. n + m : k = u[i].kind
    BY <1>1, <1>2 DEF KindsOf
  <2>2. CASE i \in 1 .. n
    BY <1>1, <2>1, <2>2 DEF KindsOf
  <2>3. CASE i \notin 1 .. n
    <3>1. i \in n + 1 .. n + m
      BY <1>1, <2>1, <2>3
    <3>2. i - n \in 1 .. m /\ u[i] = t[i - n]
      BY <1>1, <3>1
    <3> QED
      BY <2>1, <3>2 DEF KindsOf
  <2> QED
    BY <2>2, <2>3
<1>3. ASSUME NEW k \in KindsOf(s) PROVE k \in KindsOf(u)
  <2>1. PICK i \in 1 .. n : k = s[i].kind
    BY <1>3 DEF KindsOf
  <2>2. i \in 1 .. Len(u) /\ u[i] = s[i]
    BY <1>1
  <2> QED
    BY <2>1, <2>2 DEF KindsOf
<1>4. ASSUME NEW k \in KindsOf(t) PROVE k \in KindsOf(u)
  <2>1. PICK i \in 1 .. m : k = t[i].kind
    BY <1>4 DEF KindsOf
  <2>2. n + i \in 1 .. Len(u) /\ u[n + i] = t[i]
    BY <1>1
  <2> QED
    BY <2>1, <2>2 DEF KindsOf
<1> QED
  BY <1>2, <1>3, <1>4 DEF u

\* Two orderly lists make an orderly one if none of the second's turns follows a
\* start of the first.
LEMMA ConcatOrderly ==
  ASSUME NEW s \in Seq(StepSet), NEW t \in Seq(StepSet), Orderly(s), Orderly(t),
         "start" \notin KindsOf(s) \/ KindsOf(t) \cap Turns = {}
  PROVE  Orderly(s \o t)
<1> DEFINE u == s \o t
           n == Len(s)
           m == Len(t)
<1>1. /\ n \in Nat /\ m \in Nat /\ Len(u) = n + m
      /\ \A i \in 1 .. n : u[i] = s[i]
      /\ \A i \in 1 .. m : u[n + i] = t[i]
      /\ \A i \in n + 1 .. n + m : i - n \in 1 .. m /\ u[i] = t[i - n]
  BY Concat
<1> HIDE DEF u
<1>2. ASSUME NEW i \in 1 .. n + m, u[i].kind = "stop"
      PROVE  \E j \in i + 1 .. n + m : u[j].kind = "join"
  <2>1. CASE i \in 1 .. n
    <3>1. s[i].kind = "stop"
      BY <1>1, <1>2, <2>1
    <3>2. PICK j \in i + 1 .. n : s[j].kind = "join"
      BY <2>1, <3>1 DEF Orderly
    <3>3. j \in 1 .. n /\ j \in i + 1 .. n + m
      BY <1>1, <2>1, <3>2
    <3> QED
      BY <1>1, <3>2, <3>3
  <2>2. CASE i \notin 1 .. n
    <3>1. i \in n + 1 .. n + m
      BY <1>1, <2>2
    <3>2. i - n \in 1 .. m /\ t[i - n].kind = "stop"
      BY <1>1, <1>2, <3>1
    <3>3. PICK j \in (i - n) + 1 .. m : t[j].kind = "join"
      BY <3>2 DEF Orderly
    <3>4. j \in 1 .. m /\ n + j \in i + 1 .. n + m
      BY <1>1, <3>2, <3>3
    <3>5. u[n + j].kind = "join"
      BY <1>1, <3>3, <3>4
    <3> QED
      BY <3>4, <3>5
  <2> QED
    BY <2>1, <2>2
<1>3. ASSUME NEW i \in 1 .. n + m, u[i].kind = "start", NEW j \in i + 1 .. n + m
      PROVE  u[j].kind \notin Turns
  <2>1. CASE i \in 1 .. n
    <3>1. s[i].kind = "start"
      BY <1>1, <1>3, <2>1
    <3>2. KindsOf(t) \cap Turns = {}
      BY <2>1, <3>1 DEF KindsOf
    <3>3. CASE j \in 1 .. n
      <4>1. j \in i + 1 .. n
        BY <1>1, <3>3
      <4> QED
        BY <1>1, <2>1, <3>1, <3>3, <4>1 DEF Orderly
    <3>4. CASE j \notin 1 .. n
      <4>1. j \in n + 1 .. n + m
        BY <1>1, <3>4
      <4>2. j - n \in 1 .. m /\ u[j] = t[j - n]
        BY <1>1, <4>1
      <4> QED
        BY <3>2, <4>2 DEF KindsOf
    <3> QED
      BY <3>3, <3>4
  <2>2. CASE i \notin 1 .. n
    <3>1. i \in n + 1 .. n + m /\ j \in n + 1 .. n + m
      BY <1>1, <2>2
    <3>2. i - n \in 1 .. m /\ t[i - n].kind = "start" /\ j - n \in 1 .. m /\ u[j] = t[j - n]
      BY <1>1, <1>3, <3>1
    <3>3. j - n \in (i - n) + 1 .. m
      BY <1>1, <3>1, <3>2
    <3> QED
      BY <3>2, <3>3 DEF Orderly
  <2> QED
    BY <2>1, <2>2
<1> QED
  BY <1>1, <1>2, <1>3 DEF Orderly, u

\* How the last step of a kind is found in a concatenation.
LEMMA ConcatEnds ==
  ASSUME NEW s \in Seq(StepSet), NEW t \in Seq(StepSet), NEW k, NEW on,
         Ends(t, k, on) \/ (Ends(s, k, on) /\ k \notin KindsOf(t))
  PROVE  Ends(s \o t, k, on)
<1> DEFINE u == s \o t
           n == Len(s)
           m == Len(t)
<1>1. /\ n \in Nat /\ m \in Nat /\ Len(u) = n + m
      /\ \A i \in 1 .. n : u[i] = s[i]
      /\ \A i \in 1 .. m : u[n + i] = t[i]
      /\ \A i \in n + 1 .. n + m : i - n \in 1 .. m /\ u[i] = t[i - n]
  BY Concat
<1> HIDE DEF u
<1>2. CASE Ends(t, k, on)
  <2>1. PICK i \in 1 .. m : /\ t[i].kind = k /\ t[i].on = on
                            /\ \A j \in i + 1 .. m : t[j].kind # k
    BY <1>2 DEF Ends
  <2>2. n + i \in 1 .. n + m /\ u[n + i] = t[i]
    BY <1>1
  <2>3. ASSUME NEW j \in (n + i) + 1 .. n + m PROVE u[j].kind # k
    <3>1. j \in n + 1 .. n + m /\ j - n \in i + 1 .. m
      BY <1>1, <2>1
    <3> QED
      BY <1>1, <2>1, <3>1
  <2> QED
    BY <1>1, <2>1, <2>2, <2>3 DEF Ends, u
<1>3. CASE Ends(s, k, on) /\ k \notin KindsOf(t)
  <2>1. PICK i \in 1 .. n : /\ s[i].kind = k /\ s[i].on = on
                            /\ \A j \in i + 1 .. n : s[j].kind # k
    BY <1>3 DEF Ends
  <2>2. i \in 1 .. n + m /\ u[i] = s[i]
    BY <1>1
  <2>3. ASSUME NEW j \in i + 1 .. n + m PROVE u[j].kind # k
    <3>1. CASE j \in 1 .. n
      <4>1. j \in i + 1 .. n
        BY <1>1, <3>1
      <4> QED
        BY <1>1, <2>1, <3>1, <4>1
    <3>2. CASE j \notin 1 .. n
      <4>1. j \in n + 1 .. n + m
        BY <1>1, <2>1, <3>2
      <4>2. j - n \in 1 .. m /\ u[j] = t[j - n]
        BY <1>1, <4>1
      <4> QED
        BY <1>3, <4>2 DEF KindsOf
    <3> QED
      BY <3>1, <3>2
  <2> QED
    BY <1>1, <2>1, <2>2, <2>3 DEF Ends, u
<1> QED
  BY <1>2, <1>3

\* A list of steps with these turns in it.
Shape(s, T) == s \in Seq(StepSet) /\ Orderly(s) /\ KindsOf(s) \cap Turns = T

\* The shape of two lists of steps is that of both.
LEMMA ShapeConcat ==
  ASSUME NEW s, NEW t, NEW T, NEW U, Shape(s, T), Shape(t, U), "start" \notin T \/ U = {}
  PROVE  Shape(s \o t, T \cup U)
<1>1. s \in Seq(StepSet) /\ t \in Seq(StepSet) /\ Orderly(s) /\ Orderly(t)
  BY DEF Shape
<1>2. s \o t \in Seq(StepSet)
  BY <1>1
<1>3. KindsOf(s \o t) = KindsOf(s) \cup KindsOf(t)
  BY <1>1, ConcatKinds
<1>4. "start" \notin KindsOf(s) \/ KindsOf(t) \cap Turns = {}
  BY DEF Shape, Turns
<1>5. Orderly(s \o t)
  BY <1>1, <1>4, ConcatOrderly
<1> QED
  BY <1>2, <1>3, <1>5 DEF Shape

\* Lists without turns can be put together as one likes.
LEMMA CalmConcat ==
  ASSUME NEW s, NEW t, NEW T, Shape(s, T), Shape(t, {})
  PROVE  Shape(s \o t, T)
<1>1. Shape(s \o t, T \cup {})
  BY ShapeConcat
<1>2. T \cup {} = T
  OBVIOUS
<1> QED
  BY <1>1, <1>2

\* What follows a list without turns decides on the turns.
LEMMA CalmBefore ==
  ASSUME NEW s, NEW t, NEW T, Shape(s, {}), Shape(t, T)
  PROVE  Shape(s \o t, T)
<1>1. Shape(s \o t, {} \cup T)
  BY ShapeConcat
<1>2. {} \cup T = T
  OBVIOUS
<1> QED
  BY <1>1, <1>2

\* No steps have no turns.
LEMMA ShapeEmpty ==
  Shape(<<>>, {}) /\ KindsOf(<<>>) = {}
<1>1. <<>> \in Seq(StepSet) /\ 1 .. Len(<<>>) = {}
  OBVIOUS
<1> QED
  BY <1>1 DEF Shape, Orderly, KindsOf

\* One step.
LEMMA OneStep ==
  ASSUME NEW k, NEW on, [kind |-> k, on |-> on] \in StepSet
  PROVE  /\ Step(k, on) \in Seq(StepSet)
         /\ KindsOf(Step(k, on)) = {k}
         /\ Ends(Step(k, on), k, on)
         /\ k # "stop" => Shape(Step(k, on), {k} \cap Turns)
<1> DEFINE s == Step(k, on)
<1>1. /\ s \in Seq(StepSet) /\ Len(s) = 1 /\ 1 .. Len(s) = {1}
      /\ s[1].kind = k /\ s[1].on = on
  BY DEF Step
<1>2. 2 .. Len(s) = {} /\ 1 + 1 .. Len(s) = {}
  BY <1>1
<1> HIDE DEF s
<1>3. KindsOf(s) = {k}
  BY <1>1 DEF KindsOf
<1>4. Ends(s, k, on)
  BY <1>1, <1>2 DEF Ends
<1>5. k # "stop" => Orderly(s)
  BY <1>1, <1>2 DEF Orderly
<1> QED
  BY <1>1, <1>3, <1>4, <1>5 DEF s, Shape

\* One step that is not a turn.
LEMMA CalmStep ==
  ASSUME NEW k, NEW on, [kind |-> k, on |-> on] \in StepSet, k \notin Turns
  PROVE  Shape(Step(k, on), {}) /\ KindsOf(Step(k, on)) = {k} /\ Ends(Step(k, on), k, on)
<1>1. {k} \cap Turns = {} /\ k # "stop"
  BY DEF Turns
<1>2. /\ KindsOf(Step(k, on)) = {k} /\ Ends(Step(k, on), k, on)
      /\ Shape(Step(k, on), {k} \cap Turns)
  BY <1>1, OneStep
<1> QED
  BY <1>1, <1>2

CallType == [active : BOOLEAN, muted : BOOLEAN, testing : BOOLEAN, ptt : BOOLEAN,
             mode : Modes, running : BOOLEAN]

\* The steps that commands are made of, other than those of the engine.
LEMMA Pieces ==
  ASSUME NEW c \in CallType, NEW on \in BOOLEAN
  PROVE  /\ Shape(Receive(on), {}) /\ KindsOf(Receive(on)) = {"receive"}
         /\ Ends(Receive(on), "receive", on)
         /\ Shape(Transmit(on), {}) /\ KindsOf(Transmit(on)) = {"transmit"}
         /\ Ends(Transmit(on), "transmit", on)
         /\ Shape(Pressed(c, on), {}) /\ KindsOf(Pressed(c, on)) \subseteq {"pressed", "talking"}
         /\ Shape(Muted(on), {})
         /\ Shape(Testing(on), {})
         /\ KindsOf(Testing(on)) \subseteq {"testing", "pressed", "talking"}
<1>1. \A k \in {"receive", "transmit", "pressed", "muted", "testing"}, b \in BOOLEAN :
        [kind |-> k, on |-> b] \in StepSet /\ k \notin Turns
  BY DEF StepSet, Turns
<1>2. [kind |-> "talking", on |-> FALSE] \in StepSet /\ "talking" \notin Turns
  BY DEF StepSet, Turns
<1>3. /\ Shape(Step("talking", FALSE), {})
      /\ KindsOf(Step("talking", FALSE)) = {"talking"}
  BY <1>2, CalmStep
<1>4. \A k \in {"receive", "transmit", "pressed", "muted", "testing"}, b \in BOOLEAN :
        Shape(Step(k, b), {}) /\ KindsOf(Step(k, b)) = {k} /\ Ends(Step(k, b), k, b)
  BY <1>1, CalmStep
<1>5. \A b \in BOOLEAN : Step("pressed", b) \in Seq(StepSet) /\ Step("testing", b) \in Seq(StepSet)
  BY <1>4 DEF Shape
<1>6. Step("talking", FALSE) \in Seq(StepSet)
  BY <1>3 DEF Shape
<1>7. Shape(Receive(on), {}) /\ KindsOf(Receive(on)) = {"receive"}
      /\ Ends(Receive(on), "receive", on)
  BY <1>4 DEF Receive
<1>8. Shape(Transmit(on), {}) /\ KindsOf(Transmit(on)) = {"transmit"}
      /\ Ends(Transmit(on), "transmit", on)
  BY <1>4 DEF Transmit
<1>9. Shape(Pressed(c, on), {}) /\ KindsOf(Pressed(c, on)) \subseteq {"pressed", "talking"}
  <2> DEFINE more == IF ~on /\ c.mode = "push" THEN Step("talking", FALSE) ELSE <<>>
  <2>1. Shape(more, {}) /\ more \in Seq(StepSet) /\ KindsOf(more) \subseteq {"talking"}
    <3>1. <<>> \in Seq(StepSet)
      OBVIOUS
    <3>2. CASE ~on /\ c.mode = "push"
      <4>1. more = Step("talking", FALSE)
        BY <3>2
      <4> QED
        BY <1>3, <1>6, <4>1
    <3>3. CASE ~(~on /\ c.mode = "push")
      <4>1. more = <<>>
        BY <3>3
      <4> QED
        BY <3>1, <4>1, ShapeEmpty
    <3> QED
      BY <3>2, <3>3
  <2> HIDE DEF more
  <2>2. Shape(Step("pressed", on) \o more, {})
    BY <1>4, <2>1, CalmConcat
  <2>3. KindsOf(Step("pressed", on) \o more) = {"pressed"} \cup KindsOf(more)
    BY <1>4, <1>5, <2>1, ConcatKinds
  <2> QED
    BY <2>1, <2>2, <2>3 DEF Pressed, more
<1>10. Shape(Step("pressed", FALSE) \o Step("talking", FALSE), {})
       /\ KindsOf(Step("pressed", FALSE) \o Step("talking", FALSE)) = {"pressed", "talking"}
  <2>1. Shape(Step("pressed", FALSE) \o Step("talking", FALSE), {})
    BY <1>3, <1>4, CalmConcat
  <2>2. KindsOf(Step("pressed", FALSE) \o Step("talking", FALSE))
          = KindsOf(Step("pressed", FALSE)) \cup KindsOf(Step("talking", FALSE))
    BY <1>5, <1>6, ConcatKinds
  <2> QED
    BY <1>3, <1>4, <2>1, <2>2
<1> DEFINE more == IF on THEN Step("pressed", FALSE) \o Step("talking", FALSE) ELSE <<>>
<1>11. Shape(more, {}) /\ KindsOf(more) \subseteq {"pressed", "talking"}
  BY <1>10, ShapeEmpty
<1> HIDE DEF more
<1>12. Shape(Muted(on), {})
  <2>1. Shape(Step("muted", on) \o more, {})
    BY <1>4, <1>11, CalmConcat
  <2> QED
    BY <2>1 DEF Muted, more
<1>13. Shape(Testing(on), {}) /\ KindsOf(Testing(on)) \subseteq {"testing", "pressed", "talking"}
  <2>1. Shape(Step("testing", on) \o more, {})
    BY <1>4, <1>11, CalmConcat
  <2>2. more \in Seq(StepSet)
    BY <1>11 DEF Shape
  <2>3. KindsOf(Step("testing", on) \o more) = {"testing"} \cup KindsOf(more)
    BY <1>4, <1>5, <2>2, ConcatKinds
  <2> QED
    BY <1>11, <2>1, <2>3 DEF Testing, more
<1> QED
  BY <1>7, <1>8, <1>9, <1>12, <1>13

\* The engine is started by one step, and stopped by one that is waited for.
LEMMA EnginePieces ==
  /\ Shape(Starts, {"start"})
  /\ Shape(Stops, {"stop", "join"}) /\ KindsOf(Stops) = {"stop", "join", "talking"}
<1>1. /\ [kind |-> "start", on |-> TRUE] \in StepSet
      /\ [kind |-> "stop", on |-> FALSE] \in StepSet
      /\ [kind |-> "join", on |-> FALSE] \in StepSet
      /\ [kind |-> "talking", on |-> FALSE] \in StepSet
  BY DEF StepSet
<1>2. Shape(Starts, {"start"})
  <2>1. Shape(Step("start", TRUE), {"start"} \cap Turns) /\ {"start"} \cap Turns = {"start"}
    BY <1>1, OneStep DEF Turns
  <2> QED
    BY <2>1 DEF Starts
<1> DEFINE x == Step("stop", FALSE)
           y == Step("join", FALSE)
           a == x \o y
<1>3. /\ x \in Seq(StepSet) /\ Len(x) = 1 /\ x[1].kind = "stop"
      /\ y \in Seq(StepSet) /\ Len(y) = 1 /\ y[1].kind = "join"
  BY <1>1 DEF Step
<1> HIDE DEF x, y
<1>4. a \in Seq(StepSet) /\ Len(a) = 2 /\ a[1].kind = "stop" /\ a[2].kind = "join"
  <2>1. /\ a \in Seq(StepSet) /\ Len(a) = Len(x) + Len(y)
        /\ \A i \in 1 .. Len(x) : a[i] = x[i]
        /\ \A i \in 1 .. Len(y) : a[Len(x) + i] = y[i]
    BY <1>3, Concat
  <2>2. a[1] = x[1] /\ a[1 + 1] = y[1]
    BY <1>3, <2>1
  <2> QED
    BY <1>3, <2>1, <2>2
<1> HIDE DEF a
<1>5. KindsOf(a) = {"stop", "join"}
  <2>1. 1 .. 2 = {1, 2}
    OBVIOUS
  <2> QED
    BY <1>4, <2>1 DEF KindsOf
<1>6. Orderly(a)
  <2>1. 2 \in 1 + 1 .. 2 /\ \A i \in 1 .. 2 : i = 1 \/ i = 2
    OBVIOUS
  <2> QED
    BY <1>4, <2>1 DEF Orderly
<1>7. Shape(a, {"stop", "join"})
  BY <1>4, <1>5, <1>6 DEF Shape, Turns
<1>8. "talking" \notin Turns
  BY DEF Turns
<1>9. Shape(Step("talking", FALSE), {}) /\ KindsOf(Step("talking", FALSE)) = {"talking"}
  BY <1>1, <1>8, CalmStep
<1>10. Shape(a \o Step("talking", FALSE), {"stop", "join"})
  BY <1>7, <1>9, CalmConcat
<1>11. KindsOf(a \o Step("talking", FALSE)) = KindsOf(a) \cup KindsOf(Step("talking", FALSE))
  BY <1>4, <1>9, ConcatKinds DEF Shape
<1>12. Stops = a \o Step("talking", FALSE)
  BY DEF Stops, a, x, y
<1> QED
  BY <1>2, <1>5, <1>9, <1>10, <1>11, <1>12

-----------------------------------------------------------------------------
(* A command does what it is for, once its steps are taken.                *)

CallOK(c) == c \in CallType /\ (c.running => c.active \/ c.testing)

\* The gates end as the call needs them.
Gated(s, c) == Ends(s, "receive", c.active) /\ Ends(s, "transmit", canTransmit(c))

\* The turns take the engine from where it was to where it is to be.
Turned(s, was, is) ==
  IF "start" \in KindsOf(s) THEN is /\ (was => "join" \in KindsOf(s))
  ELSE IF "join" \in KindsOf(s) THEN ~is ELSE is <=> was

\* What the main thread plans when a command makes c of what it knows.
Proper(c, s) ==
  /\ CallOK(c)
  /\ s \in Seq(StepSet) /\ Orderly(s)
  /\ Turned(s, call.running, c.running)
  /\ Gated(s, c) \/ (s = <<>> /\ c = call)

\* Whatever precedes them, steps that set the gates set them.
LEMMA GatedConcat ==
  ASSUME NEW s \in Seq(StepSet), NEW t \in Seq(StepSet), NEW c, Gated(t, c)
  PROVE  Gated(s \o t, c)
BY ConcatEnds DEF Gated

\* updateAudioTransportGates sets both gates.
LEMMA GatesSet ==
  ASSUME NEW c \in CallType
  PROVE  Shape(gates(c), {}) /\ Gated(gates(c), c) /\ gates(c) \in Seq(StepSet)
<1> DEFINE a == c.active
           b == canTransmit(c)
<1>1. a \in BOOLEAN /\ b \in BOOLEAN
  BY DEF CallType, canTransmit
<1>2. gates(c) = Receive(a) \o Transmit(b)
  BY DEF gates
<1> HIDE DEF a, b
<1>3. /\ Shape(Receive(a), {}) /\ Ends(Receive(a), "receive", a)
      /\ Shape(Transmit(b), {}) /\ KindsOf(Transmit(b)) = {"transmit"}
      /\ Ends(Transmit(b), "transmit", b)
  BY <1>1, Pieces
<1>4. Receive(a) \in Seq(StepSet) /\ Transmit(b) \in Seq(StepSet)
  BY <1>3 DEF Shape
<1>5. Shape(Receive(a) \o Transmit(b), {})
  BY <1>3, CalmConcat
<1>6. "receive" \notin KindsOf(Transmit(b))
  BY <1>3
<1>7. /\ Ends(Receive(a) \o Transmit(b), "receive", a)
      /\ Ends(Receive(a) \o Transmit(b), "transmit", b)
  BY <1>3, <1>4, <1>6, ConcatEnds
<1> QED
  BY <1>2, <1>5, <1>7 DEF Gated, Shape, a, b

\* The turns of a list decide where it takes the engine.
LEMMA TurnedShape ==
  ASSUME NEW s, NEW T, Shape(s, T), NEW was, NEW is,
         IF "start" \in T THEN is /\ (was => "join" \in T)
         ELSE IF "join" \in T THEN ~is ELSE is <=> was
  PROVE  Turned(s, was, is)
<1>1. ("start" \in KindsOf(s) <=> "start" \in T) /\ ("join" \in KindsOf(s) <=> "join" \in T)
  BY DEF Shape, Turns
<1> QED
  BY <1>1 DEF Turned

\* A command whose last steps set the gates is proper if its turns are.
LEMMA ProperGates ==
  ASSUME NEW c, CallOK(c), NEW s, NEW T, Shape(s, T),
         IF "start" \in T THEN c.running /\ (call.running => "join" \in T)
         ELSE IF "join" \in T THEN ~c.running ELSE c.running <=> call.running
  PROVE  Proper(c, s \o gates(c))
<1>1. c \in CallType
  BY DEF CallOK
<1>2. Shape(gates(c), {}) /\ Gated(gates(c), c) /\ gates(c) \in Seq(StepSet)
  BY <1>1, GatesSet
<1>3. Shape(s \o gates(c), T)
  BY <1>2, CalmConcat
<1>4. Turned(s \o gates(c), call.running, c.running)
  BY <1>3, TurnedShape
<1>5. s \in Seq(StepSet)
  BY DEF Shape
<1>6. Gated(s \o gates(c), c)
  BY <1>2, <1>5, GatedConcat
<1> QED
  BY <1>3, <1>4, <1>6 DEF Proper, Shape

\* A command that comes to nothing is proper.
LEMMA ProperNothing ==
  ASSUME CallOK(call)
  PROVE  Proper(call, <<>>)
<1>1. Shape(<<>>, {})
  BY ShapeEmpty
<1>2. Turned(<<>>, call.running, call.running)
  BY <1>1, TurnedShape
<1> QED
  BY <1>1, <1>2 DEF Proper, Shape

\* Who leaves closes the gates, and turns the engine off unless it is tested.
LEMMA Leaving ==
  ASSUME NEW c \in CallType
  PROVE  /\ left(c) \in CallType
         /\ ~left(c).active /\ ~canTransmit(left(c))
         /\ left(c).testing = c.testing
         /\ left(c).running <=> c.running /\ c.testing
         /\ ~c.active /\ ~c.running => leave(c) = <<>>
         /\ c.active \/ c.running =>
              /\ Shape(leave(c), IF c.testing THEN {} ELSE {"stop", "join"})
              /\ Gated(leave(c), left(c))
<1>1. /\ left(c) \in CallType
      /\ ~left(c).active /\ left(c).testing = c.testing
      /\ left(c).running <=> c.running /\ c.testing
  BY DEF left, CallType
<1>2. ~canTransmit(left(c))
  BY <1>1 DEF canTransmit
<1>3. ~c.active /\ ~c.running => leave(c) = <<>>
  BY DEF leave
<1>4. ASSUME c.active \/ c.running
      PROVE  /\ Shape(leave(c), IF c.testing THEN {} ELSE {"stop", "join"})
             /\ Gated(leave(c), left(c))
  <2> DEFINE off == IF c.testing THEN <<>> ELSE Stops
             T == IF c.testing THEN {} ELSE {"stop", "join"}
             g == gates(left(c))
             p == Pressed(c, FALSE)
  <2>1. leave(c) = p \o off \o g
    BY <1>4 DEF leave
  <2>2. Shape(off, T)
    BY ShapeEmpty, EnginePieces
  <2>3. Shape(p, {})
    BY Pieces
  <2>4. Shape(g, {}) /\ Gated(g, left(c)) /\ g \in Seq(StepSet)
    BY <1>1, GatesSet
  <2> HIDE DEF off, T, g, p
  <2>5. Shape(p \o off, T)
    BY <2>2, <2>3, CalmBefore
  <2>6. Shape(p \o off \o g, T)
    BY <2>4, <2>5, CalmConcat
  <2>7. p \o off \in Seq(StepSet)
    BY <2>5 DEF Shape
  <2>8. Gated(p \o off \o g, left(c))
    BY <2>4, <2>7, GatedConcat
  <2> QED
    BY <2>1, <2>6, <2>8 DEF T
<1> QED
  BY <1>1, <1>2, <1>3, <1>4

\* Both gates closed.
LEMMA Hush ==
  LET hush == Receive(FALSE) \o Transmit(FALSE)
  IN  /\ Shape(hush, {})
      /\ Ends(hush, "receive", FALSE) /\ Ends(hush, "transmit", FALSE)
<1>1. PICK c : c \in CallType /\ ~c.active /\ FALSE \in BOOLEAN
  <2> DEFINE c == [active |-> FALSE, muted |-> FALSE, testing |-> FALSE, ptt |-> FALSE,
                   mode |-> "push", running |-> FALSE]
  <2>1. c \in CallType /\ ~c.active
    BY DEF CallType, Modes
  <2> QED
    BY <2>1
<1>2. c.active = FALSE /\ canTransmit(c) = FALSE
  BY <1>1 DEF canTransmit, CallType
<1>3. gates(c) = Receive(FALSE) \o Transmit(FALSE)
  BY <1>2 DEF gates
<1>4. Shape(gates(c), {}) /\ Gated(gates(c), c)
  BY <1>1, GatesSet
<1> QED
  BY <1>2, <1>3, <1>4 DEF Gated

\* Starting a call turns the engine on, unless a test has it running.
LEMMA StartCallProper ==
  ASSUME CallOK(call), startCall
  PROVE  \E c, s : Do(c, s) /\ Proper(c, s)
<1> DEFINE c == [call EXCEPT !.active = TRUE, !.muted = FALSE, !.running = TRUE]
           on == IF call.running THEN <<>> ELSE Starts
           T == IF call.running THEN {} ELSE {"start"}
           p == Pressed(c, FALSE)
           m == Muted(FALSE)
<1>1. Do(c, on \o p \o m \o gates(c)) \/ Do(call, <<>>)
  BY DEF startCall
<1>2. CallOK(c) /\ c \in CallType /\ c.running
  BY DEF CallOK, CallType
<1>3. Shape(on, T)
  BY ShapeEmpty, EnginePieces
<1>4. Shape(p, {}) /\ Shape(m, {})
  BY <1>2, Pieces
<1>5. IF "start" \in T THEN c.running /\ (call.running => "join" \in T)
      ELSE IF "join" \in T THEN ~c.running ELSE c.running <=> call.running
  BY <1>2
<1> HIDE DEF c, on, T, p, m
<1>6. Shape(on \o p \o m, T)
  BY <1>3, <1>4, CalmConcat
<1>7. Proper(c, on \o p \o m \o gates(c))
  BY <1>2, <1>5, <1>6, ProperGates
<1> QED
  BY <1>1, <1>7, ProperNothing

\* Leaving a call closes the gates and releases the microphone.
LEMMA LeaveCallProper ==
  ASSUME CallOK(call), leaveCall
  PROVE  \E c, s : Do(c, s) /\ Proper(c, s)
<1> DEFINE c == left(call)
           hush == Receive(FALSE) \o Transmit(FALSE)
           T == IF call.testing THEN {} ELSE {"stop", "join"}
<1>1. Do(c, hush \o leave(call)) /\ call.active
  BY DEF leaveCall
<1>2. call \in CallType
  BY DEF CallOK
<1>3. /\ c \in CallType /\ c.testing = call.testing
      /\ c.running <=> call.running /\ call.testing
      /\ Shape(leave(call), T) /\ Gated(leave(call), c)
  BY <1>1, <1>2, Leaving
<1>4. CallOK(c)
  BY <1>3 DEF CallOK
<1>5. Shape(hush, {})
  BY Hush
<1>6. call.running \in BOOLEAN /\ call.testing \in BOOLEAN
  BY <1>2 DEF CallType
<1>7. IF "start" \in T THEN c.running /\ (call.running => "join" \in T)
      ELSE IF "join" \in T THEN ~c.running ELSE c.running <=> call.running
  BY <1>3, <1>6
<1> HIDE DEF c, T, hush
<1>8. Shape(hush \o leave(call), T)
  BY <1>3, <1>5, CalmBefore
<1>9. Turned(hush \o leave(call), call.running, c.running)
  BY <1>7, <1>8, TurnedShape
<1>10. hush \in Seq(StepSet) /\ leave(call) \in Seq(StepSet)
  BY <1>3, <1>5 DEF Shape
<1>11. Gated(hush \o leave(call), c)
  BY <1>3, <1>10, GatedConcat
<1>12. Proper(c, hush \o leave(call))
  BY <1>4, <1>8, <1>9, <1>11 DEF Proper, Shape
<1> QED
  BY <1>1, <1>12

\* Muting touches nothing but the flags and the gates.
LEMMA SetMutedProper ==
  ASSUME CallOK(call), NEW on \in BOOLEAN, setMuted(on)
  PROVE  \E c, s : Do(c, s) /\ Proper(c, s)
<1> DEFINE c == [call EXCEPT !.muted = on, !.ptt = @ /\ ~on]
           first == IF on THEN Transmit(FALSE) \o Pressed(c, FALSE) ELSE <<>>
           m == Muted(on)
<1>1. Do(c, first \o m \o gates(c) \o gates(c))
  BY DEF setMuted
<1>2. CallOK(c) /\ c \in CallType /\ (c.running <=> call.running)
  BY DEF CallOK, CallType
<1>3. Shape(Transmit(FALSE), {}) /\ Shape(Pressed(c, FALSE), {}) /\ Shape(m, {})
  BY <1>2, Pieces
<1>4. Shape(first, {})
  BY <1>3, CalmConcat, ShapeEmpty
<1>5. Shape(gates(c), {})
  BY <1>2, GatesSet
<1> HIDE DEF c, first, m
<1>6. Shape(first \o m \o gates(c), {})
  BY <1>3, <1>4, <1>5, CalmConcat
<1>7. Proper(c, first \o m \o gates(c) \o gates(c))
  BY <1>2, <1>6, ProperGates
<1> QED
  BY <1>1, <1>7

\* The key does not touch the engine's turns either.
LEMMA SetPttPressedProper ==
  ASSUME CallOK(call), NEW on \in BOOLEAN, setPttPressed(on)
  PROVE  \E c, s : Do(c, s) /\ Proper(c, s)
<1> DEFINE c == [call EXCEPT !.ptt = on /\ call.active /\ ~call.muted /\ ~call.testing]
           first == IF c.ptt THEN <<>> ELSE Transmit(FALSE)
           p == Pressed(c, c.ptt)
<1>1. Do(c, first \o p \o gates(c))
  BY DEF setPttPressed
<1>2. CallOK(c) /\ c \in CallType /\ (c.running <=> call.running)
  BY DEF CallOK, CallType
<1>3. c.ptt \in BOOLEAN
  BY <1>2 DEF CallType
<1>4. Shape(Transmit(FALSE), {}) /\ Shape(p, {})
  BY <1>2, <1>3, Pieces
<1>5. Shape(first, {})
  BY <1>4, ShapeEmpty
<1> HIDE DEF c, first, p
<1>6. Shape(first \o p, {})
  BY <1>4, <1>5, CalmConcat
<1>7. Proper(c, first \o p \o gates(c))
  BY <1>2, <1>6, ProperGates
<1> QED
  BY <1>1, <1>7

\* A test starts the engine if it does not run, and stops it if nothing else does.
LEMMA SetMicrophoneTestProper ==
  ASSUME CallOK(call), NEW on \in BOOLEAN, setMicrophoneTest(on)
  PROVE  \E c, s : Do(c, s) /\ Proper(c, s)
<1> DEFINE quiet == [call EXCEPT !.ptt = @ /\ ~on]
           hush == IF on THEN Transmit(FALSE) ELSE <<>>
           c == tested(quiet, on)
           starts == IF on /\ ~call.running THEN Starts ELSE <<>>
           stops == IF call.running /\ ~c.running THEN Stops ELSE <<>>
           p == Pressed(c, FALSE)
           t == Testing(on)
           A == IF on /\ ~call.running THEN {"start"} ELSE {}
           B == IF call.running /\ ~c.running THEN {"stop", "join"} ELSE {}
<1>1. \/ Do(quiet, hush \o gates(quiet))
      \/ Do(c, hush \o starts \o p \o t \o stops \o gates(c))
  BY DEF setMicrophoneTest
<1>2. CallOK(quiet) /\ quiet \in CallType /\ (quiet.running <=> call.running)
  BY DEF CallOK, CallType
<1>3. /\ c \in CallType /\ CallOK(c) /\ (on => c.running)
      /\ c.running => on \/ call.running
  BY <1>2, ZenonT(30) DEF tested, CallOK, CallType
<1>4. call.running \in BOOLEAN /\ c.running \in BOOLEAN
  BY <1>3 DEF CallOK, CallType
<1>5. Shape(hush, {})
  BY <1>2, Pieces, ShapeEmpty
<1>6. Shape(starts, A) /\ Shape(stops, B)
  BY EnginePieces, ShapeEmpty
<1>7. Shape(p, {}) /\ Shape(t, {})
  BY <1>3, Pieces
<1>8. A = {} \/ B = {}
  BY <1>3, <1>4
<1>9. "start" \notin A \/ B = {}
  BY <1>8
<1>10. IF "start" \in A \cup B THEN c.running /\ (call.running => "join" \in A \cup B)
       ELSE IF "join" \in A \cup B THEN ~c.running ELSE c.running <=> call.running
  BY <1>3, <1>4
<1> HIDE DEF quiet, hush, c, starts, stops, p, t, A, B
<1>11. Proper(quiet, hush \o gates(quiet))
  BY <1>2, <1>5, ProperGates
<1>12. Shape(hush \o starts \o p \o t, A)
  BY <1>5, <1>6, <1>7, CalmBefore, CalmConcat
<1>13. Shape(hush \o starts \o p \o t \o stops, A \cup B)
  BY <1>6, <1>9, <1>12, ShapeConcat
<1>14. Proper(c, hush \o starts \o p \o t \o stops \o gates(c))
  BY <1>3, <1>10, <1>13, ProperGates
<1> QED
  BY <1>1, <1>11, <1>14

\* New preferences stop a running engine, and start it again if that works.
LEMMA ApplyPreferencesProper ==
  ASSUME CallOK(call), NEW mode \in Modes, applyPreferences(mode)
  PROVE  \E c, s : Do(c, s) /\ Proper(c, s)
<1> DEFINE quiet == [call EXCEPT !.ptt = FALSE]
           hush == Transmit(FALSE) \o Pressed(call, FALSE)
           to == <<[kind |-> "mode", on |-> mode]>>
           new == [quiet EXCEPT !.mode = mode]
           dead == [quiet EXCEPT !.running = FALSE]
<1>1. \/ call.running /\ Do(new, hush \o Stops \o to \o Starts \o gates(new))
      \/ call.running /\ Do(quiet, hush \o Stops \o Starts \o gates(quiet))
      \/ call.running /\ Do(dead, hush \o Stops \o gates(dead))
      \/ ~call.running /\ Do(new, hush \o to \o gates(new))
      \/ ~call.running /\ Do(quiet, hush \o gates(quiet))
  BY DEF applyPreferences
<1>2. call \in CallType
  BY DEF CallOK
<1>3. /\ CallOK(quiet) /\ (quiet.running <=> call.running)
      /\ CallOK(new) /\ (new.running <=> call.running)
      /\ CallOK(dead) /\ ~dead.running
  BY DEF CallOK, CallType
<1>4. Shape(Transmit(FALSE), {}) /\ Shape(Pressed(call, FALSE), {})
  BY <1>2, Pieces
<1>5. Shape(hush, {})
  BY <1>4, CalmConcat
<1>6. Shape(to, {})
  <2>1. [kind |-> "mode", on |-> mode] \in StepSet /\ "mode" \notin Turns
    BY DEF StepSet, Turns
  <2>2. Shape(Step("mode", mode), {})
    BY <2>1, CalmStep
  <2> QED
    BY <2>2 DEF Step
<1> HIDE DEF quiet, hush, to, new, dead
<1> DEFINE Off == {"stop", "join"}
           OffOn == Off \cup {"start"}
<1>7. Shape(hush \o Stops, Off) /\ "start" \notin Off
  BY <1>5, EnginePieces, CalmBefore
<1>8. Shape(Starts, {"start"})
  BY EnginePieces
<1>9. "start" \in OffOn /\ "join" \in OffOn /\ "join" \in Off
  OBVIOUS
<1> HIDE DEF Off, OffOn
<1>10. Shape(hush \o Stops \o Starts, OffOn)
  BY <1>7, <1>8, ShapeConcat DEF OffOn
<1>11. Shape(hush \o Stops \o to, Off)
  BY <1>6, <1>7, CalmConcat
<1>12. Shape(hush \o Stops \o to \o Starts, OffOn)
  BY <1>7, <1>8, <1>11, ShapeConcat DEF OffOn
<1>13. Shape(hush \o to, {})
  BY <1>5, <1>6, CalmConcat
<1>14. ASSUME call.running PROVE Proper(new, hush \o Stops \o to \o Starts \o gates(new))
  BY <1>3, <1>9, <1>12, <1>14, ProperGates
<1>15. ASSUME call.running PROVE Proper(quiet, hush \o Stops \o Starts \o gates(quiet))
  BY <1>3, <1>9, <1>10, <1>15, ProperGates
<1>16. Proper(dead, hush \o Stops \o gates(dead))
  BY <1>3, <1>7, <1>9, ProperGates
<1>17. Proper(new, hush \o to \o gates(new))
  BY <1>3, <1>13, ProperGates
<1>18. Proper(quiet, hush \o gates(quiet))
  BY <1>3, <1>5, ProperGates
<1> QED
  BY <1>1, <1>14, <1>15, <1>16, <1>17, <1>18

\* Leaving the mesh ends the call and the test, and stops the engine in any case.
LEMMA LeaveMeshProper ==
  ASSUME CallOK(call), leaveMesh
  PROVE  \E c, s : Do(c, s) /\ Proper(c, s)
<1> DEFINE hush == Receive(FALSE) \o Transmit(FALSE)
           out == left(call)
           clear == [out EXCEPT !.testing = FALSE]
           off == [clear EXCEPT !.running = FALSE]
           discard == Step("discard", FALSE)
           p == Pressed(clear, FALSE)
           t == Testing(FALSE)
           before == hush \o leave(call) \o discard
           closed == before \o hush \o p \o t
           steps == closed \o leave(clear) \o Stops
           T == {"stop", "join"}
<1>1. Do(off, steps)
  BY DEF leaveMesh
<1>2. call \in CallType
  BY DEF CallOK
<1>3. out \in CallType /\ ~out.active
  BY <1>2, Leaving
<1>4. /\ clear \in CallType /\ ~clear.active /\ clear.testing = FALSE
      /\ off \in CallType /\ off.active = FALSE /\ ~off.running
  BY <1>3 DEF CallType
<1>5. CallOK(off) /\ canTransmit(off) = FALSE
  BY <1>4 DEF CallOK, canTransmit
<1>6. /\ Shape(hush, {}) /\ hush \in Seq(StepSet)
      /\ Ends(hush, "receive", FALSE) /\ Ends(hush, "transmit", FALSE)
  BY Hush DEF Shape
<1>7. Shape(discard, {})
  <2>1. [kind |-> "discard", on |-> FALSE] \in StepSet /\ "discard" \notin Turns
    BY DEF StepSet, Turns
  <2> QED
    BY <2>1, CalmStep
<1>8. /\ Shape(p, {}) /\ Shape(t, {}) /\ p \in Seq(StepSet) /\ t \in Seq(StepSet)
      /\ KindsOf(p) \subseteq {"pressed", "talking"}
      /\ KindsOf(t) \subseteq {"testing", "pressed", "talking"}
  BY <1>4, Pieces DEF Shape
<1>9. /\ Shape(Stops, T) /\ Stops \in Seq(StepSet)
      /\ KindsOf(Stops) = {"stop", "join", "talking"} /\ "start" \notin T /\ T \cup T = T
  BY EnginePieces DEF Shape
<1>10. Shape(leave(call), {}) \/ Shape(leave(call), T)
  <2>1. CASE call.active \/ call.running
    BY <1>2, <2>1, Leaving
  <2>2. CASE ~(call.active \/ call.running)
    BY <1>2, <2>2, Leaving, ShapeEmpty
  <2> QED
    BY <2>1, <2>2
<1>11. \/ Shape(leave(clear), {}) /\ KindsOf(leave(clear)) = {}
       \/ /\ Shape(leave(clear), T)
          /\ Ends(leave(clear), "receive", FALSE) /\ Ends(leave(clear), "transmit", FALSE)
  <2>1. CASE clear.active \/ clear.running
    <3>1. /\ Shape(leave(clear), T) /\ Gated(leave(clear), left(clear))
          /\ left(clear) \in CallType /\ ~left(clear).active /\ ~canTransmit(left(clear))
      BY <1>4, <2>1, Leaving
    <3>2. left(clear).active = FALSE /\ canTransmit(left(clear)) = FALSE
      BY <3>1 DEF CallType, canTransmit
    <3> QED
      BY <3>1, <3>2 DEF Gated
  <2>2. CASE ~(clear.active \/ clear.running)
    <3>1. leave(clear) = <<>>
      BY <1>4, <2>2, Leaving
    <3> QED
      BY <3>1, ShapeEmpty
  <2> QED
    BY <2>1, <2>2
<1>12. leave(clear) \in Seq(StepSet)
  BY <1>11 DEF Shape
<1> HIDE DEF hush, out, clear, off, discard, p, t, T
<1>13. Shape(before, {}) \/ Shape(before, T)
  BY <1>6, <1>7, <1>10, CalmBefore, CalmConcat
<1>14. before \in Seq(StepSet)
  BY <1>13 DEF Shape
<1> HIDE DEF before
<1>15. Shape(closed, {}) \/ Shape(closed, T)
  BY <1>6, <1>8, <1>13, CalmConcat
<1>16. Ends(closed, "receive", FALSE) /\ Ends(closed, "transmit", FALSE)
  <2>1. before \o hush \in Seq(StepSet) /\ before \o hush \o p \in Seq(StepSet)
    BY <1>6, <1>8, <1>14
  <2>2. "receive" \notin KindsOf(p) /\ "transmit" \notin KindsOf(p)
    BY <1>8
  <2>3. "receive" \notin KindsOf(t) /\ "transmit" \notin KindsOf(t)
    BY <1>8
  <2>4. Ends(before \o hush, "receive", FALSE) /\ Ends(before \o hush, "transmit", FALSE)
    BY <1>6, <1>14, ConcatEnds
  <2>5. Ends(before \o hush \o p, "receive", FALSE) /\ Ends(before \o hush \o p, "transmit", FALSE)
    BY <1>8, <2>1, <2>2, <2>4, ConcatEnds
  <2> QED
    BY <1>8, <2>1, <2>3, <2>5, ConcatEnds
<1>17. closed \in Seq(StepSet)
  BY <1>15 DEF Shape
<1> HIDE DEF closed
<1>18. Shape(closed \o leave(clear), {}) \/ Shape(closed \o leave(clear), T)
  <2>1. CASE Shape(leave(clear), {})
    BY <1>15, <2>1, CalmConcat
  <2>2. CASE Shape(closed, {})
    BY <1>11, <2>2, CalmBefore, CalmConcat
  <2>3. CASE Shape(closed, T) /\ Shape(leave(clear), T)
    <3>1. Shape(closed \o leave(clear), T \cup T)
      BY <1>9, <2>3, ShapeConcat
    <3> QED
      BY <1>9, <3>1
  <2> QED
    BY <1>11, <1>15, <2>1, <2>2, <2>3
<1>19. Ends(closed \o leave(clear), "receive", FALSE) /\ Ends(closed \o leave(clear), "transmit", FALSE)
  BY <1>11, <1>12, <1>16, <1>17, ConcatEnds
<1>20. closed \o leave(clear) \in Seq(StepSet)
  BY <1>18 DEF Shape
<1>21. Shape(steps, T)
  BY <1>9, <1>18, CalmBefore, ShapeConcat
<1>22. "receive" \notin KindsOf(Stops) /\ "transmit" \notin KindsOf(Stops)
  BY <1>9
<1>23. Ends(steps, "receive", FALSE) /\ Ends(steps, "transmit", FALSE)
  BY <1>9, <1>19, <1>20, <1>22, ConcatEnds
<1> HIDE DEF steps
<1>24. Gated(steps, off)
  BY <1>4, <1>5, <1>23 DEF Gated
<1>25. "join" \in T
  BY DEF T
<1>26. Turned(steps, call.running, off.running)
  BY <1>4, <1>9, <1>21, <1>25, TurnedShape
<1>27. Proper(off, steps)
  BY <1>5, <1>21, <1>24, <1>26 DEF Proper, Shape
<1> QED
  BY <1>1, <1>27

\* Whatever the user does, the main thread's plan is proper.
LEMMA UserIsProper ==
  ASSUME CallOK(call), User
  PROVE  \E c, s : Do(c, s) /\ Proper(c, s)
<1>1. CASE startCall
  BY <1>1, StartCallProper
<1>2. CASE leaveCall
  BY <1>2, LeaveCallProper
<1>3. CASE leaveMesh
  BY <1>3, LeaveMeshProper
<1>4. CASE \E on \in BOOLEAN : setMuted(on)
  BY <1>4, SetMutedProper
<1>5. CASE \E on \in BOOLEAN : setMicrophoneTest(on)
  BY <1>5, SetMicrophoneTestProper
<1>6. CASE \E on \in BOOLEAN : setPttPressed(on)
  BY <1>6, SetPttPressedProper
<1>7. CASE \E mode \in Modes : applyPreferences(mode)
  BY <1>7, ApplyPreferencesProper
<1> QED
  BY <1>1, <1>2, <1>3, <1>4, <1>5, <1>6, <1>7 DEF User

-----------------------------------------------------------------------------
(* The invariant.                                                          *)

EngineType == [muted : BOOLEAN, testing : BOOLEAN, pressed : BOOLEAN, talking : BOOLEAN,
               mode : Modes]

LoopType ==
  [pc : {"gone", "head", "talk", "post", "encode"}, stopping : BOOLEAN,
   half : 0 .. 2, should : BOOLEAN, leak : {FALSE}, hang : 0 .. Hangover,
   now : BOOLEAN, off : BOOLEAN, winding : BOOLEAN]

CarrierType == [pc : {"wait", "receive", "handing", "transmit", "sending"}, in : Seq(Links),
                out : Seq(BOOLEAN), to : Links \cup {NoLink}]

Planned(s) == s \in Seq(StepSet) /\ Orderly(s)

\* Nothing unwanted is in a frame, and a worker that winds up tells of silence.
LoopOK(lp) ==
  /\ lp \in LoopType
  /\ lp.pc = "head" => lp.half # 2
  /\ lp.pc = "talk" \/ (lp.pc = "post" /\ ~lp.winding) => lp.half # 0
  /\ lp.winding => lp.pc = "post" /\ lp.stopping /\ lp.now = FALSE

\* Nobody talks once the worker is gone, or has said its last.
Silent(lp, talking) == lp.winding \/ lp.pc = "gone" => talking = FALSE

\* The turns ahead take the worker to where the session believes it is.
OnTurn(s, running, lp) ==
  IF "start" \in KindsOf(s) THEN running /\ ("join" \notin KindsOf(s) => lp = NoLoop)
  ELSE IF "join" \in KindsOf(s) THEN ~running
  ELSE IF running THEN lp.pc # "gone" /\ ~lp.stopping ELSE lp = NoLoop

\* A gate is, or is going to be, as the call needs it.
Agrees(s, k, on, was) == Ends(s, k, on) \/ (k \notin KindsOf(s) /\ was = on)

GatesOK(s, c, g) ==
  /\ g \in [receive : BOOLEAN, transmit : BOOLEAN]
  /\ Agrees(s, "receive", c.active, g.receive)
  /\ Agrees(s, "transmit", canTransmit(c), g.transmit)

\* Frames pass a gate only while it is open.
CarrierOK(cr, g) ==
  /\ cr \in CarrierType
  /\ cr.pc = "handing" => cr.in # <<>> /\ g.receive
  /\ cr.pc = "sending" => cr.out # <<>> /\ g.transmit

\* What waits is wanted, no more than there is room for.
IncomingOK(q, open) ==
  /\ q \in Seq(Links) /\ Len(q) <= MaxIncoming
  /\ open \in Seq(Links)
  /\ \A i \in 1 .. Len(q) : open # <<>> /\ q[i] = Last(open)

OutgoingOK(q) ==
  q \in Seq(BOOLEAN) /\ Len(q) <= MaxOutgoing /\ \A i \in 1 .. Len(q) : q[i] = FALSE

\* The indicator is right, or an event is on its way that will put it right.
Telling(s, lp, ps, talking, sh) ==
  \/ sh = talking
  \/ \E i \in 1 .. Len(ps) : ps[i] = talking
  \/ lp.pc = "post" /\ lp.now = talking
  \/ talking = FALSE /\ "post" \in KindsOf(s)

Inv ==
  /\ CallOK(call)
  /\ Planned(todo)
  /\ engine \in EngineType /\ posted \in Seq(BOOLEAN) /\ shown \in BOOLEAN
  /\ LoopOK(loop)
  /\ Silent(loop, engine.talking)
  /\ OnTurn(todo, call.running, loop)
  /\ GatesOK(todo, call, gate)
  /\ CarrierOK(carrier, gate)
  /\ IncomingOK(incoming, routes)
  /\ OutgoingOK(outgoing)
  /\ Telling(todo, loop, posted, engine.talking, shown)
  /\ commands \in 0 .. MaxCommands /\ changes \in 0 .. MaxChanges

\* What is left of a plan when its first step is taken.
LEMMA Taken ==
  ASSUME NEW s, Planned(s), s # <<>>
  PROVE  /\ Head(s) \in StepSet /\ Planned(Tail(s))
         /\ KindsOf(s) = {Head(s).kind} \cup KindsOf(Tail(s))
         /\ Head(s).kind = "stop" => "join" \in KindsOf(Tail(s))
         /\ Head(s).kind = "start" => KindsOf(Tail(s)) \cap Turns = {}
         /\ \A k, on : Ends(s, k, on) =>
              \/ Ends(Tail(s), k, on)
              \/ k \notin KindsOf(Tail(s)) /\ Head(s).kind = k /\ Head(s).on = on
<1> DEFINE h == Head(s)
           r == Tail(s)
           n == Len(r)
<1>0. s \in Seq(StepSet) /\ Orderly(s)
  BY DEF Planned
<1>1. h \in StepSet /\ r \in Seq(StepSet) /\ n \in Nat /\ Len(s) = n + 1 /\ s[1] = h
      /\ \A i \in 1 .. n : r[i] = s[i + 1]
  BY <1>0, HeadTailProperties
<1> HIDE DEF h, r
<1>2. \A i \in 2 .. n + 1 : i - 1 \in 1 .. n /\ s[i] = r[i - 1]
  <2> TAKE i \in 2 .. n + 1
  <2>1. i - 1 \in 1 .. n /\ (i - 1) + 1 = i
    BY <1>1
  <2> QED
    BY <1>1, <2>1
<1>3. KindsOf(s) = {h.kind} \cup KindsOf(r)
  <2>1. ASSUME NEW k \in KindsOf(s) PROVE k \in {h.kind} \cup KindsOf(r)
    <3>1. PICK i \in 1 .. n + 1 : k = s[i].kind
      BY <1>1, <2>1 DEF KindsOf
    <3>2. CASE i = 1
      BY <1>1, <3>1, <3>2
    <3>3. CASE i # 1
      <4>1. i \in 2 .. n + 1
        BY <1>1, <3>3
      <4>2. i - 1 \in 1 .. n /\ s[i] = r[i - 1]
        BY <1>2, <4>1
      <4> QED
        BY <3>1, <4>2 DEF KindsOf
    <3> QED
      BY <3>2, <3>3
  <2>2. h.kind \in KindsOf(s)
    <3>1. 1 \in 1 .. Len(s)
      BY <1>1
    <3> QED
      BY <1>1, <3>1 DEF KindsOf
  <2>3. ASSUME NEW k \in KindsOf(r) PROVE k \in KindsOf(s)
    <3>1. PICK i \in 1 .. n : k = r[i].kind
      BY <2>3 DEF KindsOf
    <3>2. i + 1 \in 1 .. Len(s) /\ r[i] = s[i + 1]
      BY <1>1
    <3> QED
      BY <3>1, <3>2 DEF KindsOf
  <2> QED
    BY <2>1, <2>2, <2>3
<1>4. ASSUME NEW i \in 1 .. n, NEW j \in (i + 1) + 1 .. n + 1
      PROVE  j - 1 \in i + 1 .. n /\ s[j] = r[j - 1]
  <2>1. j \in 2 .. n + 1 /\ j - 1 \in i + 1 .. n
    BY <1>1
  <2> QED
    BY <1>2, <2>1
<1>5. Orderly(r)
  <2>1. ASSUME NEW i \in 1 .. n, r[i].kind = "stop"
        PROVE  \E j \in i + 1 .. n : r[j].kind = "join"
    <3>1. i + 1 \in 1 .. Len(s) /\ s[i + 1].kind = "stop"
      BY <1>1, <2>1
    <3>2. PICK j \in (i + 1) + 1 .. Len(s) : s[j].kind = "join"
      BY <1>0, <3>1 DEF Orderly
    <3> QED
      BY <1>1, <1>4, <3>2
  <2>2. ASSUME NEW i \in 1 .. n, r[i].kind = "start", NEW j \in i + 1 .. n
        PROVE  r[j].kind \notin Turns
    <3>1. i + 1 \in 1 .. Len(s) /\ s[i + 1].kind = "start"
      BY <1>1, <2>2
    <3>2. j + 1 \in (i + 1) + 1 .. Len(s) /\ j \in 1 .. n
      BY <1>1
    <3>3. s[j + 1].kind \notin Turns
      BY <1>0, <3>1, <3>2 DEF Orderly
    <3> QED
      BY <1>1, <3>2, <3>3
  <2> QED
    BY <2>1, <2>2 DEF Orderly
<1>6. 1 \in 1 .. Len(s) /\ \A j \in 1 + 1 .. Len(s) : j - 1 \in 1 .. n /\ s[j] = r[j - 1]
  BY <1>1, <1>2
<1>7. ASSUME h.kind = "stop" PROVE "join" \in KindsOf(r)
  <2>1. PICK j \in 1 + 1 .. Len(s) : s[j].kind = "join"
    BY <1>0, <1>1, <1>6, <1>7 DEF Orderly
  <2>2. j - 1 \in 1 .. n /\ r[j - 1].kind = "join"
    BY <1>6, <2>1
  <2> QED
    BY <2>2 DEF KindsOf
<1>8. ASSUME h.kind = "start", NEW k \in KindsOf(r) PROVE k \notin Turns
  <2>1. PICK i \in 1 .. n : k = r[i].kind
    BY <1>8 DEF KindsOf
  <2>2. i + 1 \in 1 + 1 .. Len(s) /\ s[i + 1] = r[i]
    BY <1>1
  <2> QED
    BY <1>0, <1>1, <1>6, <1>8, <2>1, <2>2 DEF Orderly
<1>9. ASSUME NEW k, NEW on, Ends(s, k, on)
      PROVE  Ends(r, k, on) \/ (k \notin KindsOf(r) /\ h.kind = k /\ h.on = on)
  <2>1. PICK i \in 1 .. Len(s) : /\ s[i].kind = k /\ s[i].on = on
                                 /\ \A j \in i + 1 .. Len(s) : s[j].kind # k
    BY <1>9 DEF Ends
  <2>2. CASE i = 1
    <3>1. h.kind = k /\ h.on = on
      BY <1>1, <2>1, <2>2
    <3>2. ASSUME NEW j \in 1 .. n PROVE r[j].kind # k
      <4>1. j + 1 \in i + 1 .. Len(s) /\ r[j] = s[j + 1]
        BY <1>1, <2>2
      <4> QED
        BY <2>1, <4>1
    <3> QED
      BY <3>1, <3>2 DEF KindsOf
  <2>3. CASE i # 1
    <3>1. i \in 2 .. n + 1
      BY <1>1, <2>3
    <3>2. i - 1 \in 1 .. n /\ r[i - 1].kind = k /\ r[i - 1].on = on
      BY <1>2, <2>1, <3>1
    <3>3. ASSUME NEW j \in (i - 1) + 1 .. n PROVE r[j].kind # k
      <4>1. j + 1 \in i + 1 .. Len(s) /\ j \in 1 .. n
        BY <1>1, <3>1
      <4> QED
        BY <1>1, <2>1, <4>1
    <3> QED
      BY <3>2, <3>3 DEF Ends
  <2> QED
    BY <2>2, <2>3
<1> QED
  BY <1>1, <1>3, <1>5, <1>7, <1>8, <1>9 DEF h, r, Planned

\* A step that is not a turn leaves the engine to the turns behind it.
LEMMA TakenOnTurn ==
  ASSUME NEW s, Planned(s), s # <<>>, Head(s).kind \notin Turns, NEW running, NEW lp,
         OnTurn(s, running, lp)
  PROVE  OnTurn(Tail(s), running, lp)
<1>1. KindsOf(s) = {Head(s).kind} \cup KindsOf(Tail(s))
  BY Taken
<1>2. /\ "start" \in KindsOf(s) <=> "start" \in KindsOf(Tail(s))
      /\ "join" \in KindsOf(s) <=> "join" \in KindsOf(Tail(s))
  BY <1>1 DEF Turns
<1> QED
  BY <1>2 DEF OnTurn

\* A step that does not set a gate leaves it to the steps behind it.
LEMMA TakenAgrees ==
  ASSUME NEW s, Planned(s), s # <<>>, NEW k, Head(s).kind # k, NEW on, NEW was,
         Agrees(s, k, on, was)
  PROVE  Agrees(Tail(s), k, on, was)
BY Taken DEF Agrees

\* The last step that sets a gate sets it for good.
LEMMA TakenSets ==
  ASSUME NEW s, Planned(s), s # <<>>, NEW on, NEW was, Agrees(s, Head(s).kind, on, was)
  PROVE  Agrees(Tail(s), Head(s).kind, on, Head(s).on)
BY Taken DEF Agrees

\* A step that is not an announcement leaves those behind it.
LEMMA TakenTelling ==
  ASSUME NEW s, Planned(s), s # <<>>, Head(s).kind # "post", NEW lp, NEW ps, NEW talking,
         NEW sh, Telling(s, lp, ps, talking, sh)
  PROVE  Telling(Tail(s), lp, ps, talking, sh)
<1>1. KindsOf(s) = {Head(s).kind} \cup KindsOf(Tail(s))
  BY Taken
<1> QED
  BY <1>1 DEF Telling

-----------------------------------------------------------------------------
(* The steps keep it.                                                      *)

\* The worker before its first chunk, and when it is gone.
LEMMA RestLoops ==
  /\ LoopOK(FreshLoop) /\ FreshLoop.pc = "head" /\ ~FreshLoop.stopping /\ ~FreshLoop.winding
  /\ LoopOK(NoLoop) /\ NoLoop.pc = "gone" /\ ~NoLoop.winding /\ ~NoLoop.stopping
<1>1. 0 \in 0 .. 2 /\ 0 \in 0 .. Hangover
  BY VoiceAssumption
<1>2. FreshLoop = [pc |-> "head", stopping |-> FALSE, half |-> 0, should |-> FALSE,
                   leak |-> FALSE, hang |-> 0, now |-> FALSE, off |-> FALSE,
                   winding |-> FALSE]
  BY DEF FreshLoop
<1>4. LoopOK(FreshLoop) /\ FreshLoop.pc = "head" /\ ~FreshLoop.stopping
      /\ ~FreshLoop.winding
  BY <1>1, <1>2 DEF LoopOK, LoopType
<1>5. LoopOK(NoLoop) /\ NoLoop.pc = "gone" /\ ~NoLoop.winding /\ ~NoLoop.stopping
  <2> DEFINE S == LoopType
  <2>1. FreshLoop \in S
    BY <1>4 DEF LoopOK, LoopType
  <2> HIDE DEF FreshLoop
  <2>2. NoLoop \in S /\ NoLoop.pc = "gone" /\ NoLoop.winding = FreshLoop.winding
        /\ NoLoop.stopping = FreshLoop.stopping
    BY <2>1 DEF NoLoop, LoopType
  <2> QED
    BY <1>4, <2>2 DEF LoopOK, LoopType
<1> QED
  BY <1>4, <1>5

\* At first nothing runs, waits or is planned.
LEMMA InitInv == Init => Inv
<1> SUFFICES ASSUME Init PROVE Inv
  OBVIOUS
<1>1. PICK mode \in Modes :
        /\ call = [active |-> FALSE, muted |-> FALSE, testing |-> FALSE, ptt |-> FALSE,
                   mode |-> mode, running |-> FALSE]
        /\ engine = [muted |-> FALSE, testing |-> FALSE, pressed |-> FALSE,
                     talking |-> FALSE, mode |-> mode]
  BY DEF Init
<1>2. CallOK(call) /\ engine \in EngineType /\ call.active = FALSE /\ call.running = FALSE
      /\ canTransmit(call) = FALSE /\ engine.talking = FALSE
  BY <1>1 DEF CallOK, CallType, EngineType, canTransmit
<1>3. todo = <<>> /\ KindsOf(todo) = {} /\ Planned(todo)
  BY ShapeEmpty DEF Init, Shape, Planned
<1>4. LoopOK(loop) /\ Silent(loop, engine.talking) /\ loop = NoLoop
  <2>1. loop = NoLoop
    BY DEF Init
  <2> QED
    BY <1>2, <2>1, RestLoops DEF Silent
<1>5. OnTurn(todo, call.running, loop)
  BY <1>2, <1>3, <1>4 DEF OnTurn
<1>6. GatesOK(todo, call, gate)
  BY <1>2, <1>3 DEF GatesOK, Agrees, Init
<1>7. CarrierOK(carrier, gate)
  <2>1. carrier = [pc |-> "wait", in |-> <<>>, out |-> <<>>, to |-> NoLink]
    BY DEF Init
  <2> QED
    BY <2>1 DEF CarrierOK, CarrierType
<1>8. IncomingOK(incoming, routes)
  <2>1. incoming = <<>> /\ routes = <<CHOOSE l \in Links : TRUE>>
    BY DEF Init
  <2>2. (CHOOSE l \in Links : TRUE) \in Links /\ MaxIncoming \in Nat
    BY VoiceAssumption
  <2>3. incoming \in Seq(Links) /\ Len(incoming) = 0 /\ 1 .. Len(incoming) = {}
    BY <2>1
  <2> QED
    BY <2>1, <2>2, <2>3 DEF IncomingOK
<1>9. OutgoingOK(outgoing)
  <2>1. outgoing \in Seq(BOOLEAN) /\ Len(outgoing) = 0 /\ 1 .. Len(outgoing) = {}
    BY DEF Init
  <2> QED
    BY <2>1, VoiceAssumption DEF OutgoingOK
<1>10. posted \in Seq(BOOLEAN) /\ shown \in BOOLEAN /\ shown = FALSE
  <2>1. posted = <<>> /\ shown = FALSE
    BY DEF Init
  <2>2. <<>> \in Seq(BOOLEAN)
    OBVIOUS
  <2> QED
    BY <2>1, <2>2
<1>11. Telling(todo, loop, posted, engine.talking, shown)
  BY <1>2, <1>10 DEF Telling
<1>12. commands \in 0 .. MaxCommands /\ changes \in 0 .. MaxChanges
  BY VoiceAssumption DEF Init
<1> QED
  BY <1>2, <1>3, <1>4, <1>5, <1>6, <1>7, <1>8, <1>9, <1>10, <1>11, <1>12 DEF Inv

\* A command: the plan is new, and nothing has been done about it yet.
LEMMA UserStep == Inv /\ User => Inv'
<1> SUFFICES ASSUME Inv, User PROVE Inv'
  OBVIOUS
<1>1. PICK c, s : Do(c, s) /\ Proper(c, s)
  BY UserIsProper DEF Inv
<1>2. /\ todo = <<>> /\ call' = c /\ todo' = s
      /\ commands < MaxCommands /\ commands' = commands + 1
      /\ UNCHANGED <<engine, loop, posted, shown, gate, incoming, outgoing, carrier, routes,
                     changes>>
  BY <1>1 DEF Do, Rest
<1>3. CallOK(c) /\ Planned(s) /\ Turned(s, call.running, c.running)
      /\ (Gated(s, c) \/ (s = <<>> /\ c = call))
  BY <1>1 DEF Proper, Planned
<1>4. KindsOf(todo) = {}
  BY <1>2, ShapeEmpty
<1>5. OnTurn(s, c.running, loop)
  BY <1>3, <1>4 DEF Inv, OnTurn, Turned
<1>6. GatesOK(s, c, gate)
  <2>1. CASE Gated(s, c)
    BY <2>1 DEF Gated, GatesOK, Agrees, Inv
  <2>2. CASE s = <<>> /\ c = call
    BY <1>2, <2>2 DEF Inv
  <2> QED
    BY <1>3, <2>1, <2>2
<1>7. Telling(s, loop, posted, engine.talking, shown)
  BY <1>4 DEF Telling, Inv
<1>8. commands' \in 0 .. MaxCommands
  BY <1>2, VoiceAssumption DEF Inv
<1> QED
  BY <1>2, <1>3, <1>5, <1>6, <1>7, <1>8 DEF Inv

\* What every step of the plan leaves as it was.
LEMMA TakesKeeps ==
  ASSUME Inv, NEW k, Takes(k)
  PROVE  /\ Planned(todo') /\ todo' = Tail(todo) /\ todo # <<>> /\ Head(todo).kind = k
         /\ Head(todo) \in StepSet /\ Planned(todo) /\ On = Head(todo).on
         /\ k \notin Turns => OnTurn(todo', call.running, loop)
         /\ k \notin {"receive", "transmit"} => GatesOK(todo', call, gate)
         /\ k # "post" => Telling(todo', loop, posted, engine.talking, shown)
<1>1. Planned(todo) /\ todo # <<>> /\ Head(todo).kind = k /\ todo' = Tail(todo)
  BY DEF Inv, Takes
<1>2. Head(todo) \in StepSet /\ Planned(Tail(todo))
  BY <1>1, Taken
<1>3. k \notin Turns => OnTurn(Tail(todo), call.running, loop)
  BY <1>1, TakenOnTurn DEF Inv
<1>4. k \notin {"receive", "transmit"} => GatesOK(Tail(todo), call, gate)
  BY <1>1, TakenAgrees DEF Inv, GatesOK
<1>5. k # "post" => Telling(Tail(todo), loop, posted, engine.talking, shown)
  BY <1>1, TakenTelling DEF Inv
<1> QED
  BY <1>1, <1>2, <1>3, <1>4, <1>5 DEF On

\* A gate is set while nothing passes it; what waits for it is dropped.
LEMMA GateStep == Inv /\ (setReceiveEnabled \/ setTransmitEnabled) => Inv'
<1> SUFFICES ASSUME Inv, setReceiveEnabled \/ setTransmitEnabled PROVE Inv'
  OBVIOUS
<1>0. /\ gate \in [receive : BOOLEAN, transmit : BOOLEAN]
      /\ Agrees(todo, "receive", call.active, gate.receive)
      /\ Agrees(todo, "transmit", canTransmit(call), gate.transmit)
  BY DEF Inv, GatesOK
<1>1. CASE setReceiveEnabled
  <2>1. /\ Takes("receive") /\ carrier.pc # "handing"
        /\ gate' = [gate EXCEPT !.receive = On]
        /\ incoming' = IF On THEN incoming ELSE <<>>
        /\ UNCHANGED <<call, engine, loop, posted, shown, outgoing, carrier, routes,
                       commands, changes>>
    BY <1>1 DEF setReceiveEnabled, gateFree
  <2>2. /\ Planned(todo') /\ todo' = Tail(todo) /\ todo # <<>>
        /\ Head(todo).kind = "receive" /\ Head(todo) \in StepSet /\ Planned(todo)
        /\ On = Head(todo).on
        /\ OnTurn(todo', call.running, loop)
        /\ Telling(todo', loop, posted, engine.talking, shown)
    BY <2>1, TakesKeeps DEF Turns
  <2>3. On \in BOOLEAN
    BY <2>2 DEF StepSet
  <2>4. gate' \in [receive : BOOLEAN, transmit : BOOLEAN] /\ gate'.receive = On
        /\ gate'.transmit = gate.transmit
    BY <1>0, <2>1, <2>3
  <2>5. Agrees(Tail(todo), "receive", call.active, On)
    BY <1>0, <2>2, TakenSets
  <2>6. Agrees(Tail(todo), "transmit", canTransmit(call), gate.transmit)
    BY <1>0, <2>2, TakenAgrees
  <2>7. GatesOK(todo', call, gate')
    BY <2>2, <2>4, <2>5, <2>6 DEF GatesOK
  <2>8. CarrierOK(carrier, gate')
    BY <2>1, <2>4 DEF Inv, CarrierOK, CarrierType
  <2>9. IncomingOK(incoming', routes)
    <3>1. CASE On
      BY <2>1, <3>1 DEF Inv
    <3>2. CASE ~On
      <4>1. incoming' = <<>> /\ incoming' \in Seq(Links) /\ Len(incoming') = 0
            /\ 1 .. Len(incoming') = {} /\ MaxIncoming \in Nat
        BY <2>1, <3>2, VoiceAssumption
      <4> QED
        BY <4>1 DEF Inv, IncomingOK
    <3> QED
      BY <3>1, <3>2
  <2> QED
    BY <2>1, <2>2, <2>7, <2>8, <2>9 DEF Inv
<1>2. CASE setTransmitEnabled
  <2>1. /\ Takes("transmit") /\ carrier.pc # "sending"
        /\ gate' = [gate EXCEPT !.transmit = On]
        /\ outgoing' = IF On THEN outgoing ELSE <<>>
        /\ UNCHANGED <<call, engine, loop, posted, shown, incoming, carrier, routes,
                       commands, changes>>
    BY <1>2 DEF setTransmitEnabled, gateFree
  <2>2. /\ Planned(todo') /\ todo' = Tail(todo) /\ todo # <<>>
        /\ Head(todo).kind = "transmit" /\ Head(todo) \in StepSet /\ Planned(todo)
        /\ On = Head(todo).on
        /\ OnTurn(todo', call.running, loop)
        /\ Telling(todo', loop, posted, engine.talking, shown)
    BY <2>1, TakesKeeps DEF Turns
  <2>3. On \in BOOLEAN
    BY <2>2 DEF StepSet
  <2>4. gate' \in [receive : BOOLEAN, transmit : BOOLEAN] /\ gate'.transmit = On
        /\ gate'.receive = gate.receive
    BY <1>0, <2>1, <2>3
  <2>5. Agrees(Tail(todo), "transmit", canTransmit(call), On)
    BY <1>0, <2>2, TakenSets
  <2>6. Agrees(Tail(todo), "receive", call.active, gate.receive)
    BY <1>0, <2>2, TakenAgrees
  <2>7. GatesOK(todo', call, gate')
    BY <2>2, <2>4, <2>5, <2>6 DEF GatesOK
  <2>8. CarrierOK(carrier, gate')
    BY <2>1, <2>4 DEF Inv, CarrierOK, CarrierType
  <2>9. OutgoingOK(outgoing')
    <3>1. CASE On
      BY <2>1, <3>1 DEF Inv
    <3>2. CASE ~On
      <4>1. outgoing' = <<>> /\ outgoing' \in Seq(BOOLEAN) /\ Len(outgoing') = 0
            /\ 1 .. Len(outgoing') = {} /\ MaxOutgoing \in Nat
        BY <2>1, <3>2, VoiceAssumption
      <4> QED
        BY <4>1 DEF OutgoingOK
    <3> QED
      BY <3>1, <3>2
  <2> QED
    BY <2>1, <2>2, <2>7, <2>8, <2>9 DEF Inv
<1> QED
  BY <1>1, <1>2

\* A flag of the engine that is not the indicator's.
LEMMA FlagStep == Inv /\ storeFlag => Inv'
<1> SUFFICES ASSUME Inv, storeFlag PROVE Inv'
  OBVIOUS
<1>1. engine \in EngineType
  BY DEF Inv
<1>2. PICK k \in {"muted", "testing", "pressed", "mode"} :
        /\ Takes(k)
        /\ k = "muted" => engine' = [engine EXCEPT !.muted = On]
        /\ k = "testing" => engine' = [engine EXCEPT !.testing = On]
        /\ k = "pressed" => engine' = [engine EXCEPT !.pressed = On]
        /\ k = "mode" => engine' = [engine EXCEPT !.mode = On]
  BY DEF storeFlag
<1>3. UNCHANGED <<call, loop, posted, shown, gate, incoming, outgoing, carrier, routes,
                  commands, changes>>
  BY DEF storeFlag
<1>4. k \notin Turns /\ k \notin {"receive", "transmit"} /\ k # "post"
  BY DEF Turns
<1>5. /\ Planned(todo') /\ Head(todo) \in StepSet /\ Head(todo).kind = k /\ On = Head(todo).on
      /\ OnTurn(todo', call.running, loop)
      /\ GatesOK(todo', call, gate)
      /\ Telling(todo', loop, posted, engine.talking, shown)
  BY <1>2, <1>4, TakesKeeps
<1>6. (k = "mode" => On \in Modes) /\ (k # "mode" => On \in BOOLEAN)
  BY <1>5 DEF StepSet
<1>7. engine' \in EngineType /\ engine'.talking = engine.talking
  BY <1>1, <1>2, <1>6 DEF EngineType
<1> QED
  BY <1>3, <1>5, <1>7 DEF Inv

\* setLocalTalking's step turns into one that posts the event.
LEMMA Announced ==
  ASSUME NEW V, NEW h \in [kind : {"talking", "post"}, on : V]
  PROVE  [h EXCEPT !.kind = "post"] = [kind |-> "post", on |-> h.on]
OBVIOUS

\* The main thread never says that somebody talks.
LEMMA TalkingStep == Inv /\ setLocalTalking => Inv'
<1> SUFFICES ASSUME Inv, setLocalTalking PROVE Inv'
  OBVIOUS
<1>0. engine \in EngineType /\ Planned(todo) /\ posted \in Seq(BOOLEAN)
  BY DEF Inv
<1>1. CASE /\ Takes("talking")
           /\ UNCHANGED <<engine, posted>>
           /\ UNCHANGED <<call, loop, shown, gate, incoming, outgoing, carrier, routes,
                          commands, changes>>
  <2>1. /\ Planned(todo')
        /\ OnTurn(todo', call.running, loop)
        /\ GatesOK(todo', call, gate)
        /\ Telling(todo', loop, posted, engine.talking, shown)
    BY <1>1, TakesKeeps DEF Turns
  <2> QED
    BY <1>1, <2>1 DEF Inv
<1>2. CASE /\ todo # <<>> /\ Head(todo).kind = "talking"
           /\ engine.talking # On
           /\ engine' = [engine EXCEPT !.talking = On]
           /\ todo' = <<[Head(todo) EXCEPT !.kind = "post"]>> \o Tail(todo)
           /\ UNCHANGED <<call, loop, posted, shown, gate, incoming, outgoing, carrier,
                          routes, commands, changes>>
  <2> DEFINE h == Head(todo)
             r == Tail(todo)
             p == Step("post", FALSE)
  <2>1. /\ h \in StepSet /\ Planned(r) /\ KindsOf(todo) = {h.kind} \cup KindsOf(r)
        /\ h.kind = "talking"
    BY <1>0, <1>2, Taken
  <2>2. h \in [kind : {"talking", "post"}, on : {FALSE}] /\ h.on = FALSE
    BY <2>1 DEF StepSet
  <2>3. On = FALSE /\ [h EXCEPT !.kind = "post"] = [kind |-> "post", on |-> FALSE]
    <3>1. On = FALSE
      BY <2>2 DEF On
    <3> HIDE DEF h
    <3>2. [h EXCEPT !.kind = "post"] = [kind |-> "post", on |-> h.on]
      BY <2>2, Announced
    <3> QED
      BY <2>2, <3>1, <3>2
  <2>4. todo' = p \o r
    BY <1>2, <2>3 DEF Step
  <2>5. Shape(p, {}) /\ KindsOf(p) = {"post"}
    <3>1. [kind |-> "post", on |-> FALSE] \in StepSet /\ "post" \notin Turns
      BY DEF StepSet, Turns
    <3> QED
      BY <3>1, CalmStep
  <2> HIDE DEF h, r, p
  <2>6. p \in Seq(StepSet) /\ Orderly(p) /\ r \in Seq(StepSet) /\ Orderly(r)
    BY <2>1, <2>5 DEF Shape, Planned
  <2>7. KindsOf(todo') = {"post"} \cup KindsOf(r)
    BY <2>4, <2>5, <2>6, ConcatKinds
  <2>8. Planned(todo')
    <3>1. "start" \notin KindsOf(p)
      BY <2>5
    <3>2. p \o r \in Seq(StepSet) /\ Orderly(p \o r)
      BY <2>6, <3>1, ConcatOrderly
    <3> QED
      BY <2>4, <3>2 DEF Planned
  <2>9. OnTurn(todo', call.running, loop)
    <3>1. /\ "start" \in KindsOf(todo') <=> "start" \in KindsOf(todo)
          /\ "join" \in KindsOf(todo') <=> "join" \in KindsOf(todo)
      BY <2>1, <2>7
    <3> QED
      BY <3>1 DEF Inv, OnTurn
  <2>10. GatesOK(todo', call, gate)
    <3>1. ASSUME NEW k \in {"receive", "transmit"}, NEW on, NEW was, Agrees(todo, k, on, was)
          PROVE  Agrees(todo', k, on, was)
      <4>1. Agrees(r, k, on, was)
        BY <1>0, <1>2, <3>1, TakenAgrees DEF r
      <4>2. Ends(r, k, on) => Ends(p \o r, k, on)
        BY <2>6, ConcatEnds
      <4> QED
        BY <2>4, <2>7, <4>1, <4>2 DEF Agrees
    <3> QED
      BY <3>1 DEF Inv, GatesOK
  <2>11. engine' \in EngineType /\ engine'.talking = FALSE
    BY <1>0, <1>2, <2>3 DEF EngineType
  <2>12. Telling(todo', loop, posted, engine'.talking, shown)
    BY <2>7, <2>11 DEF Telling
  <2>13. Silent(loop, engine'.talking)
    BY <2>11 DEF Silent
  <2> QED
    BY <1>2, <2>8, <2>9, <2>10, <2>11, <2>12, <2>13 DEF Inv
<1>3. CASE /\ Takes("post")
           /\ posted' = Append(posted, On)
           /\ UNCHANGED <<call, engine, loop, shown, gate, incoming, outgoing, carrier,
                          routes, commands, changes>>
  <2>1. /\ Planned(todo') /\ Head(todo) \in StepSet /\ Head(todo).kind = "post"
        /\ On = Head(todo).on
        /\ OnTurn(todo', call.running, loop)
        /\ GatesOK(todo', call, gate)
    BY <1>3, TakesKeeps DEF Turns
  <2>2. On = FALSE
    BY <2>1 DEF StepSet
  <2>3. /\ posted' \in Seq(BOOLEAN) /\ Len(posted) \in Nat /\ Len(posted') = Len(posted) + 1
        /\ posted'[Len(posted) + 1] = FALSE
        /\ \A i \in 1 .. Len(posted) : posted'[i] = posted[i]
    <3>1. posted' = Append(posted, FALSE)
      BY <1>3, <2>2
    <3> QED
      BY <1>0, <3>1, AppendProperties
  <2>4. Telling(todo', loop, posted', engine.talking, shown)
    <3>1. CASE engine.talking = FALSE
      <4>1. Len(posted) + 1 \in 1 .. Len(posted')
        BY <2>3
      <4> QED
        BY <2>3, <3>1, <4>1 DEF Telling
    <3>2. CASE engine.talking # FALSE
      <4>1. \/ shown = engine.talking
            \/ \E i \in 1 .. Len(posted) : posted[i] = engine.talking
            \/ loop.pc = "post" /\ loop.now = engine.talking
        BY <3>2 DEF Inv, Telling
      <4>2. \A i \in 1 .. Len(posted) : i \in 1 .. Len(posted')
        BY <2>3
      <4> QED
        BY <2>3, <4>1, <4>2 DEF Telling
    <3> QED
      BY <3>1, <3>2
  <2> QED
    BY <1>3, <2>1, <2>3, <2>4 DEF Inv
<1> QED
  BY <1>1, <1>2, <1>3 DEF setLocalTalking

\* The engine is started when the worker is gone, so that nobody talks then.
LEMMA StartStep == Inv /\ startEngine => Inv'
<1> SUFFICES ASSUME Inv, startEngine PROVE Inv'
  OBVIOUS
<1>1. /\ Takes("start")
      /\ engine' = [engine EXCEPT !.talking = FALSE]
      /\ loop' = FreshLoop
      /\ UNCHANGED <<call, posted, shown, gate, incoming, outgoing, carrier, routes,
                     commands, changes>>
  BY DEF startEngine
<1>2. /\ Planned(todo') /\ todo' = Tail(todo) /\ todo # <<>> /\ Head(todo).kind = "start"
      /\ Planned(todo)
      /\ GatesOK(todo', call, gate)
      /\ Telling(todo', loop, posted, engine.talking, shown)
  BY <1>1, TakesKeeps
<1>3. KindsOf(todo) = {"start"} \cup KindsOf(todo') /\ KindsOf(todo') \cap Turns = {}
  BY <1>2, Taken
<1>4. "start" \notin KindsOf(todo') /\ "join" \notin KindsOf(todo')
  BY <1>3 DEF Turns
<1>5. call.running /\ loop = NoLoop
  BY <1>3, <1>4 DEF Inv, OnTurn
<1>6. engine.talking = FALSE
  BY <1>5, RestLoops DEF Inv, Silent
<1>7. engine' \in EngineType /\ engine'.talking = FALSE
  BY <1>1 DEF Inv, EngineType
<1>8. LoopOK(loop') /\ Silent(loop', engine'.talking) /\ OnTurn(todo', call.running, loop')
  BY <1>1, <1>4, <1>5, <1>7, RestLoops DEF Silent, OnTurn
<1>9. Telling(todo', loop', posted, engine'.talking, shown)
  <2>1. loop.pc # "post"
    BY <1>5, RestLoops
  <2> QED
    BY <1>2, <1>6, <1>7, <2>1 DEF Telling
<1> QED
  BY <1>1, <1>2, <1>7, <1>8, <1>9 DEF Inv

\* A stop asks the worker to wind up, and a join waits until it has.
LEMMA StopStep == Inv /\ stopEngine => Inv'
<1> SUFFICES ASSUME Inv, stopEngine PROVE Inv'
  OBVIOUS
<1>0. UNCHANGED <<call, engine, posted, shown, gate, incoming, outgoing, carrier, routes,
                  commands, changes>>
  BY DEF stopEngine
<1>1. CASE Takes("stop") /\ loop' = [loop EXCEPT !.stopping = @ \/ loop.pc # "gone"]
  <2>1. /\ Planned(todo') /\ todo' = Tail(todo) /\ todo # <<>> /\ Head(todo).kind = "stop"
        /\ Planned(todo)
        /\ GatesOK(todo', call, gate)
        /\ Telling(todo', loop, posted, engine.talking, shown)
    BY <1>1, TakesKeeps
  <2>2. KindsOf(todo) = {"stop"} \cup KindsOf(todo') /\ "join" \in KindsOf(todo')
    BY <2>1, Taken
  <2>3. OnTurn(todo', call.running, loop')
    BY <2>2 DEF Inv, OnTurn
  <2>4. /\ LoopOK(loop') /\ loop'.pc = loop.pc /\ loop'.now = loop.now
        /\ loop'.winding = loop.winding
    BY <1>1 DEF Inv, LoopOK, LoopType
  <2>5. Silent(loop', engine.talking) /\ Telling(todo', loop', posted, engine.talking, shown)
    BY <2>1, <2>4 DEF Inv, Silent, Telling
  <2> QED
    BY <1>0, <2>1, <2>3, <2>4, <2>5 DEF Inv
<1>2. CASE Takes("join") /\ loop.pc = "gone" /\ loop' = NoLoop
  <2>1. /\ Planned(todo') /\ todo' = Tail(todo) /\ todo # <<>> /\ Head(todo).kind = "join"
        /\ Planned(todo)
        /\ GatesOK(todo', call, gate)
        /\ Telling(todo', loop, posted, engine.talking, shown)
    BY <1>2, TakesKeeps
  <2>2. KindsOf(todo) = {"join"} \cup KindsOf(todo')
    BY <2>1, Taken
  <2>3. OnTurn(todo', call.running, loop')
    <3>1. ("start" \in KindsOf(todo') => call.running)
          /\ ("start" \notin KindsOf(todo') => ~call.running)
      BY <2>2 DEF Inv, OnTurn
    <3> QED
      BY <1>2, <3>1 DEF OnTurn
  <2>4. LoopOK(loop') /\ Silent(loop', engine.talking)
    BY <1>2, RestLoops DEF Inv, Silent
  <2>5. Telling(todo', loop', posted, engine.talking, shown)
    BY <1>2, <2>1 DEF Telling
  <2> QED
    BY <1>0, <2>1, <2>3, <2>4, <2>5 DEF Inv
<1> QED
  BY <1>1, <1>2 DEF stopEngine

\* No links, nothing received.
LEMMA DiscardStep == Inv /\ discardLinks => Inv'
<1> SUFFICES ASSUME Inv, discardLinks PROVE Inv'
  OBVIOUS
<1>1. /\ Takes("discard") /\ routes' = <<>> /\ incoming' = <<>>
      /\ UNCHANGED <<call, engine, loop, posted, shown, gate, outgoing, carrier, commands,
                     changes>>
  BY DEF discardLinks
<1>2. /\ Planned(todo')
      /\ OnTurn(todo', call.running, loop)
      /\ GatesOK(todo', call, gate)
      /\ Telling(todo', loop, posted, engine.talking, shown)
  BY <1>1, TakesKeeps DEF Turns
<1>3. IncomingOK(incoming', routes')
  <2>1. <<>> \in Seq(Links) /\ Len(<<>>) = 0 /\ 1 .. Len(<<>>) = {}
    OBVIOUS
  <2> QED
    BY <1>1, <2>1, VoiceAssumption DEF IncomingOK
<1> QED
  BY <1>1, <1>2, <1>3 DEF Inv

\* An event is shown if it still tells the truth, and dropped if it does not.
LEMMA DeliverStep == Inv /\ deliverTalking => Inv'
<1> SUFFICES ASSUME Inv, deliverTalking PROVE Inv'
  OBVIOUS
<1>1. /\ posted # <<>>
      /\ shown' = talkingEvent(Head(posted)) /\ posted' = Tail(posted)
      /\ UNCHANGED <<call, todo, engine, loop, gate, incoming, outgoing, carrier, routes,
                     commands, changes>>
  BY DEF deliverTalking
<1>2. /\ posted \in Seq(BOOLEAN) /\ shown \in BOOLEAN
      /\ Telling(todo, loop, posted, engine.talking, shown)
  BY DEF Inv
<1> DEFINE n == Len(posted')
<1>3. /\ Head(posted) \in BOOLEAN /\ posted' \in Seq(BOOLEAN) /\ n \in Nat
      /\ Len(posted) = n + 1 /\ posted[1] = Head(posted)
      /\ \A i \in 1 .. n : posted'[i] = posted[i + 1]
  BY <1>1, <1>2, HeadTailProperties
<1>4. shown' \in BOOLEAN
  BY <1>1, <1>2, <1>3 DEF talkingEvent
<1>5. Telling(todo, loop, posted', engine.talking, shown')
  <2>1. CASE engine.talking = Head(posted)
    <3>1. shown' = engine.talking
      BY <1>1, <2>1 DEF talkingEvent
    <3> QED
      BY <3>1 DEF Telling
  <2>2. CASE engine.talking # Head(posted)
    <3>1. shown' = shown
      BY <1>1, <2>2 DEF talkingEvent
    <3>2. ASSUME NEW i \in 1 .. Len(posted), posted[i] = engine.talking
          PROVE  \E j \in 1 .. n : posted'[j] = engine.talking
      <4>1. i # 1
        BY <1>3, <2>2, <3>2
      <4>2. i - 1 \in 1 .. n /\ (i - 1) + 1 = i
        BY <1>3, <4>1
      <4> QED
        BY <1>3, <3>2, <4>2
    <3> QED
      BY <1>2, <3>1, <3>2 DEF Telling
  <2> QED
    BY <2>1, <2>2
<1> QED
  BY <1>1, <1>3, <1>4, <1>5 DEF Inv

\* While the worker works, it runs as the session believes, or is about to wind up.
LEMMA WorkerOnTurn ==
  ASSUME NEW s, NEW running, NEW lp, NEW new, OnTurn(s, running, lp), lp.pc # "gone",
         ~lp.stopping => new.pc # "gone" /\ ~new.stopping
  PROVE  OnTurn(s, running, new)
BY RestLoops DEF OnTurn

\* A chunk: nothing unwanted gets into the frame.
LEMMA ChunkStep == ASSUME Inv, NEW voiced \in BOOLEAN, Chunk(voiced) PROVE Inv'
<1> DEFINE listens == engine.mode = "activity" /\ ~Closed
           hang == IF ~listens THEN 0
                   ELSE IF voiced THEN Hangover
                        ELSE IF loop.hang > 0 THEN loop.hang - 1 ELSE 0
           should == detected(voiced) \/ hang > 0
           unwanted == Closed \/ (engine.mode = "push" /\ ~engine.pressed)
           leak == loop.leak \/ (unwanted /\ ~silenced(should))
           kept0 == loop.should \/ should
           off == Closed
<1>1. /\ loop.pc = "head" /\ ~loop.stopping
      /\ loop' = [loop EXCEPT !.pc = "talk", !.half = @ + 1, !.should = kept0,
                              !.leak = leak, !.hang = hang, !.now = should, !.off = off]
      /\ UNCHANGED <<call, todo, engine, posted, shown, gate, incoming, outgoing, carrier,
                     routes, commands, changes>>
  BY DEF Chunk
<1>2. LoopOK(loop) /\ loop.leak = FALSE /\ engine \in EngineType
  BY DEF Inv, LoopOK, LoopType
<1>3. loop.half \in 0 .. 1 /\ loop.hang \in 0 .. Hangover /\ ~loop.winding
      /\ Hangover \in Nat
  BY <1>1, <1>2, VoiceAssumption DEF LoopOK, LoopType
<1>4. hang \in 0 .. Hangover
  BY <1>3
<1>5. should \in BOOLEAN /\ kept0 \in BOOLEAN /\ off \in BOOLEAN
  BY <1>2 DEF LoopOK, LoopType, detected, Closed
<1>6. unwanted => silenced(should)
  <2>1. CASE Closed
    BY <2>1 DEF silenced
  <2>2. CASE ~Closed /\ engine.mode = "push" /\ ~engine.pressed
    <3>1. hang = 0 /\ ~detected(voiced)
      BY <2>2 DEF detected
    <3>2. ~should
      BY <3>1
    <3> QED
      BY <2>2, <3>2 DEF silenced
  <2> QED
    BY <2>1, <2>2
<1>7. leak = FALSE
  BY <1>2, <1>6
<1> HIDE DEF listens, hang, should, unwanted, leak, kept0, off
<1>8. /\ LoopOK(loop') /\ loop'.pc = "talk" /\ loop'.stopping = loop.stopping
      /\ loop'.winding = loop.winding
  <2>1. loop.half + 1 \in 1 .. 2 /\ loop.half + 1 \in 0 .. 2
    BY <1>3
  <2> DEFINE half == loop.half + 1
  <2>2. half \in 0 .. 2 /\ half # 0
    BY <2>1
  <2>3. loop' = [loop EXCEPT !.pc = "talk", !.half = half, !.should = kept0,
                             !.leak = leak, !.hang = hang, !.now = should, !.off = off]
    BY <1>1
  <2> HIDE DEF half
  <2>4. /\ loop' \in LoopType
        /\ loop'.pc = "talk" /\ loop'.stopping = loop.stopping
        /\ loop'.winding = loop.winding /\ loop'.half = half
    BY <1>2, <1>4, <1>5, <1>7, <2>2, <2>3 DEF LoopOK, LoopType
  <2> QED
    BY <1>3, <2>2, <2>4 DEF LoopOK, LoopType
<1>9. Silent(loop', engine.talking)
  BY <1>3, <1>8 DEF Silent
<1>10. OnTurn(todo, call.running, loop')
  <2>1. OnTurn(todo, call.running, loop)
    BY DEF Inv
  <2> QED
    BY <1>1, <1>8, <2>1, WorkerOnTurn
<1>11. Telling(todo, loop', posted, engine.talking, shown)
  BY <1>1 DEF Inv, Telling
<1> QED
  BY <1>1, <1>8, <1>9, <1>10, <1>11 DEF Inv

\* The frame is done with: the next begins.
LEMMA FrameDone ==
  ASSUME NEW lp \in LoopType, NEW new,
         new = [lp EXCEPT !.pc = "head", !.half = 0, !.should = FALSE, !.leak = FALSE]
  PROVE  /\ new \in LoopType /\ new.pc = "head" /\ new.half # 2
         /\ new.stopping = lp.stopping /\ new.winding = lp.winding
<1>1. ASSUME NEW half \in 0 .. 2, NEW b \in BOOLEAN, NEW leak \in {FALSE}
      PROVE  LET w == [lp EXCEPT !.pc = "head", !.half = half, !.should = b, !.leak = leak]
             IN  /\ w \in LoopType /\ w.pc = "head" /\ w.half = half
                 /\ w.stopping = lp.stopping /\ w.winding = lp.winding
  BY DEF LoopType
<1>2. 0 \in 0 .. 2 /\ FALSE \in BOOLEAN /\ FALSE \in {FALSE}
  OBVIOUS
<1>3. LET w == [lp EXCEPT !.pc = "head", !.half = 0, !.should = FALSE, !.leak = FALSE]
      IN  /\ w \in LoopType /\ w.pc = "head" /\ w.half # 2
          /\ w.stopping = lp.stopping /\ w.winding = lp.winding
  <2>1. 0 # 2
    OBVIOUS
  <2> QED
    BY <1>1, <1>2, <2>1
<1> QED
  BY <1>3

\* After the talking flag, the next chunk or the frame.
LEMMA AfterTalk ==
  ASSUME LoopOK(loop), loop.pc \in {"talk", "post"}, ~loop.winding
  PROVE  /\ LoopOK(whenTalked) /\ whenTalked.pc \in {"head", "encode"}
         /\ whenTalked.stopping = loop.stopping /\ ~whenTalked.winding
<1> DEFINE w == whenTalked
<1>1. loop \in LoopType /\ loop.half \in 0 .. 2 /\ loop.half # 0 /\ loop.winding = FALSE
  <2>1. loop \in LoopType
    BY DEF LoopOK, LoopType
  <2>2. loop.half # 0
    BY DEF LoopOK, LoopType
  <2> QED
    BY <2>1, <2>2 DEF LoopType
<1>2. CASE loop.half < 2
  <2>1. w = [loop EXCEPT !.pc = "head"]
    BY <1>2 DEF whenTalked
  <2> HIDE DEF w
  <2>2. /\ w \in LoopType /\ w.pc = "head" /\ w.half = loop.half
        /\ w.stopping = loop.stopping /\ w.winding = loop.winding
    BY <1>1, <2>1 DEF LoopType
  <2>3. w.half # 2 /\ ~w.winding
    BY <1>1, <1>2, <2>2
  <2> QED
    BY <2>2, <2>3 DEF LoopOK, LoopType, w
<1>3. CASE ~(loop.half < 2) /\ loop.should /\ ~loop.off
  <2>1. w = [loop EXCEPT !.pc = "encode"]
    BY <1>3 DEF whenTalked
  <2> HIDE DEF w
  <2>2. /\ w \in LoopType /\ w.pc = "encode"
        /\ w.stopping = loop.stopping /\ w.winding = loop.winding
    BY <1>1, <2>1 DEF LoopType
  <2>3. ~w.winding
    BY <1>1, <2>2
  <2> QED
    BY <2>2, <2>3 DEF LoopOK, LoopType, w
<1>4. CASE ~(loop.half < 2) /\ ~(loop.should /\ ~loop.off)
  <2>1. w = [loop EXCEPT !.pc = "head", !.half = 0, !.should = FALSE, !.leak = FALSE]
    BY <1>4 DEF whenTalked
  <2> HIDE DEF w
  <2>2. /\ w \in LoopType /\ w.pc = "head" /\ w.half # 2
        /\ w.stopping = loop.stopping /\ w.winding = loop.winding
    BY <1>1, <2>1, FrameDone
  <2>3. ~w.winding
    BY <1>1, <2>2
  <2> QED
    BY <2>2, <2>3 DEF LoopOK, LoopType, w
<1> QED
  BY <1>2, <1>3, <1>4

\* The worker exchanges the talking flag, and announces a change next.
LEMMA TalkStep == Inv /\ Talk => Inv'
<1> SUFFICES ASSUME Inv, Talk PROVE Inv'
  OBVIOUS
<1> DEFINE now == loop.pc = "talk" /\ loop.now
           next == IF Winds THEN NoLoop ELSE whenTalked
<1>1. /\ loop.pc = "talk" \/ Winds
      /\ engine' = [engine EXCEPT !.talking = now]
      /\ loop' = IF engine.talking = now THEN next
                 ELSE [loop EXCEPT !.pc = "post", !.now = now, !.winding = Winds]
      /\ UNCHANGED <<call, todo, posted, shown, gate, incoming, outgoing, carrier, routes,
                     commands, changes>>
  BY DEF Talk
<1>2. /\ LoopOK(loop) /\ Silent(loop, engine.talking) /\ OnTurn(todo, call.running, loop)
      /\ engine \in EngineType /\ Telling(todo, loop, posted, engine.talking, shown)
  BY DEF Inv
<1>3. /\ loop.pc = "talk" \/ (loop.pc = "head" /\ loop.stopping)
      /\ Winds <=> loop.pc = "head" /\ loop.stopping
      /\ Winds \in BOOLEAN
  BY <1>1 DEF Winds
<1>4. ~loop.winding /\ loop.pc # "gone" /\ loop.pc # "post"
  BY <1>2, <1>3 DEF LoopOK, LoopType
<1>5. now \in BOOLEAN /\ (Winds => now = FALSE)
  BY <1>2, <1>3 DEF LoopOK, LoopType
<1> DEFINE wind == Winds
<1>6. wind \in BOOLEAN /\ (wind <=> Winds)
  BY <1>3
<1>7. loop' = IF engine.talking = now THEN next
              ELSE [loop EXCEPT !.pc = "post", !.now = now, !.winding = wind]
  BY <1>1
<1> HIDE DEF now, wind
<1>8. engine' \in EngineType /\ engine'.talking = now
  BY <1>1, <1>2, <1>5 DEF EngineType
<1>9. CASE engine.talking = now
  <2>1. loop' = next
    BY <1>7, <1>9
  <2>2. CASE Winds
    <3>1. loop' = NoLoop /\ now = FALSE /\ loop.stopping
      BY <1>3, <1>5, <2>1, <2>2
    <3>2. LoopOK(loop') /\ Silent(loop', engine'.talking)
      BY <1>8, <3>1, RestLoops DEF Silent
    <3>3. OnTurn(todo, call.running, loop')
      BY <1>2, <1>4, <3>1, WorkerOnTurn
    <3>4. Telling(todo, loop', posted, engine'.talking, shown)
      BY <1>2, <1>4, <1>8, <1>9 DEF Telling
    <3> QED
      BY <1>1, <1>8, <3>2, <3>3, <3>4 DEF Inv
  <2>3. CASE ~Winds
    <3>1. loop' = whenTalked /\ loop.pc = "talk"
      BY <1>3, <2>1, <2>3
    <3>2. /\ LoopOK(loop') /\ loop'.pc \in {"head", "encode"}
          /\ loop'.stopping = loop.stopping /\ ~loop'.winding
      BY <1>2, <1>4, <3>1, AfterTalk
    <3>3. OnTurn(todo, call.running, loop')
      BY <1>2, <1>4, <3>2, WorkerOnTurn
    <3>4. Silent(loop', engine'.talking)
      BY <3>2 DEF Silent
    <3>5. Telling(todo, loop', posted, engine'.talking, shown)
      BY <1>2, <1>4, <1>8, <1>9 DEF Telling
    <3> QED
      BY <1>1, <1>8, <3>2, <3>3, <3>4, <3>5 DEF Inv
  <2> QED
    BY <2>2, <2>3
<1>10. CASE engine.talking # now
  <2>1. loop' = [loop EXCEPT !.pc = "post", !.now = now, !.winding = wind]
    BY <1>7, <1>10
  <2>2. /\ loop'.pc = "post" /\ loop'.now = now /\ loop'.winding = wind
        /\ loop'.stopping = loop.stopping /\ loop'.half = loop.half
        /\ loop' \in LoopType
    BY <1>2, <1>5, <1>6, <2>1 DEF LoopOK, LoopType
  <2>3. LoopOK(loop')
    <3>1. ~wind => loop.half # 0
      BY <1>2, <1>3, <1>6 DEF LoopOK, LoopType
    <3>2. wind => loop.stopping /\ now = FALSE
      BY <1>3, <1>5, <1>6
    <3> QED
      BY <2>2, <3>1, <3>2 DEF LoopOK, LoopType
  <2>4. Silent(loop', engine'.talking)
    BY <1>5, <1>6, <1>8, <2>2 DEF Silent
  <2>5. OnTurn(todo, call.running, loop')
    BY <1>2, <1>4, <2>2, WorkerOnTurn
  <2>6. Telling(todo, loop', posted, engine'.talking, shown)
    BY <1>8, <2>2 DEF Telling
  <2> QED
    BY <1>1, <1>8, <2>3, <2>4, <2>5, <2>6 DEF Inv
<1> QED
  BY <1>9, <1>10

\* The announcement is on its way.
LEMMA PostStep == Inv /\ Post => Inv'
<1> SUFFICES ASSUME Inv, Post PROVE Inv'
  OBVIOUS
<1>1. /\ loop.pc = "post"
      /\ posted' = Append(posted, loop.now)
      /\ loop' = IF loop.winding THEN NoLoop ELSE whenTalked
      /\ UNCHANGED <<call, todo, engine, shown, gate, incoming, outgoing, carrier, routes,
                     commands, changes>>
  BY DEF Post
<1>2. /\ LoopOK(loop) /\ Silent(loop, engine.talking) /\ OnTurn(todo, call.running, loop)
      /\ posted \in Seq(BOOLEAN) /\ Telling(todo, loop, posted, engine.talking, shown)
      /\ loop.now \in BOOLEAN
  BY DEF Inv, LoopOK, LoopType
<1>3. /\ posted' \in Seq(BOOLEAN) /\ Len(posted) \in Nat /\ Len(posted') = Len(posted) + 1
      /\ posted'[Len(posted) + 1] = loop.now
      /\ \A i \in 1 .. Len(posted) : posted'[i] = posted[i]
  BY <1>1, <1>2, AppendProperties
<1>4. Telling(todo, loop', posted', engine.talking, shown)
  <2>1. CASE loop.now = engine.talking
    <3>1. Len(posted) + 1 \in 1 .. Len(posted')
      BY <1>3
    <3> QED
      BY <1>3, <2>1, <3>1 DEF Telling
  <2>2. CASE loop.now # engine.talking
    <3>1. \A i \in 1 .. Len(posted) : i \in 1 .. Len(posted')
      BY <1>3
    <3> QED
      BY <1>2, <1>3, <2>2, <3>1 DEF Telling
  <2> QED
    BY <2>1, <2>2
<1>5. CASE loop.winding
  <2>1. loop' = NoLoop /\ loop.stopping
    BY <1>1, <1>2, <1>5 DEF LoopOK, LoopType
  <2>2. LoopOK(loop') /\ Silent(loop', engine.talking)
    BY <1>2, <1>5, <2>1, RestLoops DEF Silent
  <2>3. OnTurn(todo, call.running, loop')
    BY <1>1, <1>2, <2>1, WorkerOnTurn
  <2> QED
    BY <1>1, <1>3, <1>4, <2>2, <2>3 DEF Inv
<1>6. CASE ~loop.winding
  <2>1. /\ LoopOK(loop') /\ loop'.pc \in {"head", "encode"}
        /\ loop'.stopping = loop.stopping /\ ~loop'.winding
    BY <1>1, <1>2, <1>6, AfterTalk
  <2>2. Silent(loop', engine.talking)
    BY <2>1 DEF Silent
  <2>3. OnTurn(todo, call.running, loop')
    BY <1>1, <1>2, <2>1, WorkerOnTurn
  <2> QED
    BY <1>1, <1>3, <1>4, <2>1, <2>2, <2>3 DEF Inv
<1> QED
  BY <1>5, <1>6

\* A frame: the oldest makes room, and none in the queue is unwanted.
LEMMA EncodeStep == Inv /\ sendEncoded => Inv'
<1> SUFFICES ASSUME Inv, sendEncoded PROVE Inv'
  OBVIOUS
<1>1. /\ loop.pc = "encode"
      /\ outgoing' = IF gate.transmit THEN pushed(outgoing, loop.leak, MaxOutgoing)
                     ELSE outgoing
      /\ loop' = [loop EXCEPT !.pc = "head", !.half = 0, !.should = FALSE, !.leak = FALSE]
      /\ UNCHANGED <<call, todo, engine, posted, shown, gate, incoming, carrier, routes,
                     commands, changes>>
  BY DEF sendEncoded
<1>2. /\ LoopOK(loop) /\ OnTurn(todo, call.running, loop) /\ OutgoingOK(outgoing)
      /\ Telling(todo, loop, posted, engine.talking, shown)
      /\ loop.leak = FALSE /\ ~loop.winding
  BY <1>1 DEF Inv, LoopOK, LoopType
<1>3. /\ LoopOK(loop') /\ loop'.pc = "head" /\ loop'.stopping = loop.stopping
      /\ ~loop'.winding
  <2>1. loop \in LoopType
    BY <1>2 DEF LoopOK, LoopType
  <2>2. /\ loop' \in LoopType /\ loop'.pc = "head" /\ loop'.half # 2
        /\ loop'.stopping = loop.stopping /\ loop'.winding = loop.winding
    BY <1>1, <2>1, FrameDone
  <2> QED
    BY <1>2, <2>2 DEF LoopOK, LoopType
<1>4. Silent(loop', engine.talking) /\ Telling(todo, loop', posted, engine.talking, shown)
  BY <1>1, <1>2, <1>3 DEF Silent, Telling
<1>5. OnTurn(todo, call.running, loop')
  BY <1>1, <1>2, <1>3, WorkerOnTurn
<1>6. OutgoingOK(outgoing')
  <2>1. CASE ~gate.transmit
    BY <1>1, <1>2, <2>1
  <2>2. CASE gate.transmit
    <3> DEFINE q == IF Len(outgoing) < MaxOutgoing THEN outgoing ELSE Tail(outgoing)
    <3>1. outgoing' = Append(q, FALSE)
      BY <1>1, <1>2, <2>2 DEF pushed
    <3>2. /\ outgoing \in Seq(BOOLEAN) /\ Len(outgoing) <= MaxOutgoing
          /\ \A i \in 1 .. Len(outgoing) : outgoing[i] = FALSE
          /\ MaxOutgoing \in Nat \ {0} /\ Len(outgoing) \in Nat
      BY <1>2, VoiceAssumption DEF OutgoingOK
    <3>3. /\ q \in Seq(BOOLEAN) /\ Len(q) \in Nat /\ Len(q) + 1 <= MaxOutgoing
          /\ \A i \in 1 .. Len(q) : q[i] = FALSE
      <4>1. CASE Len(outgoing) < MaxOutgoing
        BY <3>2, <4>1
      <4>2. CASE ~(Len(outgoing) < MaxOutgoing)
        <5>1. outgoing # <<>>
          BY <3>2, <4>2
        <5>2. /\ q \in Seq(BOOLEAN) /\ Len(q) = Len(outgoing) - 1
              /\ \A i \in 1 .. Len(q) : q[i] = outgoing[i + 1]
          BY <3>2, <4>2, <5>1, HeadTailProperties
        <5>3. \A i \in 1 .. Len(q) : i + 1 \in 1 .. Len(outgoing)
          BY <3>2, <5>2
        <5> QED
          BY <3>2, <5>1, <5>2, <5>3
      <4> QED
        BY <4>1, <4>2
    <3> HIDE DEF q
    <3>4. /\ outgoing' \in Seq(BOOLEAN) /\ Len(outgoing') = Len(q) + 1
          /\ \A i \in 1 .. Len(q) : outgoing'[i] = q[i]
          /\ outgoing'[Len(q) + 1] = FALSE
      BY <3>1, <3>3, AppendProperties
    <3>5. \A i \in 1 .. Len(outgoing') : outgoing'[i] = FALSE
      BY <3>3, <3>4
    <3> QED
      BY <3>3, <3>4, <3>5 DEF OutgoingOK
  <2> QED
    BY <2>1, <2>2
<1> QED
  BY <1>1, <1>3, <1>4, <1>5, <1>6 DEF Inv

\* An empty queue is in order.
LEMMA EmptyQueues ==
  ASSUME NEW open \in Seq(Links)
  PROVE  IncomingOK(<<>>, open) /\ OutgoingOK(<<>>)
<1>1. <<>> \in Seq(Links) /\ <<>> \in Seq(BOOLEAN) /\ Len(<<>>) = 0 /\ 1 .. Len(<<>>) = {}
  OBVIOUS
<1> QED
  BY <1>1, VoiceAssumption DEF IncomingOK, OutgoingOK

\* The newest of the open links is one of the links.
LEMMA LastIsLink ==
  ASSUME NEW open \in Seq(Links), open # <<>>
  PROVE  Last(open) \in Links /\ Len(open) \in Nat \ {0}
<1>1. Len(open) \in Nat \ {0}
  OBVIOUS
<1>2. Len(open) \in 1 .. Len(open)
  BY <1>1
<1> QED
  BY <1>1, <1>2 DEF Last

\* The transport's worker: it enters a gate that is open, with something to bring.
LEMMA CarrierStep == Inv /\ Carrier => Inv'
<1> SUFFICES ASSUME Inv, Carrier PROVE Inv'
  OBVIOUS
<1>0. UNCHANGED <<call, todo, engine, loop, posted, shown, gate, routes, commands, changes>>
  BY DEF Carrier
<1>1. /\ carrier \in CarrierType
      /\ carrier.pc = "handing" => carrier.in # <<>> /\ gate.receive
      /\ carrier.pc = "sending" => carrier.out # <<>> /\ gate.transmit
      /\ carrier.in \in Seq(Links) /\ carrier.out \in Seq(BOOLEAN)
      /\ IncomingOK(incoming, routes) /\ OutgoingOK(outgoing)
  BY DEF Inv, CarrierOK, CarrierType
<1>2. CASE swap
  <2> DEFINE to == IF outgoing # <<>> /\ gate.transmit /\ routes # <<>> THEN Last(routes)
                   ELSE NoLink
  <2>1. /\ carrier' = [pc |-> "receive", in |-> incoming, out |-> outgoing, to |-> to]
        /\ incoming' = <<>> /\ outgoing' = <<>>
    BY <1>2 DEF swap
  <2>2. incoming \in Seq(Links) /\ outgoing \in Seq(BOOLEAN) /\ routes \in Seq(Links)
    BY <1>1 DEF IncomingOK, OutgoingOK
  <2>3. to \in Links \cup {NoLink}
    BY <2>2, LastIsLink
  <2> HIDE DEF to
  <2>4. CarrierOK(carrier', gate)
    BY <2>1, <2>2, <2>3 DEF CarrierOK, CarrierType
  <2>5. IncomingOK(incoming', routes) /\ OutgoingOK(outgoing')
    BY <2>1, <2>2, EmptyQueues
  <2> QED
    BY <1>0, <2>4, <2>5 DEF Inv
<1>3. ASSUME UNCHANGED <<incoming, outgoing>>, CarrierOK(carrier', gate) PROVE Inv'
  BY <1>0, <1>3 DEF Inv
<1>4. <<>> \in Seq(Links) /\ <<>> \in Seq(BOOLEAN) /\ NoLink \in Links \cup {NoLink}
  OBVIOUS
<1>5. CASE enterReceive
  <2>0. UNCHANGED <<incoming, outgoing>>
    BY <1>5 DEF enterReceive
  <2>1. CASE gate.receive /\ carrier.in # <<>>
    <3>1. carrier' = [carrier EXCEPT !.pc = "handing"]
      BY <1>5, <2>1 DEF enterReceive
    <3>2. carrier' \in CarrierType /\ carrier'.pc = "handing" /\ carrier'.in = carrier.in
      BY <1>1, <3>1 DEF CarrierType
    <3> QED
      BY <1>3, <2>0, <2>1, <3>2 DEF CarrierOK, CarrierType
  <2>2. CASE ~(gate.receive /\ carrier.in # <<>>)
    <3>1. carrier' = [carrier EXCEPT !.pc = "transmit", !.in = <<>>]
      BY <1>5, <2>2 DEF enterReceive
    <3>2. carrier' \in CarrierType /\ carrier'.pc = "transmit"
      BY <1>1, <1>4, <3>1 DEF CarrierType
    <3> QED
      BY <1>3, <2>0, <3>2 DEF CarrierOK, CarrierType
  <2> QED
    BY <2>1, <2>2
<1>6. CASE hand
  <2>0. UNCHANGED <<incoming, outgoing>> /\ carrier.pc = "handing"
    BY <1>6 DEF hand
  <2> DEFINE rest == Tail(carrier.in)
             pc == IF Len(carrier.in) = 1 THEN "transmit" ELSE carrier.pc
  <2>1. carrier' = [carrier EXCEPT !.in = rest, !.pc = pc]
    BY <1>6 DEF hand
  <2>2. carrier.in # <<>> /\ gate.receive
    BY <1>1, <2>0
  <2>3. rest \in Seq(Links) /\ Len(rest) = Len(carrier.in) - 1 /\ Len(carrier.in) \in Nat
    BY <1>1, <2>2, HeadTailProperties
  <2>4. pc \in {"transmit", "handing"} /\ (pc = "handing" => rest # <<>>)
    <3>1. CASE Len(carrier.in) = 1
      BY <3>1
    <3>2. CASE Len(carrier.in) # 1
      <4>1. pc = "handing"
        BY <2>0, <3>2
      <4> HIDE DEF rest
      <4>2. Len(rest) # 0
        BY <2>3, <3>2
      <4>3. Len(<<>>) = 0
        OBVIOUS
      <4>4. rest # <<>>
        BY <4>2, <4>3, Zenon
      <4> QED
        BY <4>1, <4>4
    <3> QED
      BY <3>1, <3>2
  <2> HIDE DEF rest, pc
  <2>5. carrier' \in CarrierType /\ carrier'.pc = pc /\ carrier'.in = rest
    BY <1>1, <2>1, <2>3, <2>4 DEF CarrierType
  <2> QED
    BY <1>3, <2>0, <2>2, <2>4, <2>5 DEF CarrierOK, CarrierType
<1>7. CASE enterTransmit
  <2>0. UNCHANGED <<incoming, outgoing>>
    BY <1>7 DEF enterTransmit
  <2>1. CASE gate.transmit /\ carrier.out # <<>> /\ carrier.to # NoLink
    <3>1. carrier' = [carrier EXCEPT !.pc = "sending"]
      BY <1>7, <2>1 DEF enterTransmit
    <3>2. carrier' \in CarrierType /\ carrier'.pc = "sending" /\ carrier'.out = carrier.out
      BY <1>1, <3>1 DEF CarrierType
    <3> QED
      BY <1>3, <2>0, <2>1, <3>2 DEF CarrierOK, CarrierType
  <2>2. CASE ~(gate.transmit /\ carrier.out # <<>> /\ carrier.to # NoLink)
    <3>1. carrier' = [carrier EXCEPT !.pc = "wait", !.out = <<>>, !.to = NoLink]
      BY <1>7, <2>2 DEF enterTransmit
    <3>2. carrier' \in CarrierType /\ carrier'.pc = "wait"
      BY <1>1, <1>4, <3>1 DEF CarrierType
    <3> QED
      BY <1>3, <2>0, <3>2 DEF CarrierOK, CarrierType
  <2> QED
    BY <2>1, <2>2
<1>8. CASE send
  <2>0. UNCHANGED <<incoming, outgoing>> /\ carrier.pc = "sending"
    BY <1>8 DEF send
  <2>1. carrier.out # <<>> /\ gate.transmit
    BY <1>1, <2>0
  <2>2. CASE Len(carrier.out) = 1
    <3>1. carrier' = [carrier EXCEPT !.pc = "wait", !.out = <<>>, !.to = NoLink]
      BY <1>8, <2>2 DEF send
    <3>2. carrier' \in CarrierType /\ carrier'.pc = "wait"
      BY <1>1, <1>4, <3>1 DEF CarrierType
    <3> QED
      BY <1>3, <2>0, <3>2 DEF CarrierOK, CarrierType
  <2>3. CASE Len(carrier.out) # 1
    <3> DEFINE rest == Tail(carrier.out)
    <3>1. carrier' = [carrier EXCEPT !.out = rest]
      BY <1>8, <2>3 DEF send
    <3>2. /\ rest \in Seq(BOOLEAN) /\ Len(rest) = Len(carrier.out) - 1
          /\ Len(carrier.out) \in Nat
      <4> DEFINE o == carrier.out
      <4>1. o \in Seq(BOOLEAN) /\ o # <<>>
        BY <1>1, <2>1
      <4> HIDE DEF o
      <4>2. Tail(o) \in Seq(BOOLEAN) /\ Len(Tail(o)) = Len(o) - 1 /\ Len(o) \in Nat
        BY <4>1, HeadTailProperties
      <4> QED
        BY <4>2 DEF o
    <3> HIDE DEF rest
    <3>3. rest # <<>>
      <4>1. Len(rest) # 0
        BY <2>3, <3>2
      <4>2. Len(<<>>) = 0
        OBVIOUS
      <4> QED
        BY <4>1, <4>2, Zenon
    <3>4. carrier' \in CarrierType /\ carrier'.pc = "sending" /\ carrier'.out = rest
      BY <1>1, <2>0, <3>1, <3>2 DEF CarrierType
    <3> QED
      BY <1>3, <2>0, <2>1, <3>3, <3>4 DEF CarrierOK, CarrierType
  <2> QED
    BY <2>2, <2>3
<1> QED
  BY <1>2, <1>5, <1>6, <1>7, <1>8 DEF Carrier

\* The links: what waits is always from the newest open one.
LEMMA NetworkStep == Inv /\ Network => Inv'
<1> SUFFICES ASSUME Inv, Network PROVE Inv'
  OBVIOUS
<1>1. PICK l \in Links : enqueueIncoming(l) \/ linkActivated(l) \/ linkRemoved(l)
  BY DEF Network
<1>2. /\ incoming \in Seq(Links) /\ Len(incoming) <= MaxIncoming
      /\ routes \in Seq(Links)
      /\ \A i \in 1 .. Len(incoming) : routes # <<>> /\ incoming[i] = Last(routes)
      /\ Len(incoming) \in Nat
      /\ MaxIncoming \in Nat \ {0}
      /\ changes \in 0 .. MaxChanges /\ MaxChanges \in Nat
  BY VoiceAssumption DEF Inv, IncomingOK
<1>3. CASE enqueueIncoming(l)
  <2> DEFINE mine == kept(incoming, {l})
             room == IF Len(mine) < MaxIncoming THEN incoming ELSE RemoveFirst(incoming, l)
  <2>1. /\ routes # <<>> /\ l = Last(routes)
        /\ incoming' = Append(room, l)
        /\ UNCHANGED <<call, todo, engine, loop, posted, shown, gate, outgoing, carrier,
                       routes, commands, changes>>
    BY <1>3 DEF enqueueIncoming
  <2>2. \A i \in 1 .. Len(incoming) : incoming[i] = l
    BY <1>2, <2>1
  <2>3. Len(mine) = Len(incoming)
    <3>1. \A i \in 1 .. Len(incoming) : incoming[i] \in {l}
      BY <2>2
    <3> QED
      BY <1>2, <3>1, KeptFacts
  <2>4. /\ room \in Seq(Links) /\ Len(room) \in Nat /\ Len(room) + 1 <= MaxIncoming
        /\ \A i \in 1 .. Len(room) : room[i] = l
    <3> HIDE DEF mine
    <3>1. CASE Len(mine) < MaxIncoming
      BY <1>2, <2>2, <2>3, <3>1
    <3>2. CASE ~(Len(mine) < MaxIncoming)
      <4>1. incoming # <<>>
        BY <1>2, <2>3, <3>2
      <4>2. /\ room \in Seq(Links) /\ Len(room) = Len(incoming) - 1
            /\ \A i \in 1 .. Len(room) : room[i] = l
        BY <1>2, <2>2, <3>2, <4>1, RemoveFirstFacts
      <4>3. Len(incoming) # 0
        BY <1>2, <2>3, <3>2
      <4> QED
        BY <1>2, <4>2, <4>3
    <3> QED
      BY <3>1, <3>2
  <2> HIDE DEF room
  <2>5. /\ incoming' \in Seq(Links) /\ Len(incoming') = Len(room) + 1
        /\ \A i \in 1 .. Len(room) : incoming'[i] = room[i]
        /\ incoming'[Len(room) + 1] = l
    BY <2>1, <2>4, AppendProperties
  <2>6. \A i \in 1 .. Len(incoming') : incoming'[i] = l
    BY <2>4, <2>5
  <2>7. IncomingOK(incoming', routes)
    BY <1>2, <2>1, <2>4, <2>5, <2>6 DEF IncomingOK
  <2> QED
    BY <2>1, <2>7 DEF Inv
<1>4. CASE linkActivated(l)
  <2> DEFINE others == kept(routes, Links \ {l})
             h == kept(incoming, {l})
  <2>1. /\ changes < MaxChanges /\ changes' = changes + 1
        /\ routes' = Append(others, l)
        /\ incoming' = h
        /\ UNCHANGED <<call, todo, engine, loop, posted, shown, gate, outgoing, carrier,
                       commands>>
    BY <1>4 DEF linkActivated, heard
  <2>2. others \in Seq(Links)
    BY <1>2, KeptFacts
  <2>3. h \in Seq(Links) /\ Len(h) <= Len(incoming) /\ \A i \in 1 .. Len(h) : h[i] \in {l}
    BY <1>2, KeptFacts
  <2> HIDE DEF others, h
  <2>4. routes' \in Seq(Links) /\ routes' # <<>> /\ Last(routes') = l
    <3>1. /\ routes' \in Seq(Links) /\ routes' # <<>> /\ Len(routes') = Len(others) + 1
          /\ routes'[Len(others) + 1] = l
      BY <2>1, <2>2, AppendProperties
    <3> QED
      BY <3>1 DEF Last
  <2>5. Len(h) <= MaxIncoming
    <3>1. Len(h) \in Nat
      BY <2>3
    <3> QED
      BY <1>2, <2>3, <3>1
  <2>6. IncomingOK(incoming', routes')
    BY <2>1, <2>3, <2>4, <2>5 DEF IncomingOK
  <2>7. changes' \in 0 .. MaxChanges
    BY <1>2, <2>1
  <2> QED
    BY <2>1, <2>6, <2>7 DEF Inv
<1>5. CASE linkRemoved(l)
  <2> DEFINE open == kept(routes, Links \ {l})
             q == kept(incoming, Links \ {l})
  <2>1. /\ changes < MaxChanges /\ changes' = changes + 1
        /\ routes' = open /\ incoming' = q
        /\ UNCHANGED <<call, todo, engine, loop, posted, shown, gate, outgoing, carrier,
                       commands>>
    BY <1>5 DEF linkRemoved
  <2>2. /\ open \in Seq(Links)
        /\ routes # <<>> /\ Last(routes) \in Links \ {l}
             => open # <<>> /\ Last(open) = Last(routes)
    BY <1>2, KeptFacts
  <2>3. /\ q \in Seq(Links) /\ Len(q) <= Len(incoming)
        /\ \A i \in 1 .. Len(q) :
             q[i] \in Links \ {l} /\ \E j \in 1 .. Len(incoming) : q[i] = incoming[j]
    <3> DEFINE W == Links \ {l}
    <3> HIDE DEF W
    <3>1. /\ kept(incoming, W) \in Seq(Links) /\ Len(kept(incoming, W)) <= Len(incoming)
          /\ \A i \in 1 .. Len(kept(incoming, W)) :
               /\ kept(incoming, W)[i] \in W
               /\ \E j \in 1 .. Len(incoming) : kept(incoming, W)[i] = incoming[j]
      BY <1>2, KeptFacts
    <3> QED
      BY <3>1 DEF W
  <2> HIDE DEF open, q
  <2>4. ASSUME NEW i \in 1 .. Len(q) PROVE open # <<>> /\ q[i] = Last(open)
    <3>1. q[i] \in Links \ {l} /\ q[i] = Last(routes) /\ routes # <<>>
      BY <1>2, <2>3
    <3> QED
      BY <2>2, <3>1
  <2>5. Len(q) <= MaxIncoming
    <3>1. Len(q) \in Nat
      BY <2>3
    <3> QED
      BY <1>2, <2>3, <3>1
  <2>6. IncomingOK(incoming', routes')
    BY <2>1, <2>2, <2>3, <2>4, <2>5 DEF IncomingOK
  <2>7. changes' \in 0 .. MaxChanges
    BY <1>2, <2>1
  <2> QED
    BY <2>1, <2>6, <2>7 DEF Inv
<1> QED
  BY <1>1, <1>3, <1>4, <1>5

\* Every step keeps the invariant.
LEMMA StepInv == Inv /\ [Next]_vars => Inv'
<1> SUFFICES ASSUME Inv, [Next]_vars PROVE Inv'
  OBVIOUS
<1>1. CASE User
  BY <1>1, UserStep
<1>2. CASE Main
  BY <1>2, GateStep, FlagStep, TalkingStep, StartStep, StopStep, DiscardStep, DeliverStep
  DEF Main
<1>3. CASE Worker
  BY <1>3, ChunkStep, TalkStep, PostStep, EncodeStep DEF Worker
<1>4. CASE Carrier
  BY <1>4, CarrierStep
<1>5. CASE Network
  BY <1>5, NetworkStep
<1>6. CASE UNCHANGED vars
  BY <1>6 DEF vars, Inv
<1> QED
  BY <1>1, <1>2, <1>3, <1>4, <1>5, <1>6 DEF Next

-----------------------------------------------------------------------------
(* The theorems.                                                           *)

\* The inductive invariant holds in every reachable state.
THEOREM VoiceInvariant == Spec => []Inv
<1>1. Init => Inv
  BY InitInv
<1>2. Inv /\ [Next]_vars => Inv'
  BY StepInv
<1> QED
  BY <1>1, <1>2, PTL DEF Spec

\* Nothing said while silenced is on its way out, and of a peer with two links only
\* the newest is heard: RtpAudioEngine's run, updateConnection and enqueueIncoming.
THEOREM AlwaysHeardAsMeant == Spec => []HeardAsMeant
<1>1. Inv => HeardAsMeant
  <2> SUFFICES ASSUME Inv PROVE HeardAsMeant
    OBVIOUS
  <2>1. /\ \A i \in 1 .. Len(incoming) : routes # <<>> /\ incoming[i] = Last(routes)
        /\ incoming \in Seq(Links)
        /\ \A i \in 1 .. Len(outgoing) : outgoing[i] = FALSE
        /\ outgoing \in Seq(BOOLEAN)
    BY DEF Inv, IncomingOK, OutgoingOK
  <2>2. DOMAIN incoming = 1 .. Len(incoming) /\ DOMAIN outgoing = 1 .. Len(outgoing)
    BY <2>1
  <2> QED
    BY <2>1, <2>2 DEF HeardAsMeant, NothingOverheard, OneRouteHeard
<1> QED
  BY <1>1, VoiceInvariant, PTL

\* With no command under way the main thread, the engine and its worker agree on who
\* talks and on whether the microphone is open.
THEOREM ThreadsAlwaysAgree == Spec => []ThreadsAgree
<1>1. Inv => ThreadsAgree
  <2> SUFFICES ASSUME Inv PROVE ThreadsAgree
    OBVIOUS
  <2>1. TypeOK
    BY DEF Inv, TypeOK, CallOK, CallType, GatesOK, LoopOK, LoopType, OutgoingOK, IncomingOK, CarrierOK, CarrierType
  <2>2. Rest => KindsOf(todo) = {}
    BY ShapeEmpty DEF Rest
  <2>3. IndicatorIsTrue
    <3> SUFFICES ASSUME posted = <<>>, Rest, loop.pc # "post" PROVE shown = engine.talking
      BY DEF IndicatorIsTrue
    <3>1. 1 .. Len(posted) = {}
      OBVIOUS
    <3> QED
      BY <2>2, <3>1 DEF Inv, Telling
  <2>4. MicrophoneReleased
    <3> SUFFICES ASSUME Rest, ~call.active, ~call.testing PROVE ~call.running /\ loop = NoLoop
      BY DEF MicrophoneReleased
    <3>1. ~call.running
      BY DEF Inv, CallOK
    <3> QED
      BY <2>2, <3>1 DEF Inv, OnTurn
  <2> QED
    BY <2>1, <2>3, <2>4 DEF ThreadsAgree
<1> QED
  BY <1>1, VoiceInvariant, PTL

\* No frame passes a gate whose closing has returned: setReceiveEnabled and
\* setTransmitEnabled of the transport, and the order of every command's steps.
THEOREM GatesAlwaysHold == Spec => GatesHold
<1> DEFINE Held == /\ carrier.pc = "sending" /\ carrier'.out # carrier.out
                        => ~Rest \/ canTransmit(call)
                   /\ carrier.pc = "handing" /\ carrier'.in # carrier.in
                        => ~Rest \/ call.active
<1>1. Inv => Held
  <2> SUFFICES ASSUME Inv PROVE Held
    OBVIOUS
  <2>1. Rest => KindsOf(todo) = {} /\ todo = <<>>
    BY ShapeEmpty DEF Rest
  <2>2. ASSUME Rest, NEW k, NEW on, NEW was, Agrees(todo, k, on, was) PROVE was = on
    <3>1. ~Ends(todo, k, on)
      <4>1. 1 .. Len(todo) = {}
        BY <2>1, <2>2
      <4> QED
        BY <4>1 DEF Ends
    <3> QED
      BY <2>2, <3>1 DEF Agrees
  <2>3. Rest => gate.receive = call.active /\ gate.transmit = canTransmit(call)
    BY <2>2 DEF Inv, GatesOK
  <2> QED
    BY <2>3 DEF Inv, CarrierOK, CarrierType
<1>2. [][Inv]_vars => [][Held]_vars
  <2>1. [Inv]_vars => [Held]_vars
    BY <1>1
  <2> QED
    BY <2>1, PTL
<1> QED
  BY <1>2, VoiceInvariant, PTL DEF GatesHold
=============================================================================
