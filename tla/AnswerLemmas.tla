---------------------------- MODULE AnswerLemmas -----------------------------
(*****************************************************************************)
(* The requests of a page that are in flight, in the order they were sent,   *)
(* and what an answer leaves of them: those sent later, and those sent       *)
(* before, which it has overtaken.                                           *)
(*****************************************************************************)
EXTENDS Naturals, Sequences, SequencesExt, SequenceTheorems, TLAPS

\* What an answer leaves of the requests in flight: those after it, and those
\* before it, overtaken.
LEMMA Removal ==
  ASSUME NEW S, NEW q \in Seq(S), NEW i \in 1 .. Len(q)
  PROVE  /\ RemoveAt(q, i) \in Seq(S)
         /\ Len(RemoveAt(q, i)) = Len(q) - 1
         /\ \A j \in 1 .. Len(q) - 1 : RemoveAt(q, i)[j] = IF j < i THEN q[j] ELSE q[j + 1]
<1> DEFINE a == SubSeq(q, 1, i - 1)
           b == SubSeq(q, i + 1, Len(q))
<1>1. a \in Seq(S) /\ Len(a) = i - 1 /\ \A j \in 1 .. i - 1 : a[j] = q[j]
  OBVIOUS
<1>2. b \in Seq(S) /\ Len(b) = Len(q) - i /\ \A j \in 1 .. Len(q) - i : b[j] = q[i + j]
  OBVIOUS
<1>3. RemoveAt(q, i) = a \o b
  BY DEF RemoveAt
<1> HIDE DEF a, b
<1>4. a \o b \in Seq(S) /\ Len(a \o b) = Len(q) - 1
  <2>1. a \o b \in Seq(S) /\ Len(a \o b) = Len(a) + Len(b)
    BY <1>1, <1>2, ConcatProperties
  <2>2. Len(q) \in Nat /\ (i - 1) + (Len(q) - i) = Len(q) - 1
    OBVIOUS
  <2> QED BY <1>1, <1>2, <2>1, <2>2
<1>5. ASSUME NEW j \in 1 .. Len(q) - 1 PROVE (a \o b)[j] = IF j < i THEN q[j] ELSE q[j + 1]
  <2>1. CASE j < i
    BY <1>1, <1>2, <2>1
  <2>2. CASE ~(j < i)
    <3>1. (a \o b)[j] = b[j - Len(a)]
      BY <1>1, <1>2, <2>2
    <3>2. j - (i - 1) \in 1 .. Len(q) - i /\ i + (j - (i - 1)) = j + 1
      BY <2>2
    <3> QED BY <1>1, <1>2, <2>2, <3>1, <3>2
  <2> QED BY <2>1, <2>2
<1> QED
  BY <1>3, <1>4, <1>5

\* The requests in flight once the i-th has been answered.
AfterAnswer(q, i) ==
  RemoveAt([j \in DOMAIN q |-> IF j < i THEN [q[j] EXCEPT !.overtaken = TRUE] ELSE q[j]], i)

\* Those that stay are what they were, but for what the answer has overtaken.
LEMMA AnswerLeaves ==
  ASSUME NEW S, NEW q \in Seq(S), NEW i \in 1 .. Len(q),
         \A r \in S : [r EXCEPT !.overtaken = TRUE] \in S
  PROVE  LET left == AfterAnswer(q, i) IN
         /\ left \in Seq(S) /\ Len(left) = Len(q) - 1
         /\ \A j \in 1 .. Len(q) - 1 :
              left[j] = IF j < i THEN [q[j] EXCEPT !.overtaken = TRUE] ELSE q[j + 1]
<1> DEFINE f == [j \in DOMAIN q |-> IF j < i THEN [q[j] EXCEPT !.overtaken = TRUE] ELSE q[j]]
           left == RemoveAt(f, i)
<1>1. Len(q) \in Nat /\ DOMAIN q = 1 .. Len(q) /\ \A j \in 1 .. Len(q) : q[j] \in S
  OBVIOUS
<1>2. f \in Seq(S) /\ Len(f) = Len(q)
  <2>1. \A j \in 1 .. Len(q) : f[j] \in S
    BY <1>1
  <2>2. f \in [1 .. Len(q) -> S]
    BY <1>1, <2>1
  <2> HIDE DEF f
  <2> QED BY <1>1, <2>2, IsASeq, LenProperties
<1>3. \A j \in 1 .. Len(q) : f[j] = IF j < i THEN [q[j] EXCEPT !.overtaken = TRUE] ELSE q[j]
  BY <1>1
<1> HIDE DEF f
<1>4. /\ left \in Seq(S) /\ Len(left) = Len(q) - 1
      /\ \A j \in 1 .. Len(q) - 1 : left[j] = IF j < i THEN f[j] ELSE f[j + 1]
  <2>1. i \in 1 .. Len(f)
    BY <1>2
  <2>2. /\ left \in Seq(S) /\ Len(left) = Len(f) - 1
        /\ \A j \in 1 .. Len(f) - 1 : left[j] = IF j < i THEN f[j] ELSE f[j + 1]
    BY <1>2, <2>1, Removal
  <2> QED BY <1>2, <2>2
<1> HIDE DEF left
<1>5. ASSUME NEW j \in 1 .. Len(q) - 1
      PROVE  left[j] = IF j < i THEN [q[j] EXCEPT !.overtaken = TRUE] ELSE q[j + 1]
  <2>1. /\ j \in 1 .. Len(q) /\ j + 1 \in 1 .. Len(q) /\ i \in Int
        /\ ~(j < i) => ~(j + 1 < i)
    BY <1>1
  <2> QED BY <1>3, <1>4, <2>1
<1> QED
  BY <1>4, <1>5 DEF AfterAnswer, left, f

\* The newest request stays the newest unless it is the one that is answered; then
\* all that are left are overtaken.
LEMMA NewestStays ==
  ASSUME NEW S, NEW q \in Seq(S), NEW i \in 1 .. Len(q),
         \A r \in S : [r EXCEPT !.overtaken = TRUE] \in S
                        /\ [r EXCEPT !.overtaken = TRUE].overtaken = TRUE
  PROVE  LET left == AfterAnswer(q, i) IN
         /\ left \in Seq(S)
         /\ left = <<>> => i = Len(q)
         /\ left # <<>> /\ ~left[Len(left)].overtaken
              => q # <<>> /\ left[Len(left)] = q[Len(q)] /\ ~q[Len(q)].overtaken
<1> DEFINE left == AfterAnswer(q, i)
<1>1. q # <<>> /\ Len(q) \in Nat /\ \A j \in 1 .. Len(q) : q[j] \in S
  OBVIOUS
<1>2. /\ left \in Seq(S) /\ Len(left) = Len(q) - 1
      /\ \A j \in 1 .. Len(q) - 1 :
           left[j] = IF j < i THEN [q[j] EXCEPT !.overtaken = TRUE] ELSE q[j + 1]
  BY AnswerLeaves
<1> HIDE DEF left
<1>3. ASSUME left = <<>> PROVE i = Len(q)
  <2>1. Len(q) - 1 = 0
    BY <1>2, <1>3, EmptySeq
  <2>2. \A n \in Nat : \A k \in 1 .. n : n - 1 = 0 => k = n
    OBVIOUS
  <2> QED BY <1>1, <2>1, <2>2
<1>4. ASSUME left # <<>>, ~left[Len(left)].overtaken
      PROVE  left[Len(left)] = q[Len(q)]
  <2>1. Len(left) \in 1 .. Len(q) - 1 /\ Len(left) = Len(q) - 1 /\ Len(left) \in 1 .. Len(q)
    BY <1>1, <1>2, <1>4, EmptySeq
  <2>2. q[Len(left)] \in S
    BY <1>1, <2>1
  <2>3. ~(Len(left) < i)
    BY <1>2, <1>4, <2>1, <2>2
  <2>4. left[Len(left)] = q[Len(left) + 1]
    BY <1>2, <2>1, <2>3
  <2>5. Len(left) + 1 = Len(q)
    BY <1>1, <2>1
  <2> QED BY <2>4, <2>5
<1> QED
  BY <1>1, <1>2, <1>3, <1>4 DEF left

\* A request is overtaken with every one that was sent before it.
Ordered(q) ==
  \A j, k \in 1 .. Len(q) : j < k /\ q[k].overtaken = TRUE => q[j].overtaken = TRUE

LEMMA AnswerKeepsOrder ==
  ASSUME NEW S, NEW q \in Seq(S), NEW i \in 1 .. Len(q), Ordered(q),
         \A r \in S : [r EXCEPT !.overtaken = TRUE] \in S
                        /\ [r EXCEPT !.overtaken = TRUE].overtaken = TRUE
  PROVE  Ordered(AfterAnswer(q, i))
<1> DEFINE left == AfterAnswer(q, i)
<1>1. Len(q) \in Nat /\ \A j \in 1 .. Len(q) : q[j] \in S
  OBVIOUS
<1>2. /\ Len(left) = Len(q) - 1
      /\ \A j \in 1 .. Len(q) - 1 :
           left[j] = IF j < i THEN [q[j] EXCEPT !.overtaken = TRUE] ELSE q[j + 1]
  BY AnswerLeaves
<1> HIDE DEF left
<1>3. ASSUME NEW j \in 1 .. Len(left), NEW k \in 1 .. Len(left), j < k,
             left[k].overtaken = TRUE
      PROVE  left[j].overtaken = TRUE
  <2>1. j \in 1 .. Len(q) - 1 /\ k \in 1 .. Len(q) - 1 /\ j \in 1 .. Len(q)
    BY <1>1, <1>2
  <2>2. CASE j < i
    BY <1>1, <1>2, <2>1, <2>2
  <2>3. CASE ~(j < i)
    <3>1. ~(k < i) /\ j + 1 \in 1 .. Len(q) /\ k + 1 \in 1 .. Len(q) /\ j + 1 < k + 1
      BY <1>1, <1>3, <2>1, <2>3
    <3> QED BY <1>2, <1>3, <2>1, <2>3, <3>1 DEF Ordered
  <2> QED BY <2>2, <2>3
<1> QED
  BY <1>3 DEF Ordered, left

==============================================================================
