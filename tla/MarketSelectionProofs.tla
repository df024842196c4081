------------------------- MODULE MarketSelectionProofs -------------------------
(***************************************************************************)
(* The selected market, its subscriptions and its chart, for every set of   *)
(* symbols and intervals: what the client wants, what it tracks and what the*)
(* server keeps for it agree at every step of every session, however the    *)
(* frames under way interleave with choices, failures and new sessions. What*)
(* the server ends up with is a fold of the frames under way (Applied); the *)
(* first part shows, by induction on their number, how that fold begins,    *)
(* ends and composes.                                                       *)
(***************************************************************************)
EXTENDS MarketSelection, SequenceTheorems, FiniteSetTheorems, WellFoundedInduction, TLAPS

(* Induction, as a fact about sets: one that contains 0, and n + 1         *)
(* whenever it contains n, contains every natural number.                  *)
LEMMA NatSetInduction ==
  ASSUME NEW S, 0 \in S, \A n \in Nat : n \in S => n + 1 \in S
  PROVE  Nat \subseteq S
<1> DEFINE Below == {pair \in Nat \X Nat : pair[1] < pair[2]}
<1> SUFFICES ASSUME Nat \ S # {} PROVE FALSE
  OBVIOUS
<1>1. IsWellFoundedOn(Below, Nat)
  BY NatLessThanWellFounded DEF OpToRel
<1>2. PICK x \in Nat \ S : \A y \in Nat \ S : <<y, x>> \notin Below
  <2> HIDE DEF Below
  <2> QED
    BY <1>1, WFMin
<1>3. x - 1 \in Nat /\ <<x - 1, x>> \in Below /\ x - 1 + 1 = x
  OBVIOUS
<1> QED
  BY <1>2, <1>3

(* g goes from the subscriptions ss through the frames fs, one at a time, as*)
(* the gateway applies them.                                                *)
Course(g, ss, fs) ==
    /\ g[0] = ss
    /\ \A k \in 1..Len(fs) : g[k] = Applied(g[k - 1], fs[k])

\* h is the function FoldLeft chooses, for fs up to n.
IsFold(h, ss, fs, n) ==
    h = [s \in SUBSET (1..n) |->
           IF s = {} THEN ss ELSE Applied(h[s \ {Max(s)}], fs[Max(s)])]

(* The greatest element of a set is what CHOOSE finds for Max.              *)
LEMMA GreatestIsMax ==
  ASSUME NEW S \in SUBSET Int, NEW m \in S, \A y \in S : y <= m
  PROVE  Max(S) = m
<1>1. \A y \in S : m >= y
  OBVIOUS
<1>2. Max(S) \in S /\ \A y \in S : Max(S) >= y
  BY <1>1 DEF Max
<1>3. Max(S) >= m /\ m >= Max(S) /\ m \in Int /\ Max(S) \in Int
  BY <1>1, <1>2
<1> QED
  BY <1>3

(* FoldLeft is defined over the sets of positions by a choice: by induction *)
(* on the number of frames, there is a function to choose.                  *)
LEMMA FoldExists ==
  ASSUME NEW ss, NEW fs, NEW n \in Nat
  PROVE  \E h : IsFold(h, ss, fs, n)
<1> DEFINE Good == {m \in Nat : \E h : IsFold(h, ss, fs, m)}
<1>1. 0 \in Good
  <2> DEFINE h == [s \in SUBSET (1..0) |-> ss]
  <2>1. h = [s \in SUBSET (1..0) |->
                       IF s = {} THEN ss ELSE Applied(h[s \ {Max(s)}], fs[Max(s)])]
    OBVIOUS
  <2> QED
    BY <2>1 DEF IsFold
<1>2. ASSUME NEW m \in Nat, m \in Good PROVE m + 1 \in Good
  <2>1. PICK h : IsFold(h, ss, fs, m)
    BY <1>2
  <2> DEFINE hh == [s \in SUBSET (1..m + 1) |->
                      IF m + 1 \in s THEN Applied(h[s \ {m + 1}], fs[m + 1]) ELSE h[s]]
  <2>2. ASSUME NEW s \in SUBSET (1..m + 1)
        PROVE hh[s] = IF s = {} THEN ss ELSE Applied(hh[s \ {Max(s)}], fs[Max(s)])
    <3>1. CASE m + 1 \in s
      <4>1. Max(s) = m + 1
        BY <3>1, GreatestIsMax
      <4>2. s \ {m + 1} \in SUBSET (1..m + 1) /\ m + 1 \notin s \ {m + 1} /\ s # {}
        BY <3>1
      <4>3. hh[s \ {m + 1}] = h[s \ {m + 1}]
        BY <4>2
      <4>4. hh[s] = Applied(h[s \ {m + 1}], fs[m + 1])
        BY <3>1
      <4> HIDE DEF hh
      <4> QED
        BY <4>1, <4>2, <4>3, <4>4
    <3>2. CASE m + 1 \notin s
      <4>0. ASSUME NEW x \in s PROVE x \in 1..m
        BY <3>2
      <4>1. s \in SUBSET (1..m) /\ s \ {Max(s)} \in SUBSET (1..m + 1) /\ m + 1 \notin s \ {Max(s)}
        BY <3>2, <4>0
      <4>2. hh[s] = h[s] /\ hh[s \ {Max(s)}] = h[s \ {Max(s)}]
        BY <3>2, <4>1
      <4>3. h[s] = IF s = {} THEN ss ELSE Applied(h[s \ {Max(s)}], fs[Max(s)])
        BY <2>1, <4>1 DEF IsFold
      <4> HIDE DEF hh
      <4> QED
        BY <4>2, <4>3
    <3> QED
      BY <3>1, <3>2
  <2>3. hh = [s \in SUBSET (1..m + 1) |-> IF s = {} THEN ss ELSE Applied(hh[s \ {Max(s)}], fs[Max(s)])]
    <3>1. hh = [s \in SUBSET (1..m + 1) |-> hh[s]]
      OBVIOUS
    <3> HIDE DEF hh
    <3> QED
      BY <2>2, <3>1
  <2> HIDE DEF hh
  <2>4. IsFold(hh, ss, fs, m + 1)
    BY <2>3 DEF IsFold
  <2>5. m + 1 \in Nat
    OBVIOUS
  <2> QED
    BY <2>4, <2>5
<1> HIDE DEF Good
<1>3. n \in Good
  BY <1>1, <1>2, NatSetInduction
<1> QED
  BY <1>3 DEF Good

(* So the fold of the frames is the end of a course through them.           *)
LEMMA FoldHasCourse ==
  ASSUME NEW ss, NEW fs \in Seq(Frame)
  PROVE  \E g : Course(g, ss, fs) /\ FoldLeft(Applied, ss, fs) = g[Len(fs)]
<1> DEFINE iter == CHOOSE h : IsFold(h, ss, fs, Len(fs))
           g == [k \in 0..Len(fs) |-> iter[1..k]]
<1>0. Len(fs) \in Nat /\ DOMAIN fs = 1..Len(fs)
  BY LenProperties
<1>1. IsFold(iter, ss, fs, Len(fs))
  BY FoldExists, <1>0, Zenon
<1>2. FoldLeft(Applied, ss, fs) = iter[1..Len(fs)]
  BY <1>0 DEF FoldLeft, MapThenFoldSet, IsFold
<1> HIDE DEF iter
<1>3. g[0] = ss
  <2>1. 1..0 = {} /\ {} \in SUBSET (1..Len(fs)) /\ 0 \in 0..Len(fs)
    BY <1>0
  <2> QED
    BY <1>1, <2>1 DEF IsFold
<1>4. ASSUME NEW k \in 1..Len(fs) PROVE g[k] = Applied(g[k - 1], fs[k])
  <2>1. k \in 0..Len(fs) /\ k - 1 \in 0..Len(fs) /\ k \in Nat /\ k >= 1 /\ k <= Len(fs)
    BY <1>0
  <2>2. Max(1..k) = k
    <3>1. 1..k \in SUBSET Int /\ k \in 1..k /\ \A y \in 1..k : y <= k
      BY <2>1
    <3> QED
      BY <3>1, GreatestIsMax
  <2>3. 1..k # {} /\ 1..k \in SUBSET (1..Len(fs)) /\ 1..(k - 1) \in SUBSET (1..Len(fs))
    <3>1. \A x \in 1..k : x \in 1..Len(fs)
      BY <1>0, <2>1
    <3>2. \A x \in 1..(k - 1) : x \in 1..Len(fs)
      BY <1>0, <2>1
    <3>3. k \in 1..k
      BY <2>1
    <3> QED
      BY <3>1, <3>2, <3>3
  <2>4. (1..k) \ {k} = 1..(k - 1)
    BY <2>1
  <2> QED
    BY <1>1, <2>1, <2>2, <2>3, <2>4 DEF IsFold
<1> QED
  <2>1. Course(g, ss, fs)
    BY <1>3, <1>4 DEF Course
  <2>2. FoldLeft(Applied, ss, fs) = g[Len(fs)]
    BY <1>2, <1>0
  <2> HIDE DEF g
  <2> QED
    BY <2>1, <2>2

(* There is one course of the server's subscriptions.                      *)
LEMMA OneCourse ==
  ASSUME NEW ss, NEW fs \in Seq(Frame), NEW g, NEW h, Course(g, ss, fs), Course(h, ss, fs)
  PROVE  g[Len(fs)] = h[Len(fs)]
<1> DEFINE Same == {k \in Nat : k <= Len(fs) => g[k] = h[k]}
<1>0. Len(fs) \in Nat
  BY LenProperties
<1>1. 0 \in Same
  BY DEF Course
<1>2. ASSUME NEW k \in Nat, k \in Same PROVE k + 1 \in Same
  <2>1. k + 1 \in Nat /\ (k + 1) - 1 = k
    OBVIOUS
  <2>2. ASSUME k + 1 <= Len(fs) PROVE g[k + 1] = h[k + 1]
    <3>1. k + 1 \in 1..Len(fs) /\ k <= Len(fs)
      BY <1>0, <2>2
    <3>2. g[k] = h[k]
      BY <1>2, <3>1
    <3>3. g[k + 1] = Applied(g[k], fs[k + 1]) /\ h[k + 1] = Applied(h[k], fs[k + 1])
      BY <2>1, <3>1 DEF Course
    <3> QED
      BY <3>2, <3>3
  <2> QED
    BY <2>1, <2>2
<1> HIDE DEF Same
<1>3. Len(fs) \in Same
  BY <1>0, <1>1, <1>2, NatSetInduction
<1> QED
  BY <1>3 DEF Same

(* A course ends where the fold does.                                      *)
LEMMA CourseEndsInFold ==
  ASSUME NEW ss, NEW fs \in Seq(Frame), NEW g, Course(g, ss, fs)
  PROVE  FoldLeft(Applied, ss, fs) = g[Len(fs)]
<1>1. PICK h : Course(h, ss, fs) /\ FoldLeft(Applied, ss, fs) = h[Len(fs)]
  BY FoldHasCourse, Zenon
<1> HIDE DEF Course
<1> QED
  BY <1>1, OneCourse

(* Without frames the fold is where it starts, a frame more is one step    *)
(* more, and the first frame can be taken first.                           *)
LEMMA FoldOfNone == \A ss : FoldLeft(Applied, ss, <<>>) = ss
<1> SUFFICES ASSUME NEW ss PROVE FoldLeft(Applied, ss, <<>>) = ss
  OBVIOUS
<1>1. << >> \in Seq(Frame) /\ Len(<< >>) = 0
  BY EmptySeq
<1>2. Course([k \in {0} |-> ss], ss, << >>)
  BY <1>1 DEF Course
<1> QED
  BY <1>1, <1>2, CourseEndsInFold

(* One more frame is applied last.                                          *)
LEMMA FoldOfAppend ==
  ASSUME NEW ss, NEW fs \in Seq(Frame), NEW f \in Frame
  PROVE  FoldLeft(Applied, ss, Append(fs, f)) = Applied(FoldLeft(Applied, ss, fs), f)
<1>1. PICK g : Course(g, ss, fs) /\ FoldLeft(Applied, ss, fs) = g[Len(fs)]
  BY FoldHasCourse, Zenon
<1> DEFINE n == Len(fs)
           more == Append(fs, f)
           h == [k \in 0..n + 1 |-> IF k = n + 1 THEN Applied(g[n], f) ELSE g[k]]
<1>2. /\ n \in Nat /\ more \in Seq(Frame) /\ Len(more) = n + 1 /\ more[n + 1] = f
      /\ \A k \in 1..n : more[k] = fs[k]
  BY AppendProperties, LenProperties
<1>3. Course(h, ss, more)
  <2>1. h[0] = ss
    BY <1>1, <1>2 DEF Course
  <2>2. ASSUME NEW k \in 1..n + 1 PROVE h[k] = Applied(h[k - 1], more[k])
    <3>1. CASE k = n + 1
      <4>1. k \in 0..n + 1 /\ k - 1 = n /\ n \in 0..n + 1 /\ n # n + 1
        BY <1>2, <3>1
      <4> QED
        BY <1>2, <3>1, <4>1
    <3>2. CASE k # n + 1
      <4>1. k \in 0..n + 1 /\ k - 1 \in 0..n + 1 /\ k - 1 # n + 1 /\ k \in 1..n
        BY <1>2, <3>2
      <4>2. g[k] = Applied(g[k - 1], fs[k])
        BY <1>1, <4>1 DEF Course
      <4> QED
        BY <1>2, <3>2, <4>1, <4>2
    <3> QED
      BY <3>1, <3>2
  <2> HIDE DEF h
  <2> QED
    BY <1>2, <2>1, <2>2 DEF Course
<1>4. h[n + 1] = Applied(g[n], f)
  BY <1>2
<1> HIDE DEF h
<1>5. FoldLeft(Applied, ss, more) = h[Len(more)]
  BY <1>2, <1>3, CourseEndsInFold
<1> QED
  BY <1>1, <1>2, <1>4, <1>5

(* Applying the head first and folding the rest from there comes to the     *)
(* same: what the gateway does with each frame it takes from the socket     *)
(* (HandleFrame).                                                           *)
LEMMA FoldFromHead ==
  ASSUME NEW ss, NEW fs \in Seq(Frame), fs # << >>
  PROVE  FoldLeft(Applied, Applied(ss, Head(fs)), Tail(fs)) = FoldLeft(Applied, ss, fs)
<1>1. PICK g : Course(g, ss, fs) /\ FoldLeft(Applied, ss, fs) = g[Len(fs)]
  BY FoldHasCourse, Zenon
<1> DEFINE n == Len(Tail(fs))
           h == [k \in 0..n |-> g[k + 1]]
<1>2. /\ n \in Nat /\ Tail(fs) \in Seq(Frame) /\ Len(fs) = n + 1 /\ Head(fs) = fs[1]
      /\ \A k \in 1..n : Tail(fs)[k] = fs[k + 1]
  BY HeadTailProperties, LenProperties, EmptySeq
<1>3. Course(h, Applied(ss, Head(fs)), Tail(fs))
  <2>1. h[0] = Applied(ss, Head(fs))
    <3>1. 0 \in 0..n /\ 1 \in 1..Len(fs)
      BY <1>2
    <3> QED
      BY <1>1, <1>2, <3>1 DEF Course
  <2>2. ASSUME NEW k \in 1..n PROVE h[k] = Applied(h[k - 1], Tail(fs)[k])
    <3>1. k \in 0..n /\ k - 1 \in 0..n /\ k + 1 \in 1..Len(fs) /\ (k + 1) - 1 = k /\ (k - 1) + 1 = k
      BY <1>2
    <3>2. g[k + 1] = Applied(g[k], fs[k + 1])
      BY <1>1, <3>1 DEF Course
    <3> QED
      BY <1>2, <3>1, <3>2
  <2> HIDE DEF h
  <2> QED
    BY <1>2, <2>1, <2>2 DEF Course
<1>4. h[n] = g[n + 1]
  BY <1>2
<1> HIDE DEF h
<1>5. FoldLeft(Applied, Applied(ss, Head(fs)), Tail(fs)) = h[n]
  BY <1>2, <1>3, CourseEndsInFold
<1> QED
  BY <1>1, <1>2, <1>4, <1>5

(* Frames that follow others start from where those led.                   *)
LEMMA FoldOfConcat ==
  ASSUME NEW ss, NEW fs \in Seq(Frame), NEW more \in Seq(Frame),
         NEW h, Course(h, FoldLeft(Applied, ss, fs), more)
  PROVE  FoldLeft(Applied, ss, fs \o more) = h[Len(more)]
<1> DEFINE n == Len(fs)
           m == Len(more)
           start == FoldLeft(Applied, ss, fs)
<1>1. PICK g : Course(g, ss, fs) /\ start = g[n]
  BY FoldHasCourse, Zenon
<1> DEFINE all == [k \in 0..n + m |-> IF k <= n THEN g[k] ELSE h[k - n]]
<1>2. /\ n \in Nat /\ m \in Nat /\ fs \o more \in Seq(Frame) /\ Len(fs \o more) = n + m
      /\ \A k \in 1..n + m : (fs \o more)[k] = IF k <= n THEN fs[k] ELSE more[k - n]
  BY ConcatProperties, LenProperties
<1>3. g[n] = h[0]
  BY <1>1 DEF Course
<1> HIDE DEF start
<1>4. Course(all, ss, fs \o more)
  <2>1. all[0] = ss
    BY <1>1, <1>2 DEF Course
  <2>2. ASSUME NEW k \in 1..n + m PROVE all[k] = Applied(all[k - 1], (fs \o more)[k])
    <3>0. k \in 0..n + m /\ k - 1 \in 0..n + m /\ k \in Nat
      BY <1>2
    <3>1. CASE k <= n
      <4>1. k - 1 <= n /\ k \in 1..n
        BY <1>2, <3>0, <3>1
      <4>2. g[k] = Applied(g[k - 1], fs[k])
        BY <1>1, <4>1 DEF Course
      <4>3. all[k] = g[k] /\ all[k - 1] = g[k - 1] /\ (fs \o more)[k] = fs[k]
        BY <1>2, <3>0, <3>1, <4>1
      <4> HIDE DEF all
      <4> QED
        BY <4>2, <4>3
    <3>2. CASE k > n
      <4>1. k - n \in 1..m /\ (k - n) - 1 = (k - 1) - n /\ (k - 1 <= n => k - 1 = n)
            /\ n - n = 0 /\ ~(k <= n)
        BY <1>2, <3>0, <3>2
      <4>2. h[k - n] = Applied(h[(k - 1) - n], more[k - n])
        BY <4>1 DEF Course
      <4>3. all[k] = h[k - n] /\ (fs \o more)[k] = more[k - n]
        BY <1>2, <3>0, <4>1
      <4>4. all[k - 1] = h[(k - 1) - n]
        BY <1>2, <1>3, <3>0, <4>1
      <4> HIDE DEF all
      <4> QED
        BY <4>2, <4>3, <4>4
    <3> QED
      BY <1>2, <3>0, <3>1, <3>2
  <2> HIDE DEF all
  <2> QED
    BY <1>2, <2>1, <2>2 DEF Course
<1>5. all[n + m] = h[m]
  <2>1. n + m \in 0..n + m /\ (n + m) - n = m /\ (n + m <= n => m = 0 /\ n + m = n)
    BY <1>2
  <2> QED
    BY <1>3, <2>1
<1> HIDE DEF all
<1>6. FoldLeft(Applied, ss, fs \o more) = all[Len(fs \o more)]
  BY <1>2, <1>4, CourseEndsInFold
<1> QED
  BY <1>2, <1>5, <1>6

------------------------------------------------------------------------------
(* SetToSeq lists every element of a finite set.                           *)
LEMMA Listed ==
  ASSUME NEW S, IsFiniteSet(S)
  PROVE  /\ Cardinality(S) \in Nat
         /\ \A n \in 1..Cardinality(S) : SetToSeq(S)[n] \in S
         /\ \A x \in S : \E n \in 1..Cardinality(S) : SetToSeq(S)[n] = x
<1> DEFINE c == Cardinality(S)
           q == SetToSeq(S)
<1>1. c \in Nat /\ ExistsBijection(1..c, S)
  BY FS_CardinalityType
<1>2. \E f \in [1..c -> S] : IsInjective(f)
  BY <1>1 DEF ExistsBijection, Bijection, Injection
<1>3. q \in [1..c -> S] /\ IsInjective(q)
  BY <1>2 DEF SetToSeq
<1>4. q \in Injection(1..c, S)
  BY <1>3 DEF Injection
<1>5. Cardinality(1..c) = c
  BY <1>1, FS_Interval
<1> HIDE DEF c, q
<1>6. q \in Surjection(1..c, S)
  BY <1>4, <1>5, FS_Injection DEF c
<1> QED
  BY <1>1, <1>3, <1>6 DEF Surjection, c, q

(* What each frame does to the server's subscriptions.                     *)
LEMMA AppliedFrames ==
  ASSUME NEW ss \in Subscriptions, NEW s \in Symbol, NEW i \in Interval
  PROVE  /\ Applied(ss, Subscribe(s, i)) = [ss EXCEPT ![s] = i]
         /\ ss[s] # None => Applied(ss, SetInterval(s, i)) = [ss EXCEPT ![s] = i]
         /\ Subscribe(s, i) \in Frame /\ SetInterval(s, i) \in Frame
BY DEF Applied, Subscribe, SetInterval, Frame, Subscriptions

(* Unsubscribing a symbol leaves nothing wanted of it and the rest as it was*)
(* (the gateway's unsubscribe handler).                                     *)
LEMMA AppliedUnsubscribe ==
  ASSUME NEW ss \in Subscriptions, NEW s \in Symbol
  PROVE  Unsubscribe(s) \in Frame /\ Applied(ss, Unsubscribe(s)) = [ss EXCEPT ![s] = None]
BY DEF Applied, Unsubscribe, Frame

(* What is sent on a new session asks for everything that is wanted.       *)
LEMMA ReapplyAsksForAll ==
  ASSUME desired \in Subscriptions, IsFiniteSet(Wanted(desired))
  PROVE  Reapply \in Seq(Frame) /\ FoldLeft(Applied, Nothing, Reapply) = desired
<1> DEFINE all == Wanted(desired)
           c == Cardinality(all)
           q == SetToSeq(all)
           g == [k \in 0..c |->
                   [s \in Symbol |-> IF \E j \in 1..k : q[j] = s THEN desired[s] ELSE None]]
<1>1. /\ c \in Nat
      /\ \A n \in 1..c : q[n] \in Symbol /\ desired[q[n]] \in Interval
      /\ \A s \in Symbol : desired[s] # None => \E n \in 1..c : q[n] = s
  <2>1. /\ c \in Nat
        /\ \A n \in 1..c : q[n] \in all
        /\ \A x \in all : \E n \in 1..c : q[n] = x
    BY Listed
  <2> HIDE DEF c, q
  <2> QED
    BY <2>1 DEF Wanted, Subscriptions
<1>2. Reapply = [n \in 1..c |-> Subscribe(q[n], desired[q[n]])]
  BY DEF Reapply
<1> HIDE DEF c, q
<1>3. \A n \in 1..c : Subscribe(q[n], desired[q[n]]) \in Frame
  BY <1>1 DEF Subscribe, Frame
<1>4. Reapply \in Seq(Frame) /\ Len(Reapply) = c
      /\ \A n \in 1..c : Reapply[n] = Subscribe(q[n], desired[q[n]])
  BY <1>1, <1>2, <1>3
<1>5. Course(g, Nothing, Reapply)
  <2>1. g[0] = Nothing
    BY <1>1 DEF Nothing
  <2>2. ASSUME NEW k \in 1..c PROVE g[k] = Applied(g[k - 1], Reapply[k])
    <3>1. k \in 0..c /\ k - 1 \in 0..c /\ k \in Nat /\ k >= 1
      BY <1>1
    <3>2. \A j : j \in 1..k <=> j \in 1..k - 1 \/ j = k
      BY <3>1
    <3>3. g[k] = [s \in Symbol |-> IF \E j \in 1..k : q[j] = s THEN desired[s] ELSE None]
          /\ g[k - 1] = [s \in Symbol |-> IF \E j \in 1..k - 1 : q[j] = s THEN desired[s] ELSE None]
      BY <3>1
    <3> HIDE DEF g
    <3>4. g[k - 1] \in Subscriptions
      BY <3>3 DEF Subscriptions
    <3>5. Applied(g[k - 1], Reapply[k]) = [g[k - 1] EXCEPT ![q[k]] = desired[q[k]]]
      <4>1. q[k] \in Symbol /\ desired[q[k]] \in Interval
            /\ Reapply[k] = Subscribe(q[k], desired[q[k]])
        BY <1>1, <1>4
      <4> QED
        BY <3>4, <4>1, AppliedFrames
    <3>6. [g[k - 1] EXCEPT ![q[k]] = desired[q[k]]]
          = [s \in Symbol |-> IF s = q[k] THEN desired[s] ELSE g[k - 1][s]]
      BY <1>1, <3>4 DEF Subscriptions
    <3>7. ASSUME NEW s \in Symbol
          PROVE  (IF \E j \in 1..k : q[j] = s THEN desired[s] ELSE None)
                 = IF s = q[k] THEN desired[s] ELSE g[k - 1][s]
      BY <3>2, <3>3
    <3> QED
      BY <3>3, <3>5, <3>6, <3>7
  <2> HIDE DEF g
  <2> QED
    BY <1>4, <2>1, <2>2 DEF Course
<1>6. g[c] = desired
  <2>1. c \in 0..c
    BY <1>1
  <2>2. ASSUME NEW s \in Symbol PROVE (IF \E j \in 1..c : q[j] = s THEN desired[s] ELSE None) = desired[s]
    BY <1>1
  <2>3. desired = [s \in Symbol |-> desired[s]]
    BY DEF Subscriptions
  <2> QED
    BY <2>1, <2>2, <2>3
<1> HIDE DEF g
<1> QED
  BY <1>4, <1>5, <1>6, CourseEndsInFold

(* What is sent to drop the other symbols drops them and nothing else.     *)
Dropping(gone) == [n \in 1..Cardinality(gone) |-> Unsubscribe(SetToSeq(gone)[n])]

(* The fold of those frames leaves exactly the other subscriptions.         *)
LEMMA DroppingDrops ==
  ASSUME NEW gone \in SUBSET Symbol, IsFiniteSet(gone), NEW ss, NEW fs \in Seq(Frame),
         FoldLeft(Applied, ss, fs) \in Subscriptions
  PROVE  /\ Dropping(gone) \in Seq(Frame)
         /\ FoldLeft(Applied, ss, fs \o Dropping(gone))
            = [s \in Symbol |-> IF s \in gone THEN None ELSE FoldLeft(Applied, ss, fs)[s]]
<1> DEFINE c == Cardinality(gone)
           q == SetToSeq(gone)
           start == FoldLeft(Applied, ss, fs)
           frames == Dropping(gone)
           g == [k \in 0..c |->
                   [s \in Symbol |-> IF \E j \in 1..k : q[j] = s THEN None ELSE start[s]]]
<1>1. /\ c \in Nat
      /\ \A n \in 1..c : q[n] \in gone
      /\ \A s \in gone : \E n \in 1..c : q[n] = s
  BY Listed
<1>2. frames = [n \in 1..c |-> Unsubscribe(q[n])]
  BY DEF Dropping
<1>0. start \in Subscriptions
  OBVIOUS
<1> HIDE DEF c, q, start, frames
<1>3. \A n \in 1..c : q[n] \in Symbol /\ Unsubscribe(q[n]) \in Frame
  BY <1>1 DEF Unsubscribe, Frame
<1>4. frames \in Seq(Frame) /\ Len(frames) = c /\ \A n \in 1..c : frames[n] = Unsubscribe(q[n])
  BY <1>1, <1>2, <1>3
<1>5. Course(g, start, frames)
  <2>1. g[0] = start
    <3>1. 0 \in 0..c /\ ~\E j \in 1..0 : TRUE
      BY <1>1
    <3>2. start = [s \in Symbol |-> start[s]]
      BY <1>0 DEF Subscriptions
    <3>3. g[0] = [s \in Symbol |-> IF \E j \in 1..0 : q[j] = s THEN None ELSE start[s]]
      BY <3>1
    <3> HIDE DEF g
    <3> QED
      BY <3>1, <3>2, <3>3
  <2>2. ASSUME NEW k \in 1..c PROVE g[k] = Applied(g[k - 1], frames[k])
    <3>1. k \in 0..c /\ k - 1 \in 0..c /\ k \in Nat /\ k >= 1
      BY <1>1
    <3>2. \A j : j \in 1..k <=> j \in 1..k - 1 \/ j = k
      BY <3>1
    <3>3. g[k] = [s \in Symbol |-> IF \E j \in 1..k : q[j] = s THEN None ELSE start[s]]
          /\ g[k - 1] = [s \in Symbol |-> IF \E j \in 1..k - 1 : q[j] = s THEN None ELSE start[s]]
      BY <3>1
    <3> HIDE DEF g
    <3>4. g[k - 1] \in Subscriptions
      BY <1>0, <3>3 DEF Subscriptions
    <3>5. Applied(g[k - 1], frames[k]) = [g[k - 1] EXCEPT ![q[k]] = None]
      <4>1. q[k] \in Symbol /\ frames[k] = Unsubscribe(q[k])
        BY <1>3, <1>4
      <4> QED
        BY <3>4, <4>1, AppliedUnsubscribe
    <3>6. [g[k - 1] EXCEPT ![q[k]] = None]
          = [s \in Symbol |-> IF s = q[k] THEN None ELSE g[k - 1][s]]
      BY <1>3, <3>4 DEF Subscriptions
    <3>7. ASSUME NEW s \in Symbol
          PROVE  (IF \E j \in 1..k : q[j] = s THEN None ELSE start[s])
                 = IF s = q[k] THEN None ELSE g[k - 1][s]
      BY <3>2, <3>3
    <3> QED
      BY <3>3, <3>5, <3>6, <3>7
  <2> HIDE DEF g
  <2> QED
    BY <1>4, <2>1, <2>2 DEF Course
<1>6. g[c] = [s \in Symbol |-> IF s \in gone THEN None ELSE start[s]]
  <2>1. c \in 0..c
    BY <1>1
  <2> QED
    BY <1>1, <2>1
<1> HIDE DEF g
<1>7. FoldLeft(Applied, ss, fs \o frames) = g[Len(frames)]
  BY <1>4, <1>5, FoldOfConcat DEF start
<1> QED
  BY <1>4, <1>6, <1>7 DEF frames, start

------------------------------------------------------------------------------
(* The registry and the connection state.                                  *)
LEMMA SyncingTracks ==
  ASSUME NEW bs \in [Symbol -> Status], NEW s \in Symbol
  PROVE  Syncing(bs, s) \in [Symbol -> Status] /\ Tracked(Syncing(bs, s)) = Tracked(bs) \cup {s}
<1>1. StatusToSync(bs[s]) \in {"SYNCING", "RESYNCING"}
  BY DEF StatusToSync
<1>2. Syncing(bs, s) = [x \in Symbol |-> IF x = s THEN StatusToSync(bs[s]) ELSE bs[x]]
  BY DEF Syncing
<1> QED
  BY <1>1, <1>2 DEF Status, Tracked

(* A subscription adds its symbol to what is wanted.                        *)
LEMMA SubscribedWants ==
  ASSUME NEW ss \in Subscriptions, NEW s \in Symbol, NEW i \in Interval
  PROVE  /\ [ss EXCEPT ![s] = i] \in Subscriptions
         /\ Wanted([ss EXCEPT ![s] = i]) = Wanted(ss) \cup {s}
         /\ [ss EXCEPT ![s] = i][s] = i
BY NoneAssumption DEF Subscriptions, Wanted

(* removeInactive keeps the selected symbol and no other.                   *)
LEMMA OnlySelectedKeeps ==
  ASSUME TypeOK
  PROVE  /\ OnlySelected(books, "absent") \in [Symbol -> Status]
         /\ Tracked(OnlySelected(books, "absent")) = Tracked(books) \ Inactive
         /\ OnlySelected(desired, None) \in Subscriptions
         /\ Wanted(OnlySelected(desired, None)) = Wanted(desired) \ Inactive
         /\ market \in Symbol => OnlySelected(desired, None)[market] = desired[market]
                              /\ OnlySelected(books, "absent")[market] = books[market]
<1> USE DEF TypeOK
<1>1. /\ OnlySelected(books, "absent") = [s \in Symbol |-> IF s \in Inactive THEN "absent" ELSE books[s]]
      /\ OnlySelected(desired, None) = [s \in Symbol |-> IF s \in Inactive THEN None ELSE desired[s]]
      /\ market \notin Inactive
  BY DEF OnlySelected, Inactive
<1> QED
  BY <1>1 DEF Status, Subscriptions, Tracked, Wanted

(* The connection state follows a change of the registry: it is LIVE after *)
(* it only when every book is merged.                                      *)
LEMMA NotifiedIsLive ==
  ASSUME NEW c \in {"down", "SYNCING", "LIVE"}, NEW bs
  PROVE  /\ Notified(c, bs) \in {"down", "SYNCING", "LIVE"}
         /\ Notified(c, bs) = "LIVE" => AllSynchronized(bs)
         /\ Notified(c, bs) = "down" <=> c = "down"
BY DEF Notified

------------------------------------------------------------------------------
(* What the four properties rest on besides each other.                    *)
Idle == desired = Nothing /\ conn = "down" /\ history = "none" /\ snapshot = "none" /\ shown = NoScope

(* The inductive invariant: the four properties, with what ties the chart's *)
(* requests to the selection.                                               *)
SelectionInv ==
    /\ TypeOK
    /\ TrackedIsWanted
    /\ ServerFollowsClient
    /\ LiveMeansSynchronized
    /\ ChartKeepsItsFeed
    /\ ChartSettles
    /\ IsFiniteSet(Wanted(desired))
    /\ interval = None => market = None
    /\ market = None => Idle
    /\ history # "none" => requested = <<market, interval>>

(* What holds of the selected market.                                      *)
LEMMA SelectedFacts ==
  ASSUME SelectionInv, market # None
  PROVE  /\ market \in Symbol /\ interval \in Interval /\ interval # None
         /\ desired[market] = interval /\ books[market] # "absent"
         /\ market \in Wanted(desired) /\ market \in Tracked(books)
BY NoneAssumption DEF SelectionInv, TypeOK, TrackedIsWanted, Tracked, Wanted

------------------------------------------------------------------------------
(* Types, and what is spent.                                               *)
LEMMA SpendBounded ==
  ASSUME spent \in Bounds,
         NEW what \in {"action", "refresh", "session", "hole", "failure", "refused"}, Spend(what)
  PROVE  /\ spent' \in Bounds
         /\ IF what = "refused" THEN spent'.refused # 0 ELSE spent'.refused = spent.refused
         /\ IF what = "failure" THEN spent'.failure # 0 ELSE spent'.failure = spent.failure
<1> USE BoundAssumption
<1>1. spent' = [spent EXCEPT ![what] = @ + 1]
  BY DEF Spend
<1>2. /\ spent.action \in Nat /\ spent.session \in Nat /\ spent.refresh \in Nat
      /\ spent.hole \in Nat /\ spent.failure \in Nat /\ spent.refused \in Nat
  BY DEF Bounds
<1>3. CASE what = "action"
  BY <1>1, <1>2, <1>3 DEF Spend, Bounds
<1>4. CASE what = "session"
  BY <1>1, <1>2, <1>4 DEF Spend, Bounds
<1>5. ASSUME what \notin {"action", "session"}
      PROVE  spent.refresh + spent.hole + spent.failure + spent.refused < MaxDisturbances
  BY <1>5 DEF Spend, Disturbances
<1>6. ASSUME what \notin {"action", "session"}
      PROVE  /\ spent.refresh + 1 \in 0..MaxDisturbances /\ spent.hole + 1 \in 0..MaxDisturbances
             /\ spent.failure + 1 \in 0..MaxDisturbances /\ spent.refused + 1 \in 0..MaxDisturbances
  BY <1>2, <1>5, <1>6
<1>7. CASE what = "refresh"
  BY <1>1, <1>2, <1>6, <1>7 DEF Bounds
<1>8. CASE what = "hole"
  BY <1>1, <1>2, <1>6, <1>8 DEF Bounds
<1>9. CASE what = "failure"
  BY <1>1, <1>2, <1>6, <1>9 DEF Bounds
<1>10. CASE what = "refused"
  BY <1>1, <1>2, <1>6, <1>10 DEF Bounds
<1> QED
  BY <1>3, <1>4, <1>7, <1>8, <1>9, <1>10

(* Sending frames, or having no socket to send them on, keeps the types of  *)
(* the uplink and of the server's set.                                      *)
LEMMA SendTypes ==
  ASSUME TypeOK, NEW frames \in Seq(Frame), Send(frames)
  PROVE  uplink' \in Seq(Frame)
BY ConcatProperties DEF Send, TypeOK

(* Steps of one frame, or none, whatever becomes of the rest.              *)
LEMMA RemoveInactiveTypes ==
  ASSUME TypeOK, IsFiniteSet(Wanted(desired)), RemoveInactive
  PROVE  /\ desired' = OnlySelected(desired, None) /\ desired' \in Subscriptions
         /\ Send(Dropping(Inactive)) /\ uplink' \in Seq(Frame)
         /\ IsFiniteSet(Inactive) /\ Inactive \in SUBSET Symbol
<1>1. IsFiniteSet(Inactive) /\ Inactive \in SUBSET Symbol
  BY FS_Subset DEF Inactive, Wanted
<1>2. FoldLeft(Applied, desired, << >>) \in Subscriptions /\ << >> \in Seq(Frame)
  BY FoldOfNone, EmptySeq DEF TypeOK
<1>3. Dropping(Inactive) \in Seq(Frame)
  BY <1>1, <1>2, DroppingDrops
<1>4. Send(Dropping(Inactive))
  BY DEF RemoveInactive, Dropping
<1> QED
  BY <1>1, <1>3, <1>4, SendTypes, OnlySelectedKeeps DEF RemoveInactive

(* Every step keeps the types.                                              *)
LEMMA TypesPreserved ==
  ASSUME SelectionInv, [Next]_vars
  PROVE  TypeOK'
<1>0. /\ TypeOK /\ spent \in Bounds /\ books \in [Symbol -> Status] /\ desired \in Subscriptions
      /\ conn \in {"down", "SYNCING", "LIVE"} /\ (conn = "LIVE" => AllSynchronized(books))
      /\ uplink \in Seq(Frame) /\ served \in Subscriptions /\ << >> \in Seq(Frame)
      /\ Nothing \in Subscriptions /\ IsFiniteSet(Wanted(desired)) /\ (market = None => Idle)
  BY EmptySeq DEF SelectionInv, TypeOK, LiveMeansSynchronized, Nothing, Subscriptions
<1>1. ASSUME NEW s \in Symbol, SelectMarket(s) PROVE TypeOK'
  <2>1. /\ spent' \in Bounds /\ interval \in Interval
    BY <1>0, <1>1, SpendBounded, SelectedFacts DEF SelectMarket
  <2>2. desired' \in Subscriptions /\ uplink' \in Seq(Frame)
    <3>1. <<Subscribe(s, interval)>> \in Seq(Frame) /\ Send(<<Subscribe(s, interval)>>)
      BY <1>0, <1>1, <2>1, AppliedFrames DEF SelectMarket
    <3> QED
      BY <1>0, <1>1, <2>1, <3>1, SendTypes, SubscribedWants DEF SelectMarket
  <2>3. books' \in [Symbol -> Status] /\ conn' \in {"down", "SYNCING", "LIVE"}
    <3>1. Become(Syncing(books, s), conn)
      BY <1>1 DEF SelectMarket
    <3>2. Syncing(books, s) \in [Symbol -> Status]
      BY <1>0, SyncingTracks
    <3>3. books' = Syncing(books, s) /\ (conn' = conn \/ conn' = Notified(conn, Syncing(books, s)))
      BY <3>1 DEF Become
    <3> QED
      BY <1>0, <3>2, <3>3, NotifiedIsLive
  <2>4. {requested', shown'} \subseteq (Symbol \X Interval) \cup {NoScope}
    BY <1>0, <1>1, <2>1 DEF SelectMarket, StartLoad, TypeOK
  <2> QED
    BY <1>0, <1>1, <2>1, <2>2, <2>3, <2>4 DEF SelectMarket, StartLoad, TypeOK
<1>2. ASSUME NEW i \in Interval, SelectInterval(i) PROVE TypeOK'
  <2>1. /\ spent' \in Bounds /\ market \in Symbol
    BY <1>0, <1>2, SpendBounded, SelectedFacts DEF SelectInterval
  <2>2. desired' \in Subscriptions /\ uplink' \in Seq(Frame)
    <3>1. <<SetInterval(market, i)>> \in Seq(Frame) /\ Send(<<SetInterval(market, i)>>)
      BY <1>0, <1>2, <2>1, AppliedFrames DEF SelectInterval
    <3> QED
      BY <1>0, <1>2, <2>1, <3>1, SendTypes, SubscribedWants DEF SelectInterval
  <2>3. {requested', shown'} \subseteq (Symbol \X Interval) \cup {NoScope}
    BY <1>0, <1>2, <2>1 DEF SelectInterval, TypeOK
  <2> QED
    BY <1>0, <1>2, <2>1, <2>2, <2>3 DEF SelectInterval, TypeOK
<1>3. CASE Refresh
  <2>1. spent' \in Bounds /\ market \in Symbol /\ interval \in Interval
    BY <1>0, <1>3, SpendBounded, SelectedFacts DEF Refresh
  <2>2. books' \in [Symbol -> Status] /\ conn' \in {"down", "SYNCING", "LIVE"}
    <3>1. Become(Syncing(books, market), conn)
      BY <1>3 DEF Refresh
    <3>2. Syncing(books, market) \in [Symbol -> Status]
      BY <1>0, <2>1, SyncingTracks
    <3>3. books' = Syncing(books, market) /\ (conn' = conn \/ conn' = Notified(conn, Syncing(books, market)))
      BY <3>1 DEF Become
    <3> QED
      BY <1>0, <3>2, <3>3, NotifiedIsLive
  <2>3. {requested', shown'} \subseteq (Symbol \X Interval) \cup {NoScope}
    BY <1>0, <1>3, <2>1 DEF Refresh, StartLoad, TypeOK
  <2> QED
    BY <1>0, <1>3, <2>1, <2>2, <2>3 DEF Refresh, StartLoad, TypeOK, scopeVars, serverVars
<1>4. CASE Hello
  <2>1. spent' \in Bounds /\ served' \in Subscriptions
    BY <1>0, <1>4, SpendBounded DEF Hello
  <2>2. ASSUME NEW s \in Symbol, market' = s, desired' = [desired EXCEPT ![s] = interval],
               uplink' = <<Subscribe(s, interval)>>, StartLoad(s, TRUE),
               Become(Syncing(books, s), "SYNCING")
        PROVE  TypeOK'
    <3>1. interval \in Interval
      BY <1>0, <1>4 DEF Hello, TypeOK
    <3>2. desired' \in Subscriptions /\ uplink' \in Seq(Frame)
      <4>1. Subscribe(s, interval) \in Frame
        BY <1>0, <3>1, AppliedFrames
      <4> QED
        <5>1. desired' \in Subscriptions
          BY <1>0, <2>2, <3>1, SubscribedWants
        <5>2. uplink' \in Seq(Frame)
          BY <2>2, <4>1
        <5> QED
          BY <5>1, <5>2
    <3>3. books' \in [Symbol -> Status] /\ conn' \in {"down", "SYNCING", "LIVE"}
      BY <1>0, <2>2, SyncingTracks DEF Become, Notified
    <3>4. {requested', shown'} \subseteq (Symbol \X Interval) \cup {NoScope}
      BY <1>0, <1>4, <2>2, <3>1 DEF Hello, StartLoad, TypeOK
    <3> QED
      BY <1>0, <1>4, <2>1, <2>2, <3>1, <3>2, <3>3, <3>4 DEF Hello, StartLoad, TypeOK
  <2>3. ASSUME market # None, uplink' = Reapply, StartLoad(market, FALSE),
               Become(Syncing(books, market), "SYNCING"), UNCHANGED <<market, desired>>
        PROVE  TypeOK'
    <3>1. market \in Symbol /\ interval \in Interval
      BY <2>3, SelectedFacts
    <3>2. uplink' \in Seq(Frame)
      BY <1>0, <2>3, ReapplyAsksForAll
    <3>3. books' \in [Symbol -> Status] /\ conn' \in {"down", "SYNCING", "LIVE"}
      BY <1>0, <2>3, <3>1, SyncingTracks DEF Become, Notified
    <3>4. {requested', shown'} \subseteq (Symbol \X Interval) \cup {NoScope}
      BY <1>0, <1>4, <2>3, <3>1 DEF Hello, StartLoad, TypeOK
    <3> QED
      BY <1>0, <1>4, <2>1, <2>3, <3>1, <3>2, <3>3, <3>4 DEF Hello, StartLoad, TypeOK
  <2> QED
    BY <1>4, <2>2, <2>3 DEF Hello
<1>5. CASE Disconnect
  BY <1>0, <1>5 DEF Disconnect, TypeOK, scopeVars, loadVars
<1>6. CASE HandleFrame
  <2>1. Head(uplink) \in Frame /\ uplink' \in Seq(Frame)
    BY <1>0, <1>6, HeadTailProperties DEF HandleFrame
  <2>2. Applied(served, Head(uplink)) \in Subscriptions
    BY <1>0, <2>1 DEF Applied, Frame, Subscriptions
  <2>3. served' \in Subscriptions /\ spent' \in Bounds
    BY <1>0, <1>6, <2>2, SpendBounded DEF HandleFrame
  <2> QED
    BY <1>0, <1>6, <2>1, <2>3 DEF HandleFrame, TypeOK, scopeVars, loadVars
<1>7. CASE Dispose
  BY <1>0, <1>7 DEF Dispose, TypeOK, Status, NoScope
<1>8. CASE HistoryApplied
  <2> DEFINE remove == history = "interval" \/ removing
             kept == IF remove THEN OnlySelected(books, "absent") ELSE books
  <2>1. desired' \in Subscriptions /\ uplink' \in Seq(Frame)
    BY <1>0, <1>8, RemoveInactiveTypes DEF HistoryApplied
  <2>2. kept \in [Symbol -> Status] /\ market \in Symbol
    BY <1>0, <1>8, OnlySelectedKeeps, SelectedFacts DEF HistoryApplied, Idle
  <2>3. /\ history' = "none" /\ shown' = requested /\ requested' = NoScope
        /\ IF retry THEN RefreshBook /\ Become(Syncing(kept, market), conn)
           ELSE Become(kept, conn) /\ UNCHANGED <<snapshot, retry>>
        /\ UNCHANGED <<scopeVars, removing, served, spent>>
    BY <1>8 DEF HistoryApplied
  <2> HIDE DEF kept
  <2>4. books' \in [Symbol -> Status] /\ conn' \in {"down", "SYNCING", "LIVE"}
        /\ snapshot' \in {"none", "load", "refresh", "orphan"} /\ retry' \in BOOLEAN
    <3>1. CASE retry
      <4>1. Syncing(kept, market) \in [Symbol -> Status]
        BY <2>2, SyncingTracks
      <4>2. Become(Syncing(kept, market), conn) /\ snapshot' = "refresh" /\ retry' = FALSE
        BY <2>3, <3>1 DEF RefreshBook
      <4>3. /\ books' = Syncing(kept, market) /\ snapshot' = "refresh" /\ retry' = FALSE
            /\ conn' = conn \/ conn' = Notified(conn, Syncing(kept, market))
        BY <4>2 DEF Become
      <4> QED
        BY <1>0, <4>1, <4>3, NotifiedIsLive
    <3>2. CASE ~retry
      <4>1. Become(kept, conn) /\ UNCHANGED <<snapshot, retry>>
        BY <2>3, <3>2
      <4>2. books' \in [Symbol -> Status] /\ conn' \in {"down", "SYNCING", "LIVE"}
        <5>1. books' = kept /\ (conn' = conn \/ conn' = Notified(conn, kept))
          BY <4>1 DEF Become
        <5> QED
          BY <1>0, <2>2, <5>1, NotifiedIsLive
      <4> QED
        BY <1>0, <4>1, <4>2 DEF TypeOK
    <3> QED
      BY <3>1, <3>2
  <2> QED
    BY <1>0, <2>1, <2>3, <2>4 DEF TypeOK, scopeVars
<1>9. CASE HistoryFailed
  <2>1. spent' \in Bounds
    BY <1>0, <1>9, SpendBounded DEF HistoryFailed
  <2> QED
    BY <1>0, <1>9, <2>1 DEF HistoryFailed, TypeOK, scopeVars, serverVars
<1>10. CASE SnapshotMerged
  <2>1. [books EXCEPT ![market] = "SYNCHRONIZED"] \in [Symbol -> Status]
    BY <1>0 DEF Status
  <2>2. books' \in [Symbol -> Status] /\ conn' \in {"down", "SYNCING", "LIVE"}
    <3>1. Become([books EXCEPT ![market] = "SYNCHRONIZED"], conn)
      BY <1>10 DEF SnapshotMerged
    <3>2. [books EXCEPT ![market] = "SYNCHRONIZED"] \in [Symbol -> Status]
      BY <2>1
    <3>3. books' = [books EXCEPT ![market] = "SYNCHRONIZED"] /\ (conn' = conn \/ conn' = Notified(conn, [books EXCEPT ![market] = "SYNCHRONIZED"]))
      BY <3>1 DEF Become
    <3> QED
      BY <1>0, <3>2, <3>3, NotifiedIsLive
  <2> QED
    BY <1>0, <1>10, <2>2 DEF SnapshotMerged, TypeOK, scopeVars, serverVars
<1>11. CASE SnapshotLeavesHole
  <2>1. [books EXCEPT ![market] = "RESYNCING"] \in [Symbol -> Status]
    BY <1>0 DEF Status
  <2>2. books' \in [Symbol -> Status] /\ conn' \in {"down", "SYNCING", "LIVE"}
    <3>1. Become([books EXCEPT ![market] = "RESYNCING"], conn)
      BY <1>11 DEF SnapshotLeavesHole
    <3>2. [books EXCEPT ![market] = "RESYNCING"] \in [Symbol -> Status]
      BY <2>1
    <3>3. books' = [books EXCEPT ![market] = "RESYNCING"] /\ (conn' = conn \/ conn' = Notified(conn, [books EXCEPT ![market] = "RESYNCING"]))
      BY <3>1 DEF Become
    <3> QED
      BY <1>0, <3>2, <3>3, NotifiedIsLive
  <2>3. spent' \in Bounds
    BY <1>0, <1>11, SpendBounded DEF SnapshotLeavesHole
  <2>4. snapshot' \in {"none", "load", "refresh", "orphan"} /\ retry' \in BOOLEAN
    BY <1>0, <1>11 DEF SnapshotLeavesHole, RefreshBook, TypeOK
  <2> QED
    BY <1>0, <1>11, <2>2, <2>3, <2>4 DEF SnapshotLeavesHole, TypeOK, scopeVars, serverVars
<1>12. CASE SnapshotFailed
  <2>1. spent' \in Bounds
    BY <1>0, <1>12, SpendBounded DEF SnapshotFailed
  <2> QED
    BY <1>0, <1>12, <2>1 DEF SnapshotFailed, TypeOK, scopeVars, serverVars
<1>13. CASE Gap
  <2>1. spent' \in Bounds /\ market \in Symbol
    BY <1>0, <1>13, SpendBounded, SelectedFacts DEF Gap
  <2>2. books' \in [Symbol -> Status] /\ conn' \in {"down", "SYNCING", "LIVE"}
    <3>1. Become(Syncing(books, market), conn)
      BY <1>13 DEF Gap
    <3>2. Syncing(books, market) \in [Symbol -> Status]
      BY <1>0, <2>1, SyncingTracks
    <3>3. books' = Syncing(books, market) /\ (conn' = conn \/ conn' = Notified(conn, Syncing(books, market)))
      BY <3>1 DEF Become
    <3> QED
      BY <1>0, <3>2, <3>3, NotifiedIsLive
  <2> QED
    BY <1>0, <1>13, <2>1, <2>2 DEF Gap, RefreshBook, TypeOK, scopeVars, serverVars
<1>14. CASE UNCHANGED vars
  BY <1>0, <1>14 DEF vars, scopeVars, loadVars, serverVars, TypeOK
<1> QED
  BY <1>1, <1>2, <1>3, <1>4, <1>5, <1>6, <1>7, <1>8, <1>9, <1>10, <1>11, <1>12, <1>13, <1>14
     DEF Next

------------------------------------------------------------------------------
(* What is wanted is what is tracked.                                      *)
LEMMA AgreementPreserved ==
  ASSUME SelectionInv, [Next]_vars
  PROVE  TrackedIsWanted' /\ IsFiniteSet(Wanted(desired))'
<1>0. /\ TypeOK /\ books \in [Symbol -> Status] /\ desired \in Subscriptions
      /\ Tracked(books) = Wanted(desired) /\ IsFiniteSet(Wanted(desired))
      /\ (market # None => desired[market] = interval)
  BY DEF SelectionInv, TypeOK, TrackedIsWanted
<1>1. ASSUME NEW s \in Symbol, interval \in Interval, market' = s, interval' = interval,
             desired' = [desired EXCEPT ![s] = interval], books' = Syncing(books, s)
      PROVE  TrackedIsWanted' /\ IsFiniteSet(Wanted(desired))'
  <2>1. /\ Wanted(desired') = Wanted(desired) \cup {s} /\ desired'[s] = interval
        /\ Tracked(books') = Tracked(books) \cup {s}
    <3>1. Tracked(books') = Tracked(books) \cup {s}
      BY <1>0, <1>1, SyncingTracks
    <3>2. Wanted(desired') = Wanted(desired) \cup {s} /\ desired'[s] = interval
      BY <1>0, <1>1, SubscribedWants, ZenonT(40)
    <3> QED
      BY <3>1, <3>2
  <2>2. IsFiniteSet(Wanted(desired) \cup {s})
    BY <1>0, FS_AddElement
  <2> QED
    BY <1>0, <1>1, <2>1, <2>2 DEF TrackedIsWanted
<1>2. ASSUME market \in Symbol, books[market] # "absent", market \in Wanted(desired),
             \/ books' = Syncing(books, market)
             \/ \E st \in {"SYNCHRONIZED", "RESYNCING"} : books' = [books EXCEPT ![market] = st],
             UNCHANGED <<market, interval, desired>>
      PROVE  TrackedIsWanted' /\ IsFiniteSet(Wanted(desired))'
  <2>1. CASE books' = Syncing(books, market)
    <3>1. Tracked(books') = Tracked(books) \cup {market}
      BY <1>0, <1>2, <2>1, SyncingTracks
    <3> QED
      BY <1>0, <1>2, <3>1 DEF TrackedIsWanted
  <2>2. ASSUME NEW st \in {"SYNCHRONIZED", "RESYNCING"}, books' = [books EXCEPT ![market] = st]
        PROVE  TrackedIsWanted' /\ IsFiniteSet(Wanted(desired))'
    <3>1. Tracked(books') = Tracked(books)
      BY <1>0, <1>2, <2>2 DEF Tracked, Status
    <3> QED
      BY <1>0, <1>2, <3>1 DEF TrackedIsWanted
  <2> QED
    BY <1>2, <2>1, <2>2
<1>3. ASSUME NEW s \in Symbol, SelectMarket(s) PROVE TrackedIsWanted' /\ IsFiniteSet(Wanted(desired))'
  BY <1>1, <1>3, SelectedFacts DEF SelectMarket, Become
<1>4. ASSUME NEW i \in Interval, SelectInterval(i)
      PROVE  TrackedIsWanted' /\ IsFiniteSet(Wanted(desired))'
  <2>1. market \in Symbol /\ market \in Wanted(desired)
    BY <1>4, SelectedFacts DEF SelectInterval
  <2>2. desired' = [desired EXCEPT ![market] = i] /\ interval' = i /\ UNCHANGED <<market, books>>
    BY <1>4 DEF SelectInterval
  <2>3. Wanted(desired') = Wanted(desired) \cup {market} /\ desired'[market] = i
    BY <1>0, <2>1, <2>2, SubscribedWants, ZenonT(40)
  <2>4. Wanted(desired') = Wanted(desired)
    BY <2>1, <2>3
  <2> QED
    BY <1>0, <2>2, <2>3, <2>4 DEF TrackedIsWanted
<1>5. CASE Refresh
  BY <1>2, <1>5, SelectedFacts DEF Refresh, Become, scopeVars
<1>6. CASE Hello
  <2>1. ASSUME NEW s \in Symbol, market' = s, desired' = [desired EXCEPT ![s] = interval],
               Become(Syncing(books, s), "SYNCING")
        PROVE  TrackedIsWanted' /\ IsFiniteSet(Wanted(desired))'
    BY <1>0, <1>1, <1>6, <2>1 DEF Hello, Become, TypeOK
  <2>2. ASSUME market # None, Become(Syncing(books, market), "SYNCING"),
               UNCHANGED <<market, desired>>
        PROVE  TrackedIsWanted' /\ IsFiniteSet(Wanted(desired))'
    BY <1>2, <1>6, <2>2, SelectedFacts DEF Hello, Become
  <2> QED
    BY <1>6, <2>1, <2>2 DEF Hello
<1>7. CASE Disconnect \/ HandleFrame \/ HistoryFailed \/ SnapshotFailed \/ UNCHANGED vars
  <2>1. UNCHANGED <<market, interval, desired, books>>
    BY <1>7 DEF Disconnect, HandleFrame, HistoryFailed, SnapshotFailed, vars, scopeVars
  <2> QED
    BY <1>0, <2>1 DEF TrackedIsWanted
<1>8. CASE Dispose
  <2>1. desired' = Nothing /\ books' = [s \in Symbol |-> "absent"] /\ market' = None
    BY <1>8 DEF Dispose
  <2>2. Wanted(desired') = {} /\ Tracked(books') = {}
    BY <2>1 DEF Wanted, Tracked, Nothing
  <2> QED
    BY <2>1, <2>2, FS_EmptySet DEF TrackedIsWanted
<1>9. CASE HistoryApplied
  <2> DEFINE remove == history = "interval" \/ removing
             kept == IF remove THEN OnlySelected(books, "absent") ELSE books
  <2>1. /\ IF remove THEN RemoveInactive ELSE UNCHANGED <<desired, uplink>>
        /\ IF retry THEN RefreshBook /\ Become(Syncing(kept, market), conn)
           ELSE Become(kept, conn) /\ UNCHANGED <<snapshot, retry>>
        /\ UNCHANGED <<market, interval>>
    BY <1>9 DEF HistoryApplied, scopeVars
  <2>2. market # None
    BY <1>9 DEF HistoryApplied, SelectionInv, Idle
  <2>3. /\ market \in Symbol /\ market \in Wanted(desired) /\ desired[market] = interval
        /\ books[market] # "absent" /\ market \notin Inactive
    BY <2>2, SelectedFacts DEF Inactive
  <2>4. /\ Wanted(desired') = Tracked(kept) /\ kept \in [Symbol -> Status]
        /\ desired'[market] = interval /\ IsFiniteSet(Wanted(desired'))
        /\ market \in Tracked(kept)
    <3>1. CASE remove
      <4>1. /\ desired' = OnlySelected(desired, None)
            /\ Wanted(desired') = Wanted(desired) \ Inactive
            /\ desired'[market] = desired[market]
        BY <1>0, <2>1, <2>3, <3>1, OnlySelectedKeeps, RemoveInactiveTypes
      <4>2. /\ Tracked(kept) = Tracked(books) \ Inactive /\ kept \in [Symbol -> Status]
        BY <1>0, <3>1, OnlySelectedKeeps
      <4>3. IsFiniteSet(Wanted(desired) \ Inactive)
        BY <1>0, FS_Difference
      <4> QED
        BY <1>0, <2>3, <4>1, <4>2, <4>3
    <3>2. CASE ~remove
      BY <1>0, <2>1, <2>3, <3>2
    <3> QED
      BY <3>1, <3>2
  <2>5. books' = kept \/ books' = Syncing(kept, market)
    BY <2>1 DEF Become
  <2> HIDE DEF kept
  <2>6. Tracked(books') = Tracked(kept)
    <3>1. CASE books' = kept
      BY <3>1
    <3>2. CASE books' = Syncing(kept, market)
      <4>1. Tracked(Syncing(kept, market)) = Tracked(kept) \cup {market}
        BY <2>3, <2>4, SyncingTracks
      <4> QED
        BY <2>4, <3>2, <4>1
    <3> QED
      BY <2>5, <3>1, <3>2
  <2> QED
    BY <2>1, <2>4, <2>6 DEF TrackedIsWanted
<1>10. CASE SnapshotMerged \/ SnapshotLeavesHole \/ Gap
  <2>1. market # None
    BY <1>10 DEF SnapshotMerged, SnapshotLeavesHole, Gap, SelectionInv, Idle
  <2>2. /\ \/ books' = Syncing(books, market)
           \/ books' = [books EXCEPT ![market] = "SYNCHRONIZED"]
           \/ books' = [books EXCEPT ![market] = "RESYNCING"]
        /\ UNCHANGED <<market, interval, desired>>
    BY <1>10 DEF SnapshotMerged, SnapshotLeavesHole, Gap, Become, scopeVars
  <2> QED
    BY <1>2, <2>1, <2>2, SelectedFacts
<1> QED
  BY <1>3, <1>4, <1>5, <1>6, <1>7, <1>8, <1>9, <1>10 DEF Next

------------------------------------------------------------------------------
(* The frames under way lead to what is wanted.                            *)
LEMMA SentLeadsToDesired ==
  ASSUME TypeOK, ServerFollowsClient, NEW f \in Frame, NEW wanted,
         Applied(desired, f) = wanted, Send(<<f>>), desired' = wanted,
         conn' = "down" <=> conn = "down", UNCHANGED served, spent'.refused = spent.refused
  PROVE  ServerFollowsClient'
<1> SUFFICES ASSUME conn # "down", spent.refused = 0
             PROVE  FoldLeft(Applied, served', uplink') = desired'
  BY DEF ServerFollowsClient
<1>1. FoldLeft(Applied, served, uplink) = desired /\ uplink \in Seq(Frame)
  BY DEF ServerFollowsClient, TypeOK
<1>2. uplink' = Append(uplink, f)
  BY <1>1 DEF Send
<1>3. FoldLeft(Applied, served, Append(uplink, f)) = Applied(desired, f)
  BY <1>1, FoldOfAppend
<1> QED
  BY <1>2, <1>3

(* What the server has, after the frames under way, stays what the client   *)
(* wants: each handler that changes the registry sends the frames that make *)
(* the same change, and a new session asks for everything again.            *)
LEMMA FollowingPreserved ==
  ASSUME SelectionInv, [Next]_vars
  PROVE  ServerFollowsClient'
<1>0. /\ TypeOK /\ desired \in Subscriptions /\ served \in Subscriptions /\ uplink \in Seq(Frame)
      /\ ServerFollowsClient /\ IsFiniteSet(Wanted(desired)) /\ (market = None => Idle)
      /\ spent \in Bounds /\ conn \in {"down", "SYNCING", "LIVE"}
  BY DEF SelectionInv, TypeOK
<1>1. ASSUME NEW s \in Symbol, SelectMarket(s) PROVE ServerFollowsClient'
  <2>1. interval \in Interval /\ spent'.refused = spent.refused
    BY <1>0, <1>1, SelectedFacts, SpendBounded DEF SelectMarket
  <2>2. /\ Subscribe(s, interval) \in Frame
        /\ Applied(desired, Subscribe(s, interval)) = [desired EXCEPT ![s] = interval]
    BY <1>0, <2>1, AppliedFrames
  <2>3. /\ Send(<<Subscribe(s, interval)>>) /\ desired' = [desired EXCEPT ![s] = interval]
        /\ served' = served /\ (conn' = conn \/ conn' = Notified(conn, Syncing(books, s)))
    BY <1>1 DEF SelectMarket, Become
  <2>4. conn' = "down" <=> conn = "down"
    BY <1>0, <2>3, NotifiedIsLive
  <2> QED
    BY <1>0, <2>1, <2>2, <2>3, <2>4, SentLeadsToDesired
<1>2. ASSUME NEW i \in Interval, SelectInterval(i) PROVE ServerFollowsClient'
  <2>1. market \in Symbol /\ desired[market] # None /\ spent'.refused = spent.refused
    BY <1>0, <1>2, SelectedFacts, SpendBounded DEF SelectInterval
  <2>2. /\ SetInterval(market, i) \in Frame
        /\ Applied(desired, SetInterval(market, i)) = [desired EXCEPT ![market] = i]
    BY <1>0, <2>1, AppliedFrames
  <2>3. /\ Send(<<SetInterval(market, i)>>) /\ desired' = [desired EXCEPT ![market] = i]
        /\ served' = served /\ conn' = conn
    BY <1>2 DEF SelectInterval
  <2> QED
    BY <1>0, <2>1, <2>2, <2>3, SentLeadsToDesired
<1>3. ASSUME UNCHANGED <<desired, served, uplink>>, spent'.refused = spent.refused,
             conn = "down" => conn' = "down"
      PROVE  ServerFollowsClient'
  BY <1>0, <1>3 DEF ServerFollowsClient
<1>4. CASE Refresh \/ Gap \/ SnapshotLeavesHole
  <2>1. /\ UNCHANGED <<desired, served, uplink>>
        /\ \E bs : conn' = conn \/ conn' = Notified(conn, bs)
    BY <1>4 DEF Refresh, Gap, SnapshotLeavesHole, Become, serverVars
  <2>2. spent'.refused = spent.refused
    BY <1>0, <1>4, SpendBounded DEF Refresh, Gap, SnapshotLeavesHole
  <2> QED
    BY <1>0, <1>3, <2>1, <2>2, NotifiedIsLive
<1>5. CASE HistoryFailed \/ SnapshotFailed
  <2>1. UNCHANGED <<desired, served, uplink, conn>>
    BY <1>5 DEF HistoryFailed, SnapshotFailed, serverVars
  <2>2. spent'.refused = spent.refused
    BY <1>0, <1>5, SpendBounded DEF HistoryFailed, SnapshotFailed
  <2> QED
    BY <1>3, <2>1, <2>2
<1>6. CASE SnapshotMerged
  <2>1. /\ UNCHANGED <<desired, served, uplink, spent>>
        /\ \E bs : conn' = conn \/ conn' = Notified(conn, bs)
    BY <1>6 DEF SnapshotMerged, Become, serverVars
  <2> QED
    BY <1>0, <1>3, <2>1, NotifiedIsLive
<1>7. CASE UNCHANGED vars
  BY <1>3, <1>7 DEF vars, serverVars
<1>8. CASE Disconnect \/ Dispose
  BY <1>8 DEF Disconnect, Dispose, ServerFollowsClient
<1>9. CASE Hello
  <2>1. /\ served' = Nothing /\ Nothing \in Subscriptions
        /\ interval \in Interval
    BY <1>0, <1>9 DEF Hello, Nothing, Subscriptions, TypeOK
  <2>2. ASSUME market = None, NEW s \in Symbol, desired' = [desired EXCEPT ![s] = interval],
               uplink' = <<Subscribe(s, interval)>>
        PROVE  FoldLeft(Applied, served', uplink') = desired'
    <3>1. desired = Nothing
      BY <1>0, <2>2 DEF Idle
    <3>2. /\ Subscribe(s, interval) \in Frame /\ << >> \in Seq(Frame)
          /\ Applied(Nothing, Subscribe(s, interval)) = [Nothing EXCEPT ![s] = interval]
      BY <2>1, AppliedFrames, EmptySeq
    <3>3. FoldLeft(Applied, Nothing, Append(<< >>, Subscribe(s, interval)))
          = Applied(FoldLeft(Applied, Nothing, << >>), Subscribe(s, interval))
      BY <3>2, FoldOfAppend
    <3>4. FoldLeft(Applied, Nothing, << >>) = Nothing
      BY FoldOfNone
    <3>5. uplink' = Append(<< >>, Subscribe(s, interval))
      BY <2>2
    <3> QED
      BY <2>1, <2>2, <3>1, <3>2, <3>3, <3>4, <3>5
  <2>3. ASSUME uplink' = Reapply, UNCHANGED desired
        PROVE  FoldLeft(Applied, served', uplink') = desired'
    <3>1. FoldLeft(Applied, Nothing, Reapply) = desired
      BY <1>0, ReapplyAsksForAll
    <3> QED
      BY <2>1, <2>3, <3>1
  <2>4. FoldLeft(Applied, served', uplink') = desired'
    BY <1>9, <2>2, <2>3 DEF Hello
  <2> QED
    BY <2>4 DEF ServerFollowsClient
<1>10. CASE HandleFrame
  <2>1. /\ uplink # << >> /\ uplink' = Tail(uplink) /\ UNCHANGED <<desired, conn>>
        /\ \/ served' = Applied(served, Head(uplink)) /\ spent' = spent
           \/ Spend("refused")
    BY <1>10 DEF HandleFrame
  <2>2. CASE served' = Applied(served, Head(uplink)) /\ spent' = spent
    <3>1. FoldLeft(Applied, Applied(served, Head(uplink)), Tail(uplink))
          = FoldLeft(Applied, served, uplink)
      BY <1>0, <2>1, FoldFromHead
    <3>2. FoldLeft(Applied, served', uplink') = FoldLeft(Applied, served, uplink)
      BY <2>1, <2>2, <3>1
    <3> QED
      BY <1>0, <2>1, <2>2, <3>2 DEF ServerFollowsClient
  <2>3. CASE Spend("refused")
    <3>1. spent'.refused # 0
      BY <1>0, <2>3, SpendBounded
    <3> QED
      BY <3>1 DEF ServerFollowsClient
  <2> QED
    BY <2>1, <2>2, <2>3
<1>11. CASE HistoryApplied
  <2>1. /\ IF history = "interval" \/ removing THEN RemoveInactive ELSE UNCHANGED <<desired, uplink>>
        /\ \E bs : conn' = conn \/ conn' = Notified(conn, bs)
        /\ UNCHANGED <<served, spent>>
    BY <1>11 DEF HistoryApplied, Become
  <2>2. conn' = "down" <=> conn = "down"
    BY <1>0, <2>1, NotifiedIsLive
  <2>3. CASE UNCHANGED <<desired, uplink>>
    BY <1>3, <2>1, <2>2, <2>3
  <2>4. CASE RemoveInactive
    <3>1. /\ desired' = OnlySelected(desired, None) /\ Send(Dropping(Inactive))
          /\ IsFiniteSet(Inactive) /\ Inactive \in SUBSET Symbol
      BY <1>0, <2>4, RemoveInactiveTypes
    <3>2. ASSUME conn # "down", spent.refused = 0
          PROVE  FoldLeft(Applied, served, uplink \o Dropping(Inactive)) = desired'
      <4>1. FoldLeft(Applied, served, uplink) = desired
        BY <1>0, <3>2 DEF ServerFollowsClient
      <4>2. FoldLeft(Applied, served, uplink \o Dropping(Inactive))
            = [s \in Symbol |-> IF s \in Inactive THEN None
                                ELSE FoldLeft(Applied, served, uplink)[s]]
        BY <1>0, <3>1, <4>1, DroppingDrops
      <4> QED
        BY <3>1, <4>1, <4>2 DEF OnlySelected
    <3> QED
      BY <2>1, <2>2, <3>1, <3>2 DEF ServerFollowsClient, Send
  <2> QED
    BY <2>1, <2>3, <2>4
<1> QED
  BY <1>1, <1>2, <1>4, <1>5, <1>6, <1>7, <1>8, <1>9, <1>10, <1>11 DEF Next

------------------------------------------------------------------------------
(* LIVE only with every book merged.                                       *)
LEMMA LivePreserved ==
  ASSUME SelectionInv, [Next]_vars
  PROVE  LiveMeansSynchronized'
<1>0. /\ TypeOK /\ conn \in {"down", "SYNCING", "LIVE"} /\ (market = None => Idle)
      /\ (conn = "LIVE" => market # None /\ AllSynchronized(books))
  BY DEF SelectionInv, TypeOK, LiveMeansSynchronized
<1>1. ASSUME NEW bs, NEW c \in {"SYNCING", conn}, books' = bs,
             conn' = IF bs = books THEN c ELSE Notified(c, bs), market' # None \/ conn' = "down"
      PROVE  LiveMeansSynchronized'
  <2>1. CASE bs = books
    BY <1>0, <1>1, <2>1 DEF LiveMeansSynchronized
  <2>2. CASE bs # books
    BY <1>0, <1>1, <2>2, NotifiedIsLive DEF LiveMeansSynchronized
  <2> QED
    BY <2>1, <2>2
<1>2. ASSUME NEW s \in Symbol, SelectMarket(s) PROVE LiveMeansSynchronized'
  BY <1>1, <1>2, NoneAssumption DEF SelectMarket, Become
<1>3. CASE Refresh \/ Gap
  BY <1>1, <1>3 DEF Refresh, Gap, Become, scopeVars
<1>4. CASE SnapshotMerged \/ SnapshotLeavesHole
  <2>1. market' # None
    BY <1>0, <1>4 DEF SnapshotMerged, SnapshotLeavesHole, Idle, scopeVars
  <2> QED
    BY <1>1, <1>4, <2>1 DEF SnapshotMerged, SnapshotLeavesHole, Become
<1>5. CASE Hello
  <2>1. ASSUME NEW s \in Symbol, market' = s, Become(Syncing(books, s), "SYNCING")
        PROVE  LiveMeansSynchronized'
    BY <1>1, <2>1, NoneAssumption DEF Become
  <2>2. ASSUME market # None, market' = market, Become(Syncing(books, market), "SYNCING")
        PROVE  LiveMeansSynchronized'
    BY <1>1, <2>2 DEF Become
  <2> QED
    BY <1>5, <2>1, <2>2 DEF Hello
<1>6. CASE Disconnect \/ Dispose
  BY <1>6 DEF Disconnect, Dispose, LiveMeansSynchronized
<1>7. CASE HandleFrame \/ HistoryFailed \/ SnapshotFailed \/ UNCHANGED vars
  BY <1>0, <1>7 DEF HandleFrame, HistoryFailed, SnapshotFailed, vars, scopeVars, LiveMeansSynchronized
<1>8. ASSUME NEW i \in Interval, SelectInterval(i) PROVE LiveMeansSynchronized'
  BY <1>0, <1>8 DEF SelectInterval, LiveMeansSynchronized
<1>9. CASE HistoryApplied
  <2>1. market # None /\ market' = market
    BY <1>0, <1>9 DEF HistoryApplied, Idle, scopeVars
  <2>2. \E bs : books' = bs /\ conn' = IF bs = books THEN conn ELSE Notified(conn, bs)
    BY <1>9 DEF HistoryApplied, Become
  <2> QED
    BY <1>1, <2>1, <2>2
<1> QED
  BY <1>2, <1>3, <1>4, <1>5, <1>6, <1>7, <1>8, <1>9 DEF Next

------------------------------------------------------------------------------
(* The chart, and what is asked for it.                                    *)
ChartFollows ==
    /\ ChartKeepsItsFeed
    /\ ChartSettles
    /\ interval = None => market = None
    /\ market = None => Idle
    /\ history # "none" => requested = <<market, interval>>

(* Every step keeps it: a choice resets the chart and its request together, *)
(* and only the answer of the last request is shown.                        *)
LEMMA ChartPreserved ==
  ASSUME SelectionInv, [Next]_vars
  PROVE  ChartFollows'
<1>0. /\ TypeOK /\ desired \in Subscriptions /\ spent \in Bounds
      /\ ChartKeepsItsFeed /\ ChartSettles
      /\ (interval = None => market = None) /\ (market = None => Idle)
      /\ (history # "none" => requested = <<market, interval>>)
      /\ history \in {"none", "load", "interval"} /\ shown \in (Symbol \X Interval) \cup {NoScope}
  BY DEF SelectionInv, TypeOK
<1>1. ASSUME NEW s \in Symbol, SelectMarket(s) PROVE ChartFollows'
  <2>1. s # None /\ interval \in Interval /\ interval # None
    BY <1>1, NoneAssumption, SelectedFacts DEF SelectMarket
  <2>2. desired' = [desired EXCEPT ![s] = interval] /\ shown' = shown
    BY <1>1 DEF SelectMarket
  <2>3. ChartKeepsItsFeed'
    BY <1>0, <2>1, <2>2 DEF ChartKeepsItsFeed, Subscriptions
  <2>4. market' = s /\ interval' = interval /\ history' = "load" /\ requested' = <<s, interval>>
    BY <1>1 DEF SelectMarket, StartLoad
  <2> QED
    BY <2>1, <2>3, <2>4 DEF ChartFollows, ChartSettles
<1>2. ASSUME NEW i \in Interval, SelectInterval(i) PROVE ChartFollows'
  <2>1. i # None /\ market # None /\ market \in Symbol
    BY <1>2, NoneAssumption, SelectedFacts DEF SelectInterval
  <2>2. desired' = [desired EXCEPT ![market] = i] /\ shown' = shown
    BY <1>2 DEF SelectInterval
  <2>3. ChartKeepsItsFeed'
    BY <1>0, <2>1, <2>2 DEF ChartKeepsItsFeed, Subscriptions
  <2>4. /\ market' = market /\ interval' = i /\ history' = "interval"
        /\ requested' = <<market, i>>
    BY <1>2 DEF SelectInterval
  <2> QED
    BY <2>1, <2>3, <2>4 DEF ChartFollows, ChartSettles
<1>3. CASE Refresh
  BY <1>0, <1>3 DEF Refresh, StartLoad, scopeVars, serverVars, ChartFollows, ChartKeepsItsFeed, ChartSettles
<1>4. CASE Hello
  <2>1. interval # None /\ interval' = interval /\ shown' = shown /\ interval \in Interval
    BY <1>0, <1>4 DEF Hello, TypeOK
  <2>2. ASSUME NEW s \in Symbol, market' = s, desired' = [desired EXCEPT ![s] = interval],
               StartLoad(s, TRUE)
        PROVE  ChartFollows'
    <3>1. ChartKeepsItsFeed'
      BY <1>0, <2>1, <2>2 DEF ChartKeepsItsFeed, Subscriptions
    <3> QED
      BY <2>1, <2>2, <3>1, NoneAssumption DEF StartLoad, ChartFollows, ChartSettles
  <2>3. ASSUME market # None, UNCHANGED <<market, desired>>, StartLoad(market, FALSE)
        PROVE  ChartFollows'
    BY <1>0, <2>1, <2>3 DEF StartLoad, ChartFollows, ChartSettles, ChartKeepsItsFeed
  <2> QED
    BY <1>4, <2>2, <2>3 DEF Hello
<1>5. CASE Disconnect
  BY <1>0, <1>5 DEF Disconnect, scopeVars, loadVars, ChartFollows, ChartKeepsItsFeed, ChartSettles, Idle
<1>6. CASE HandleFrame
  <2>1. UNCHANGED <<market, interval, history, requested, snapshot, shown, desired, conn>>
        /\ spent'.failure = spent.failure
    BY <1>0, <1>6, SpendBounded DEF HandleFrame, scopeVars, loadVars
  <2> QED
    BY <1>0, <2>1 DEF ChartFollows, ChartKeepsItsFeed, ChartSettles, Idle
<1>7. CASE Dispose
  BY <1>7 DEF Dispose, ChartFollows, ChartKeepsItsFeed, ChartSettles, Idle
<1>8. CASE HistoryApplied
  <2>1. /\ history # "none" /\ history' = "none" /\ shown' = requested
        /\ UNCHANGED <<market, interval>>
    BY <1>8 DEF HistoryApplied, scopeVars
  <2>2. /\ market # None /\ market \in Symbol /\ interval # None /\ desired[market] = interval
        /\ requested = <<market, interval>>
    BY <1>0, <2>1, SelectedFacts DEF Idle
  <2>3. desired' = desired \/ desired' = OnlySelected(desired, None)
    BY <1>8 DEF HistoryApplied, RemoveInactive
  <2>4. desired'[market] = interval
    BY <1>0, <2>2, <2>3, OnlySelectedKeeps
  <2> QED
    BY <2>1, <2>2, <2>4 DEF ChartFollows, ChartKeepsItsFeed, ChartSettles
<1>9. CASE HistoryFailed
  <2>1. /\ UNCHANGED <<market, interval, shown, desired>> /\ history' = "none"
        /\ market # None /\ spent'.failure # 0
    BY <1>0, <1>9, SpendBounded DEF HistoryFailed, scopeVars, Idle
  <2> QED
    BY <1>0, <2>1 DEF ChartFollows, ChartKeepsItsFeed, ChartSettles
<1>10. CASE SnapshotMerged \/ SnapshotLeavesHole \/ Gap
  <2>1. /\ UNCHANGED <<market, interval, history, requested, shown, desired>> /\ market # None
    BY <1>0, <1>10 DEF SnapshotMerged, SnapshotLeavesHole, Gap, scopeVars, Idle
  <2>2. spent'.failure = spent.failure
    BY <1>0, <1>10, SpendBounded DEF SnapshotMerged, SnapshotLeavesHole, Gap
  <2> QED
    BY <1>0, <2>1, <2>2 DEF ChartFollows, ChartKeepsItsFeed, ChartSettles
<1>11. CASE SnapshotFailed
  <2>1. /\ UNCHANGED <<market, interval, history, requested, shown, desired>> /\ market # None
        /\ spent'.failure # 0
    BY <1>0, <1>11, SpendBounded DEF SnapshotFailed, scopeVars, Idle
  <2> QED
    BY <1>0, <2>1 DEF ChartFollows, ChartKeepsItsFeed, ChartSettles
<1>12. CASE UNCHANGED vars
  BY <1>0, <1>12 DEF vars, scopeVars, loadVars, ChartFollows, ChartKeepsItsFeed, ChartSettles, Idle
<1> QED
  BY <1>1, <1>2, <1>3, <1>4, <1>5, <1>6, <1>7, <1>8, <1>9, <1>10, <1>11, <1>12 DEF Next

------------------------------------------------------------------------------
(* The inductive invariant holds throughout.                               *)
THEOREM SelectionInvariant == Spec => []SelectionInv
<1>1. Init => SelectionInv
  <2> SUFFICES ASSUME Init PROVE SelectionInv
    OBVIOUS
  <2> USE DEF Init
  <2>1. /\ Nothing \in Subscriptions /\ books \in [Symbol -> Status] /\ Wanted(Nothing) = {}
        /\ Tracked(books) = {} /\ << >> \in Seq(Frame)
    BY EmptySeq DEF Nothing, Subscriptions, Status, Wanted, Tracked
  <2>2. spent \in Bounds
    BY BoundAssumption DEF Unspent, Bounds
  <2>3. TypeOK
    BY <2>1, <2>2, NoneAssumption DEF TypeOK, NoScope
  <2>4. IsFiniteSet(Wanted(desired)) /\ TrackedIsWanted
    BY <2>1, FS_EmptySet DEF TrackedIsWanted
  <2>5. ServerFollowsClient /\ LiveMeansSynchronized /\ ChartKeepsItsFeed /\ ChartSettles
    BY DEF ServerFollowsClient, LiveMeansSynchronized, ChartKeepsItsFeed, ChartSettles
  <2> QED
    BY <2>3, <2>4, <2>5, NoneAssumption DEF SelectionInv, Idle
<1>2. SelectionInv /\ [Next]_vars => SelectionInv'
  <2> SUFFICES ASSUME SelectionInv, [Next]_vars PROVE SelectionInv'
    OBVIOUS
  <2> QED
    BY TypesPreserved, AgreementPreserved, FollowingPreserved, LivePreserved, ChartPreserved
       DEF SelectionInv, ChartFollows
<1> QED
  BY <1>1, <1>2, PTL DEF Spec

(* The registry of books, the registry of subscriptions and the set the    *)
(* server keeps for the socket name the same symbols once the frames under *)
(* way are applied: no market is streamed with no book to merge it in, and *)
(* none is shown that nothing feeds (MarketDataEngine, MarketSocketClient, *)
(* the gateway's handlers).                                                *)
THEOREM RegistriesAgree == Spec => []SubscriptionsAgree
<1>1. SelectionInv => SubscriptionsAgree
  BY DEF SelectionInv, SubscriptionsAgree
<1> QED
  BY <1>1, SelectionInvariant, PTL

(* The header says LIVE only while every tracked book is synchronised      *)
(* (reconcileConnectionState).                                             *)
THEOREM LiveIsSynchronized == Spec => []LiveMeansSynchronized
<1>1. SelectionInv => LiveMeansSynchronized
  BY DEF SelectionInv
<1> QED
  BY <1>1, SelectionInvariant, PTL

(* The new symbol is subscribed before the old one is dropped, so the      *)
(* market the chart still shows keeps its feed until another replaces it   *)
(* (MarketSelectionController.selectMarket).                               *)
THEOREM ChartIsFed == Spec => []ChartKeepsItsFeed
<1>1. SelectionInv => ChartKeepsItsFeed
  BY DEF SelectionInv
<1> QED
  BY <1>1, SelectionInvariant, PTL

(* With no history request under way the chart shows the scope selected    *)
(* last, unless its request failed: no answer of an abandoned choice is    *)
(* left on it (the controllers' generations and abort signals).            *)
THEOREM ChartShowsSelection == Spec => []ChartSettles
<1>1. SelectionInv => ChartSettles
  BY DEF SelectionInv
<1> QED
  BY <1>1, SelectionInvariant, PTL
================================================================================
