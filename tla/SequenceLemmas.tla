--------------------------- MODULE SequenceLemmas ---------------------------
(* What the operations of queues and stacks do to a sequence.               *)
EXTENDS Integers, Sequences, SequencesExt, SequenceTheorems, TLAPS

(* A stretch of a sequence holds its entries, renumbered from 1.            *)
LEMMA StretchFacts ==
    ASSUME NEW S, NEW s \in Seq(S), NEW m \in 1..(Len(s) + 1), NEW n \in (m - 1)..Len(s)
    PROVE  /\ SubSeq(s, m, n) \in Seq(S)
           /\ Len(SubSeq(s, m, n)) = n - m + 1
           /\ \A j \in 1..(n - m + 1) : SubSeq(s, m, n)[j] = s[m + j - 1]
<1>1. Len(s) \in Nat /\ m \in Int /\ n \in Int
  BY LenProperties
<1>2. \A i \in m..n : i \in 1..Len(s)
  BY <1>1
<1>3. \A i \in m..n : s[i] \in S
  BY <1>2, ElementOfSeq
<1>4. /\ SubSeq(s, m, n) \in Seq(S)
      /\ Len(SubSeq(s, m, n)) = IF m <= n THEN n - m + 1 ELSE 0
      /\ \A j \in 1..(n - m + 1) : SubSeq(s, m, n)[j] = s[m + j - 1]
  BY <1>1, <1>3, SubSeqProperties
<1> QED
  BY <1>1, <1>4

(* Removing an entry moves those after it down by one (slices.Delete:       *)
(* src/task/virtualtime/dispatcher.go:171).                                 *)
LEMMA RemoveAtFacts ==
    ASSUME NEW S, NEW s \in Seq(S), NEW i \in 1..Len(s)
    PROVE  /\ RemoveAt(s, i) \in Seq(S)
           /\ Len(RemoveAt(s, i)) = Len(s) - 1
           /\ \A j \in 1..(Len(s) - 1) :
                RemoveAt(s, i)[j] = IF j < i THEN s[j] ELSE s[j + 1]
<1> DEFINE front == SubSeq(s, 1, i - 1)
           back == SubSeq(s, i + 1, Len(s))
<1>0. Len(s) \in Nat /\ i \in Nat /\ 1 <= i /\ i <= Len(s)
  BY LenProperties
<1>1. /\ front \in Seq(S) /\ Len(front) = i - 1
      /\ \A j \in 1..(i - 1) : front[j] = s[j]
  <2>1. 1 \in 1..(Len(s) + 1) /\ (i - 1) \in (1 - 1)..Len(s)
    BY <1>0
  <2>2. /\ front \in Seq(S) /\ Len(front) = (i - 1) - 1 + 1
        /\ \A j \in 1..((i - 1) - 1 + 1) : front[j] = s[1 + j - 1]
    BY <2>1, StretchFacts
  <2> QED
    BY <1>0, <2>2
<1>2. /\ back \in Seq(S) /\ Len(back) = Len(s) - i
      /\ \A j \in 1..(Len(s) - i) : back[j] = s[i + j]
  <2>1. (i + 1) \in 1..(Len(s) + 1) /\ Len(s) \in ((i + 1) - 1)..Len(s)
    BY <1>0
  <2>2. /\ back \in Seq(S) /\ Len(back) = Len(s) - (i + 1) + 1
        /\ \A j \in 1..(Len(s) - (i + 1) + 1) : back[j] = s[(i + 1) + j - 1]
    BY <2>1, StretchFacts
  <2> QED
    BY <1>0, <2>2
<1>3. RemoveAt(s, i) = front \o back
  BY DEF RemoveAt
<1> HIDE DEF front, back
<1>4. /\ front \o back \in Seq(S)
      /\ Len(front \o back) = Len(front) + Len(back)
      /\ \A j \in 1..(Len(front) + Len(back)) :
           (front \o back)[j] = IF j <= Len(front) THEN front[j] ELSE back[j - Len(front)]
  BY <1>1, <1>2, ConcatProperties
<1>5. Len(front) + Len(back) = Len(s) - 1
  BY <1>0, <1>1, <1>2
<1>6. ASSUME NEW j \in 1..(Len(s) - 1)
      PROVE  (front \o back)[j] = IF j < i THEN s[j] ELSE s[j + 1]
  <2>1. (front \o back)[j] = IF j <= Len(front) THEN front[j] ELSE back[j - Len(front)]
    BY <1>4, <1>5
  <2>2. CASE j < i
    BY <1>0, <1>1, <2>1, <2>2
  <2>3. CASE ~(j < i)
    <3>1. j - Len(front) \in 1..(Len(s) - i) /\ ~(j <= Len(front))
      BY <1>0, <1>1, <2>3
    <3>2. back[j - Len(front)] = s[i + (j - Len(front))]
      BY <1>2, <3>1
    <3>3. i + (j - Len(front)) = j + 1
      BY <1>0, <1>1
    <3> QED
      BY <2>1, <2>3, <3>1, <3>2, <3>3
  <2> QED
    BY <2>2, <2>3
<1> QED
  BY <1>3, <1>4, <1>5, <1>6

(* Inserting an entry moves those from its place on up by one (insertTask:  *)
(* src/task/virtualtime/dispatcher.go:153-160).                             *)
LEMMA InsertAtFacts ==
    ASSUME NEW S, NEW s \in Seq(S), NEW e \in S, NEW i \in 1..(Len(s) + 1)
    PROVE  /\ InsertAt(s, i, e) \in Seq(S)
           /\ Len(InsertAt(s, i, e)) = Len(s) + 1
           /\ \A j \in 1..(Len(s) + 1) :
                InsertAt(s, i, e)[j] = IF j < i THEN s[j]
                                       ELSE IF j = i THEN e ELSE s[j - 1]
<1> DEFINE front == SubSeq(s, 1, i - 1)
           back == SubSeq(s, i, Len(s))
           new == Append(front, e)
<1>0. Len(s) \in Nat /\ i \in Nat /\ 1 <= i /\ i <= Len(s) + 1
  BY LenProperties
<1>1. /\ front \in Seq(S) /\ Len(front) = i - 1
      /\ \A j \in 1..(i - 1) : front[j] = s[j]
  <2>1. 1 \in 1..(Len(s) + 1) /\ (i - 1) \in (1 - 1)..Len(s)
    BY <1>0
  <2>2. /\ front \in Seq(S) /\ Len(front) = (i - 1) - 1 + 1
        /\ \A j \in 1..((i - 1) - 1 + 1) : front[j] = s[1 + j - 1]
    BY <2>1, StretchFacts
  <2> QED
    BY <1>0, <2>2
<1>2. /\ back \in Seq(S) /\ Len(back) = Len(s) - i + 1
      /\ \A j \in 1..(Len(s) - i + 1) : back[j] = s[i + j - 1]
  <2>1. i \in 1..(Len(s) + 1) /\ Len(s) \in (i - 1)..Len(s)
    BY <1>0
  <2> QED
    BY <2>1, StretchFacts
<1>3. InsertAt(s, i, e) = new \o back
  <2>1. front \o <<e>> = new
    BY <1>1, AppendIsConcat
  <2> QED
    BY <2>1 DEF InsertAt
<1> HIDE DEF front, back
<1>4. /\ new \in Seq(S) /\ Len(new) = i
      /\ \A j \in 1..(i - 1) : new[j] = s[j]
      /\ new[i] = e
  <2>1. /\ new \in Seq(S)
        /\ Len(new) = Len(front) + 1
        /\ \A j \in 1..Len(front) : new[j] = front[j]
        /\ new[Len(front) + 1] = e
    BY <1>1, AppendProperties
  <2>2. Len(front) + 1 = i
    BY <1>0, <1>1
  <2> QED
    BY <1>1, <2>1, <2>2
<1> HIDE DEF new
<1>5. /\ new \o back \in Seq(S)
      /\ Len(new \o back) = Len(new) + Len(back)
      /\ \A j \in 1..(Len(new) + Len(back)) :
           (new \o back)[j] = IF j <= Len(new) THEN new[j] ELSE back[j - Len(new)]
  BY <1>2, <1>4, ConcatProperties
<1>6. Len(new) + Len(back) = Len(s) + 1
  BY <1>0, <1>2, <1>4
<1>7. ASSUME NEW j \in 1..(Len(s) + 1)
      PROVE  (new \o back)[j] = IF j < i THEN s[j] ELSE IF j = i THEN e ELSE s[j - 1]
  <2>1. (new \o back)[j] = IF j <= i THEN new[j] ELSE back[j - i]
    BY <1>4, <1>5, <1>6
  <2>2. CASE j < i
    <3>1. j \in 1..(i - 1) /\ j <= i
      BY <1>0, <2>2
    <3> QED
      BY <1>4, <2>1, <2>2, <3>1
  <2>3. CASE j = i
    <3>1. j <= i /\ ~(j < i)
      BY <1>0, <2>3
    <3> QED
      BY <1>4, <2>1, <2>3, <3>1
  <2>4. CASE ~(j < i) /\ j # i
    <3>1. j - i \in 1..(Len(s) - i + 1) /\ ~(j <= i)
      BY <1>0, <2>4
    <3>2. back[j - i] = s[i + (j - i) - 1]
      BY <1>2, <3>1
    <3>3. i + (j - i) - 1 = j - 1
      BY <1>0
    <3> QED
      BY <2>1, <2>4, <3>1, <3>2, <3>3
  <2> QED
    BY <2>2, <2>3, <2>4
<1> QED
  BY <1>3, <1>5, <1>6, <1>7

(* Tail moves every entry down by one.                                      *)
LEMMA TailFacts ==
    ASSUME NEW S, NEW s \in Seq(S), s # <<>>
    PROVE  /\ Tail(s) \in Seq(S)
           /\ Len(s) \in Nat /\ Len(s) >= 1
           /\ Len(Tail(s)) = Len(s) - 1
           /\ \A j \in 1..(Len(s) - 1) : Tail(s)[j] = s[j + 1]
           /\ Head(s) = s[1] /\ Head(s) \in S
<1>1. Len(s) \in Nat \ {0}
  BY EmptySeq
<1>2. /\ Head(s) \in S
      /\ Tail(s) \in Seq(S)
      /\ Len(Tail(s)) = Len(s) - 1
      /\ \A j \in 1..Len(Tail(s)) : Tail(s)[j] = s[j + 1]
  BY HeadTailProperties
<1>3. Head(s) = s[1]
  OBVIOUS
<1> QED
  BY <1>1, <1>2, <1>3

(* Front drops the last entry and leaves the others in place.               *)
LEMMA FrontFacts ==
    ASSUME NEW S, NEW s \in Seq(S), s # <<>>
    PROVE  /\ Front(s) \in Seq(S)
           /\ Len(s) \in Nat /\ Len(s) >= 1
           /\ Len(Front(s)) = Len(s) - 1
           /\ \A j \in 1..(Len(s) - 1) : Front(s)[j] = s[j]
           /\ Last(s) = s[Len(s)] /\ Last(s) \in S
<1>1. Len(s) \in Nat /\ Len(s) >= 1
  BY EmptySeq
<1>2. 1 \in 1..(Len(s) + 1) /\ Len(s) - 1 \in (1 - 1)..Len(s)
  BY <1>1
<1>3. /\ SubSeq(s, 1, Len(s) - 1) \in Seq(S)
      /\ Len(SubSeq(s, 1, Len(s) - 1)) = (Len(s) - 1) - 1 + 1
      /\ \A j \in 1..((Len(s) - 1) - 1 + 1) : SubSeq(s, 1, Len(s) - 1)[j] = s[1 + j - 1]
  BY <1>2, StretchFacts
<1>4. Last(s) = s[Len(s)] /\ Len(s) \in 1..Len(s)
  BY <1>1 DEF Last
<1>5. Last(s) \in S
  BY <1>4, ElementOfSeq
<1> QED
  BY <1>1, <1>3, <1>4, <1>5 DEF Front

(* Append adds a last entry and leaves the others in place.                 *)
LEMMA AppendFacts ==
    ASSUME NEW S, NEW s \in Seq(S), NEW e \in S
    PROVE  /\ Append(s, e) \in Seq(S)
           /\ Append(s, e) # <<>>
           /\ Len(Append(s, e)) = Len(s) + 1
           /\ \A j \in 1..Len(s) : Append(s, e)[j] = s[j]
           /\ Append(s, e)[Len(s) + 1] = e
           /\ Last(Append(s, e)) = e
BY AppendProperties DEF Last
=============================================================================
