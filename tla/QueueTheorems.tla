----------------------------- MODULE QueueTheorems -----------------------------
(***************************************************************************)
(* The queue of an asyncio.Lock: a sequence in which nobody stands twice,  *)
(* joined at its end, left from its head or, by whoever gives up, from     *)
(* anywhere.                                                               *)
(***************************************************************************)
EXTENDS Integers, SequencesExt, SequenceTheorems, TLAPS

Queues(S) == {s \in Seq(S) : IsInjective(s)}

(* The elements of a sequence, by their places.                             *)
LEMMA Members ==
    ASSUME NEW S, NEW s \in Seq(S)
    PROVE  /\ ToSet(s) \subseteq S
           /\ \A e : e \in ToSet(s) <=> \E i \in 1..Len(s) : s[i] = e
           /\ ToSet(s) = {} <=> s = <<>>
           /\ Len(s) \in Nat /\ DOMAIN s = 1..Len(s)
<1>1. Len(s) \in Nat /\ DOMAIN s = 1..Len(s) /\ \A i \in 1..Len(s) : s[i] \in S
  BY LenProperties, ElementOfSeq
<1>2. ToSet(s) \subseteq S /\ \A e : e \in ToSet(s) <=> \E i \in 1..Len(s) : s[i] = e
  BY <1>1 DEF ToSet
<1>3. s # <<>> => Len(s) \in Nat \ {0}
  BY EmptySeq
<1>4. s # <<>> => 1 \in 1..Len(s)
  BY <1>3
<1>5. s = <<>> => Len(s) = 0
  BY EmptySeq
<1>6. s = <<>> => ToSet(s) = {}
  BY <1>2, <1>5
<1>7. s # <<>> => s[1] \in ToSet(s)
  BY <1>2, <1>4
<1>8. QED
  BY <1>1, <1>2, <1>6, <1>7

(* Who queues stands last.                                                  *)
LEMMA Queued ==
    ASSUME NEW S, NEW s \in Queues(S), NEW c \in S, c \notin ToSet(s)
    PROVE  /\ Append(s, c) \in Queues(S) /\ ToSet(Append(s, c)) = ToSet(s) \cup {c}
<1>1. /\ Append(s, c) \in Seq(S) /\ Len(Append(s, c)) = Len(s) + 1
      /\ \A i \in 1..Len(s) : Append(s, c)[i] = s[i]
      /\ Append(s, c)[Len(s) + 1] = c
  BY DEF Queues
<1>2. \A i \in 1..Len(s) : s[i] # c
  BY Members DEF Queues
<1>3. IsInjective(Append(s, c))
  BY <1>1, <1>2 DEF Queues, IsInjective
<1>4. ToSet(Append(s, c)) = ToSet(s) \cup {c}
  BY <1>1 DEF Queues, ToSet
<1>5. QED
  BY <1>1, <1>3, <1>4 DEF Queues

(* Who is first leaves the others as they were.                             *)
LEMMA Served ==
    ASSUME NEW S, NEW s \in Queues(S), s # <<>>
    PROVE  /\ Head(s) \in ToSet(s) /\ Head(s) \in S
           /\ Tail(s) \in Queues(S) /\ ToSet(Tail(s)) = ToSet(s) \ {Head(s)}
<1>1. /\ Tail(s) \in Seq(S) /\ Len(Tail(s)) = Len(s) - 1 /\ Len(s) \in Nat \ {0}
      /\ \A i \in 1..(Len(s) - 1) : Tail(s)[i] = s[i + 1]
      /\ Head(s) = s[1]
  BY DEF Queues
<1>2. IsInjective(Tail(s))
  BY <1>1 DEF Queues, IsInjective
<1>3. ASSUME NEW e
      PROVE  e \in ToSet(Tail(s)) <=> e \in ToSet(s) /\ e # s[1]
  <2>1. ASSUME NEW i \in 1..(Len(s) - 1)
        PROVE  Tail(s)[i] \in ToSet(s) /\ Tail(s)[i] # s[1]
    BY <1>1 DEF Queues, ToSet, IsInjective
  <2>2. ASSUME NEW i \in 1..Len(s), s[i] # s[1]
        PROVE  \E j \in 1..(Len(s) - 1) : Tail(s)[j] = s[i]
    <3>1. i - 1 \in 1..(Len(s) - 1) /\ (i - 1) + 1 = i
      BY <1>1, <2>2
    <3>2. QED
      BY <1>1, <3>1
  <2>3. QED
    <3>1. s \in Seq(S) /\ \A x : x \in ToSet(s) <=> \E i \in 1..Len(s) : s[i] = x
      BY Members DEF Queues
    <3>2. \A x : x \in ToSet(Tail(s)) <=> \E i \in 1..(Len(s) - 1) : Tail(s)[i] = x
      BY <1>1, Members
    <3>3. QED
      BY <2>1, <2>2, <3>1, <3>2
<1>4. QED
  BY <1>1, <1>2, <1>3, Members DEF Queues

(* Who gives up leaves the others in their order.                           *)
LEMMA LeftQueue ==
    ASSUME NEW S, NEW s \in Queues(S), NEW c
    PROVE  /\ RemoveFirst(s, c) \in Queues(S) /\ ToSet(RemoveFirst(s, c)) = ToSet(s) \ {c}
<1>1. CASE c \notin ToSet(s)
  <2>1. s \in Seq(S) /\ ~\E i \in 1..Len(s) : s[i] = c
    BY <1>1, Members DEF Queues
  <2>2. RemoveFirst(s, c) = s
    BY <2>1 DEF RemoveFirst
  <2>3. QED
    BY <1>1, <2>2
<1>2. CASE c \in ToSet(s)
  <2>1. PICK i \in 1..Len(s) : s[i] = c
    BY <1>2, Members DEF Queues
  <2>2. \A j \in 1..Len(s) : s[j] = c => j = i
    BY <2>1 DEF Queues, IsInjective
  <2>3. {j \in 1..Len(s) : s[j] = c} = {i}
    BY <2>1, <2>2
  <2>4. Min({i}) = i
    <3>1. i <= i
      OBVIOUS
    <3>2. QED
      BY <3>1 DEF Min
  <2>5. RemoveFirst(s, c) = RemoveAt(s, i)
    BY <2>1, <2>3, <2>4 DEF RemoveFirst, SelectInSeq
  <2>6. PICK t : t = RemoveAt(s, i)
    OBVIOUS
  <2>7. /\ t \in Seq(S) /\ Len(t) = Len(s) - 1 /\ Len(s) \in Nat \ {0}
        /\ \A j \in 1..(i - 1) : t[j] = s[j]
        /\ \A j \in i..(Len(s) - 1) : t[j] = s[j + 1]
    <3>1. /\ s \in Seq(S) /\ Len(s) \in Nat \ {0} /\ i \in 1..Len(s)
          /\ \A j \in 1..Len(s) : s[j] \in S
      BY <2>1, LenProperties, ElementOfSeq DEF Queues
    <3>2. PICK a : a = SubSeq(s, 1, i - 1)
      OBVIOUS
    <3>3. PICK b : b = SubSeq(s, i + 1, Len(s))
      OBVIOUS
    <3>4. /\ a \in Seq(S) /\ Len(a) = i - 1
          /\ \A j \in 1..(i - 1) : a[j] = s[j]
      <4>1. \A j \in 1..(i - 1) : s[j] \in S
        BY <3>1
      <4>2. /\ a \in Seq(S)
            /\ Len(a) = IF 1 <= i - 1 THEN (i - 1) - 1 + 1 ELSE 0
            /\ \A j \in 1..((i - 1) - 1 + 1) : a[j] = s[1 + j - 1]
        BY <3>1, <3>2, <4>1, SubSeqProperties
      <4>3. QED
        BY <3>1, <4>2
    <3>5. /\ b \in Seq(S) /\ Len(b) = Len(s) - i
          /\ \A j \in 1..(Len(s) - i) : b[j] = s[i + j]
      <4>1. \A j \in (i + 1)..Len(s) : s[j] \in S
        BY <3>1
      <4>2. /\ b \in Seq(S)
            /\ Len(b) = IF i + 1 <= Len(s) THEN Len(s) - (i + 1) + 1 ELSE 0
            /\ \A j \in 1..(Len(s) - (i + 1) + 1) : b[j] = s[(i + 1) + j - 1]
        BY <3>1, <3>3, <4>1, SubSeqProperties
      <4>3. QED
        BY <3>1, <4>2
    <3>6. /\ t \in Seq(S) /\ Len(t) = Len(a) + Len(b)
          /\ \A j \in 1..(Len(a) + Len(b)) :
                t[j] = IF j <= Len(a) THEN a[j] ELSE b[j - Len(a)]
      <4>1. t = a \o b
        BY <2>6, <3>2, <3>3 DEF RemoveAt
      <4>2. a \in Seq(S) /\ b \in Seq(S)
        BY <3>4, <3>5
      <4>3. QED
        BY <4>1, <4>2, ConcatProperties
    <3>7. ASSUME NEW j \in 1..(i - 1)
          PROVE  t[j] = s[j]
      <4>1. j \in 1..(Len(a) + Len(b)) /\ j <= Len(a)
        BY <3>1, <3>4, <3>5
      <4>2. t[j] = a[j]
        BY <3>6, <4>1
      <4>3. QED
        BY <3>4, <4>2
    <3>8. ASSUME NEW j \in i..(Len(s) - 1)
          PROVE  t[j] = s[j + 1]
      <4>1. /\ j \in 1..(Len(a) + Len(b)) /\ ~(j <= Len(a)) /\ j - Len(a) = j - i + 1
            /\ j - i + 1 \in 1..(Len(s) - i) /\ i + (j - i + 1) = j + 1
        BY <3>1, <3>4, <3>5
      <4>2. t[j] = b[j - i + 1]
        BY <3>6, <4>1
      <4>3. QED
        BY <3>5, <4>1, <4>2
    <3>9. QED
      BY <3>1, <3>4, <3>5, <3>6, <3>7, <3>8
  <2>8. IsInjective(t)
    <3>1. ASSUME NEW a \in 1..(Len(s) - 1), NEW b \in 1..(Len(s) - 1), t[a] = t[b]
          PROVE  a = b
      <4>1. CASE a < i /\ b < i
        <5>1. a \in 1..Len(s) /\ b \in 1..Len(s) /\ s[a] = s[b]
          BY <2>1, <2>7, <3>1, <4>1
        <5>2. QED
          BY <5>1, Members DEF Queues, IsInjective
      <4>2. CASE a >= i /\ b >= i
        <5>1. a + 1 \in 1..Len(s) /\ b + 1 \in 1..Len(s) /\ s[a + 1] = s[b + 1]
          BY <2>1, <2>7, <3>1, <4>2
        <5>2. a + 1 = b + 1
          BY <5>1, Members DEF Queues, IsInjective
        <5>3. QED
          BY <5>2
      <4>3. CASE a < i /\ b >= i
        <5>1. a \in 1..Len(s) /\ b + 1 \in 1..Len(s) /\ s[a] = s[b + 1]
          BY <2>1, <2>7, <3>1, <4>3
        <5>2. a = b + 1
          BY <5>1, Members DEF Queues, IsInjective
        <5>3. QED
          BY <4>3, <5>2
      <4>4. CASE a >= i /\ b < i
        <5>1. a + 1 \in 1..Len(s) /\ b \in 1..Len(s) /\ s[a + 1] = s[b]
          BY <2>1, <2>7, <3>1, <4>4
        <5>2. a + 1 = b
          BY <5>1, Members DEF Queues, IsInjective
        <5>3. QED
          BY <4>4, <5>2
      <4>5. QED
        BY <2>1, <4>1, <4>2, <4>3, <4>4
    <3>2. QED
      BY <2>7, <3>1 DEF IsInjective
  <2>9. ASSUME NEW e
        PROVE  e \in ToSet(t) <=> e \in ToSet(s) /\ e # c
    <3>1. ASSUME NEW j \in 1..(Len(s) - 1), t[j] = e
          PROVE  e \in ToSet(s) /\ e # c
      <4>1. CASE j < i
        BY <2>1, <2>2, <2>7, <3>1, <4>1, Members DEF Queues
      <4>2. CASE j >= i
        BY <2>1, <2>2, <2>7, <3>1, <4>2, Members DEF Queues
      <4>3. QED
        BY <2>1, <4>1, <4>2
    <3>2. ASSUME NEW j \in 1..Len(s), s[j] = e, e # c
          PROVE  \E k \in 1..(Len(s) - 1) : t[k] = e
      <4>1. CASE j < i
        BY <2>1, <2>7, <3>2, <4>1
      <4>2. CASE j > i
        <5>1. j - 1 \in i..(Len(s) - 1) /\ j - 1 \in 1..(Len(s) - 1) /\ (j - 1) + 1 = j
          BY <2>1, <2>7, <4>2
        <5>2. QED
          BY <2>7, <3>2, <5>1
      <4>3. QED
        BY <2>1, <3>2, <4>1, <4>2
    <3>3. QED
      BY <2>7, <3>1, <3>2, Members DEF Queues
  <2>10. QED
    BY <2>5, <2>6, <2>7, <2>8, <2>9, Members DEF Queues
<1>3. QED
  BY <1>1, <1>2
=============================================================================
