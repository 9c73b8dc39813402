--------------------------- MODULE SequenceFacts ---------------------------
(* What the queue operations do to the set of elements of a sequence.      *)
EXTENDS Naturals, Sequences, SequencesExt, SequenceTheorems, TLAPS

(* Appending to a queue adds that element and no other.                    *)
LEMMA AppendRange ==
  ASSUME NEW S, NEW s \in Seq(S), NEW x \in S
  PROVE  /\ Append(s, x) \in Seq(S)
         /\ Len(Append(s, x)) = Len(s) + 1
         /\ Range(Append(s, x)) = Range(s) \cup {x}
<1> DEFINE t == Append(s, x)
<1>1. /\ t \in Seq(S) /\ Len(t) = Len(s) + 1
      /\ \A i \in 1 .. Len(s) : t[i] = s[i]
      /\ t[Len(s) + 1] = x
  OBVIOUS
<1>2. Len(s) \in Nat /\ DOMAIN s = 1 .. Len(s) /\ DOMAIN t = 1 .. Len(s) + 1
  BY Zenon, <1>1, LenProperties
<1> HIDE DEF t
<1>3. \A i \in 1 .. Len(s) + 1 : i \in 1 .. Len(s) \/ i = Len(s) + 1
  BY <1>2
<1>4. /\ Len(s) + 1 \in 1 .. Len(s) + 1
      /\ \A i \in 1 .. Len(s) : i \in 1 .. Len(s) + 1
  BY <1>2
<1>5. Range(s) = {s[i] : i \in 1 .. Len(s)} /\ Range(t) = {t[i] : i \in 1 .. Len(s) + 1}
  BY Zenon, <1>2 DEF Range
<1>6. ASSUME NEW i \in 1 .. Len(s) + 1 PROVE t[i] \in Range(s) \cup {x}
  BY Zenon, <1>1, <1>3, <1>5
<1>7. ASSUME NEW i \in 1 .. Len(s) PROVE s[i] \in Range(t)
  <2>1. s[i] = t[i] /\ i \in 1 .. Len(s) + 1
    BY Zenon, <1>1, <1>4
  <2>2. QED
    BY Zenon, <2>1, <1>5
<1>8. x \in Range(t)
  BY Zenon, <1>1, <1>4, <1>5
<1>9. Range(t) = Range(s) \cup {x}
  BY Zenon, <1>5, <1>6, <1>7, <1>8
<1>10. QED
  BY Zenon, <1>1, <1>9 DEF t

(* A sequence of one element.                                              *)
LEMMA Singleton ==
  ASSUME NEW S, NEW s \in Seq(S), s # <<>>, Len(s) <= 1
  PROVE  s = <<s[1]>> /\ s[1] \in S
<1>1. Len(s) = 1 /\ DOMAIN s = 1 .. 1
  <2>1. Len(s) \in Nat \ {0} /\ DOMAIN s = 1 .. Len(s)
    BY Zenon, EmptySeq, LenProperties
  <2>2. Len(s) = 1
    BY <2>1
  <2>3. QED
    BY Zenon, <2>1, <2>2
<1>2. s[1] \in S
  <2>1. 1 \in 1 .. Len(s)
    BY <1>1
  <2>2. QED
    BY Zenon, <2>1, ElementOfSeq
<1>3. /\ <<s[1]>> \in Seq(S) /\ Len(<<s[1]>>) = 1
      /\ \A i \in 1 .. 1 : <<s[1]>>[i] = s[i]
  BY <1>2
<1>4. s = <<s[1]>>
  <2>1. /\ Len(s) = Len(<<s[1]>>)
        /\ \A i \in 1 .. Len(s) : s[i] = <<s[1]>>[i]
    BY Zenon, <1>1, <1>3
  <2>2. QED
    BY Zenon, <1>3, <2>1, SeqEqual
<1>5. QED
  BY <1>2, <1>4

(* Taking the head of a queue loses nothing but that element.              *)
LEMMA TailRange ==
  ASSUME NEW S, NEW s \in Seq(S), s # <<>>
  PROVE  /\ Head(s) \in S /\ Tail(s) \in Seq(S)
         /\ Len(Tail(s)) = Len(s) - 1
         /\ Range(s) = {Head(s)} \cup Range(Tail(s))
<1> DEFINE t == Tail(s)
<1>1. /\ Head(s) = s[1] /\ t \in Seq(S) /\ Head(s) \in S
      /\ Len(t) = Len(s) - 1
      /\ \A i \in 1 .. Len(t) : t[i] = s[i + 1]
  <2>1. Head(s) = s[1]
    OBVIOUS
  <2>2. QED
    BY Zenon, <2>1, HeadTailProperties
<1>2. Len(s) \in Nat \ {0} /\ DOMAIN s = 1 .. Len(s) /\ DOMAIN t = 1 .. Len(t)
  BY Zenon, <1>1, EmptySeq, LenProperties
<1> HIDE DEF t
<1>3. \A i \in 1 .. Len(s) : i = 1 \/ (i - 1 \in 1 .. Len(t) /\ (i - 1) + 1 = i)
  BY <1>1, <1>2
<1>4. 1 \in 1 .. Len(s) /\ \A i \in 1 .. Len(t) : i + 1 \in 1 .. Len(s)
  BY <1>1, <1>2
<1>5. Range(s) = {s[i] : i \in 1 .. Len(s)} /\ Range(t) = {t[i] : i \in 1 .. Len(t)}
  BY Zenon, <1>2 DEF Range
<1>6. ASSUME NEW i \in 1 .. Len(s) PROVE s[i] \in {Head(s)} \cup Range(t)
  <2>1. CASE i = 1
    BY Zenon, <2>1, <1>1
  <2>2. CASE i - 1 \in 1 .. Len(t) /\ (i - 1) + 1 = i
    <3>1. t[i - 1] = s[i]
      BY Zenon, <2>2, <1>1
    <3>2. QED
      BY Zenon, <3>1, <2>2, <1>5
  <2>3. QED
    BY Zenon, <2>1, <2>2, <1>3
<1>7. ASSUME NEW i \in 1 .. Len(t) PROVE t[i] \in Range(s)
  <2>1. t[i] = s[i + 1] /\ i + 1 \in 1 .. Len(s)
    BY Zenon, <1>1, <1>4
  <2>2. QED
    BY Zenon, <2>1, <1>5
<1>8. Head(s) \in Range(s)
  BY Zenon, <1>1, <1>4, <1>5
<1>9. Range(s) = {Head(s)} \cup Range(t)
  BY Zenon, <1>5, <1>6, <1>7, <1>8
<1>10. QED
  BY Zenon, <1>1, <1>9 DEF t

(* Sending one queue's content after another's loses nothing.              *)
LEMMA ConcatRange ==
  ASSUME NEW S, NEW s \in Seq(S), NEW t \in Seq(S)
  PROVE  /\ s \o t \in Seq(S)
         /\ s # <<>> => s \o t # <<>> /\ Head(s \o t) = Head(s)
         /\ Range(s) \cup Range(t) \subseteq Range(s \o t)
<1> DEFINE r == s \o t
<1>1. /\ r \in Seq(S) /\ Len(r) = Len(s) + Len(t)
      /\ \A i \in 1 .. Len(s) + Len(t) :
           r[i] = IF i <= Len(s) THEN s[i] ELSE t[i - Len(s)]
  BY Zenon, ConcatProperties
<1>2. /\ Len(s) \in Nat /\ DOMAIN s = 1 .. Len(s)
      /\ Len(t) \in Nat /\ DOMAIN t = 1 .. Len(t)
      /\ DOMAIN r = 1 .. Len(s) + Len(t)
  BY Zenon, <1>1, LenProperties
<1>3. s # <<>> => s \o t # <<>> /\ Head(s \o t) = Head(s)
  <2> SUFFICES ASSUME s # <<>> PROVE r # <<>> /\ Head(r) = Head(s)
    OBVIOUS
  <2>1. Len(s) \in Nat \ {0}
    BY Zenon, EmptySeq
  <2>2. r # <<>>
    <3>1. Len(r) # 0
      BY <1>1, <1>2, <2>1
    <3>2. QED
      BY Zenon, <3>1, EmptySeq
  <2>3. Head(r) = r[1] /\ Head(s) = s[1]
    OBVIOUS
  <2> HIDE DEF r
  <2>4. r[1] = s[1]
    BY <1>1, <1>2, <2>1
  <2>5. QED
    BY Zenon, <2>2, <2>3, <2>4
<1> HIDE DEF r
<1>4. ASSUME NEW i \in 1 .. Len(s) PROVE s[i] \in Range(r)
  <2>1. i \in 1 .. Len(s) + Len(t) /\ i <= Len(s)
    BY <1>2
  <2>2. r[i] = s[i]
    BY Zenon, <1>1, <2>1
  <2>3. QED
    BY Zenon, <1>2, <2>1, <2>2 DEF Range
<1>5. ASSUME NEW i \in 1 .. Len(t) PROVE t[i] \in Range(r)
  <2>1. /\ Len(s) + i \in 1 .. Len(s) + Len(t) /\ ~(Len(s) + i <= Len(s))
        /\ (Len(s) + i) - Len(s) = i
    BY <1>2
  <2>2. r[Len(s) + i] = t[(Len(s) + i) - Len(s)]
    BY Zenon, <1>1, <2>1
  <2>3. r[Len(s) + i] = t[i]
    BY Zenon, <2>1, <2>2
  <2>4. QED
    BY Zenon, <1>2, <2>1, <2>3 DEF Range
<1>6. Range(s) \cup Range(t) \subseteq Range(r)
  <2>1. Range(s) = {s[i] : i \in 1 .. Len(s)} /\ Range(t) = {t[i] : i \in 1 .. Len(t)}
    BY Zenon, <1>2 DEF Range
  <2>2. QED
    BY Zenon, <1>4, <1>5, <2>1
<1>7. QED
  BY Zenon, <1>1, <1>3, <1>6 DEF r

(* Removing one element of a queue loses nothing but that element.         *)
LEMMA RemoveAtRange ==
  ASSUME NEW S, NEW s \in Seq(S), NEW i \in 1 .. Len(s)
  PROVE  /\ RemoveAt(s, i) \in Seq(S)
         /\ Len(RemoveAt(s, i)) = Len(s) - 1
         /\ \A j \in 1 .. i - 1 : RemoveAt(s, i)[j] = s[j]
         /\ \A j \in i .. Len(s) - 1 : RemoveAt(s, i)[j] = s[j + 1]
         /\ Range(s) = Range(RemoveAt(s, i)) \cup {s[i]}
<1> DEFINE r == RemoveAt(s, i)
           a == SubSeq(s, 1, i - 1)
           b == SubSeq(s, i + 1, Len(s))
<1>0. /\ Len(s) \in Nat /\ DOMAIN s = 1 .. Len(s) /\ i \in Int /\ 1 <= i /\ i <= Len(s)
      /\ \A j \in 1 .. Len(s) : s[j] \in S
  <2>1. Len(s) \in Nat /\ DOMAIN s = 1 .. Len(s)
    BY Zenon, LenProperties
  <2>2. \A j \in 1 .. Len(s) : s[j] \in S
    BY Zenon, ElementOfSeq
  <2>3. QED
    BY <2>1, <2>2
<1>1. /\ a \in Seq(S) /\ Len(a) = i - 1 /\ \A j \in 1 .. i - 1 : a[j] = s[j]
  OBVIOUS
<1>2. /\ b \in Seq(S) /\ Len(b) = Len(s) - i
      /\ \A j \in 1 .. Len(s) - i : b[j] = s[i + j]
  OBVIOUS
<1>3. r = a \o b
  BY DEF RemoveAt
<1> HIDE DEF a, b, r
<1>4. /\ r \in Seq(S) /\ Len(r) = Len(a) + Len(b)
      /\ \A j \in 1 .. Len(a) + Len(b) :
           r[j] = IF j <= Len(a) THEN a[j] ELSE b[j - Len(a)]
  BY Zenon, <1>1, <1>2, <1>3, ConcatProperties
<1>5. Len(r) = Len(s) - 1 /\ DOMAIN r = 1 .. Len(s) - 1
  <2>1. Len(a) + Len(b) = Len(s) - 1
    BY <1>0, <1>1, <1>2
  <2>2. DOMAIN r = 1 .. Len(r)
    BY Zenon, <1>4, LenProperties
  <2>3. QED
    BY Zenon, <1>4, <2>1, <2>2
<1>6. ASSUME NEW j \in 1 .. i - 1 PROVE r[j] = s[j]
  <2>1. j \in 1 .. Len(a) + Len(b) /\ j <= Len(a)
    BY <1>0, <1>1, <1>2
  <2>2. r[j] = a[j]
    BY Zenon, <1>4, <2>1
  <2>3. QED
    BY Zenon, <1>1, <2>2
<1>7. ASSUME NEW j \in i .. Len(s) - 1 PROVE r[j] = s[j + 1]
  <2>1. /\ j \in 1 .. Len(a) + Len(b) /\ ~(j <= Len(a))
        /\ j - Len(a) \in 1 .. Len(s) - i /\ i + (j - Len(a)) = j + 1
    BY <1>0, <1>1, <1>2
  <2>2. r[j] = b[j - Len(a)]
    BY Zenon, <1>4, <2>1
  <2>3. b[j - Len(a)] = s[i + (j - Len(a))]
    BY Zenon, <1>2, <2>1
  <2>4. QED
    BY Zenon, <2>1, <2>2, <2>3
<1>8. Range(s) = {s[j] : j \in 1 .. Len(s)} /\ Range(r) = {r[j] : j \in 1 .. Len(s) - 1}
  BY Zenon, <1>0, <1>5 DEF Range
<1>9. ASSUME NEW j \in 1 .. Len(s) PROVE s[j] \in Range(r) \cup {s[i]}
  <2>1. \/ j = i
        \/ j \in 1 .. i - 1 /\ j \in 1 .. Len(s) - 1
        \/ j - 1 \in i .. Len(s) - 1 /\ (j - 1) + 1 = j /\ j - 1 \in 1 .. Len(s) - 1
    BY <1>0
  <2>2. CASE j \in 1 .. i - 1 /\ j \in 1 .. Len(s) - 1
    BY Zenon, <2>2, <1>6, <1>8
  <2>3. CASE j - 1 \in i .. Len(s) - 1 /\ (j - 1) + 1 = j /\ j - 1 \in 1 .. Len(s) - 1
    <3>1. r[j - 1] = s[j]
      BY Zenon, <2>3, <1>7
    <3>2. QED
      BY Zenon, <3>1, <2>3, <1>8
  <2>4. QED
    BY Zenon, <2>1, <2>2, <2>3
<1>10. ASSUME NEW j \in 1 .. Len(s) - 1 PROVE r[j] \in Range(s)
  <2>1. \/ j \in 1 .. i - 1 /\ j \in 1 .. Len(s)
        \/ j \in i .. Len(s) - 1 /\ j + 1 \in 1 .. Len(s)
    BY <1>0
  <2>2. QED
    BY Zenon, <2>1, <1>6, <1>7, <1>8
<1>11. s[i] \in Range(s)
  BY Zenon, <1>8
<1>12. Range(s) = Range(r) \cup {s[i]}
  BY Zenon, <1>8, <1>9, <1>10, <1>11
<1>13. QED
  BY Zenon, <1>4, <1>5, <1>6, <1>7, <1>12 DEF r

(* The places of two queues, one after the other.                          *)
LEMMA ConcatPlaces ==
  ASSUME NEW S, NEW s \in Seq(S), NEW t \in Seq(S)
  PROVE  /\ s \o t \in Seq(S) /\ Len(s \o t) = Len(s) + Len(t)
         /\ DOMAIN (s \o t) = 1 .. Len(s) + Len(t)
         /\ \A i \in 1 .. Len(s) : (s \o t)[i] = s[i]
         /\ \A i \in 1 .. Len(t) : (s \o t)[Len(s) + i] = t[i]
         /\ \A i \in 1 .. Len(s) + Len(t) : i \in 1 .. Len(s) \/ i - Len(s) \in 1 .. Len(t)
OBVIOUS

(* Two queues with the same elements in the same places are one.           *)
LEMMA SameQueue ==
  ASSUME NEW S, NEW s \in Seq(S), NEW t \in Seq(S), Len(s) = Len(t),
         \A i \in 1 .. Len(s) : s[i] = t[i]
  PROVE  s = t
OBVIOUS

(* Moving the head of a queue to the end of the one before it changes      *)
(* nothing for the two together; nor does it matter which of the two the   *)
(* last element is appended to.                                            *)
LEMMA ConcatMoves ==
  ASSUME NEW S, NEW s \in Seq(S), NEW t \in Seq(S)
  PROVE  /\ t # <<>> => Append(s, Head(t)) \o Tail(t) = s \o t
         /\ \A x \in S : s \o Append(t, x) = Append(s \o t, x)
<1>1. ASSUME t # <<>> PROVE Append(s, Head(t)) \o Tail(t) = s \o t
  <2> DEFINE a == Append(s, Head(t))
             b == Tail(t)
  <2>1. /\ a \in Seq(S) /\ Len(a) = Len(s) + 1 /\ a[Len(s) + 1] = t[1]
        /\ \A i \in 1 .. Len(s) : a[i] = s[i]
    BY <1>1
  <2>2. /\ b \in Seq(S) /\ Len(b) = Len(t) - 1 /\ Len(t) \in Nat \ {0} /\ Len(s) \in Nat
        /\ \A i \in 1 .. Len(t) - 1 : b[i] = t[i + 1]
    BY <1>1
  <2> HIDE DEF a, b
  <2>l. Len(s) \in Nat /\ Len(t) \in Nat
    OBVIOUS
  <2>a. a \o b \in Seq(S) /\ Len(a \o b) = Len(a) + Len(b)
    <3>1. a \in Seq(S) /\ b \in Seq(S)
      BY <2>1, <2>2
    <3>2. QED
      BY <3>1, ConcatPlaces
  <2>b. s \o t \in Seq(S) /\ Len(s \o t) = Len(s) + Len(t)
    BY ConcatPlaces
  <2>3. a \o b \in Seq(S) /\ s \o t \in Seq(S) /\ Len(a \o b) = Len(s \o t)
    <3>1. Len(a) + Len(b) = Len(s) + Len(t)
      BY <2>1, <2>2, <2>l
    <3>2. QED
      BY <2>a, <2>b, <3>1
  <2>4. ASSUME NEW i \in 1 .. Len(s \o t) PROVE (a \o b)[i] = (s \o t)[i]
    <3>0. a \in Seq(S) /\ b \in Seq(S)
      BY <2>1, <2>2
    <3>1. i \in 1 .. Len(s) + Len(t)
      BY ConcatPlaces
    <3>2. CASE i \in 1 .. Len(s)
      <4>1. (s \o t)[i] = s[i] /\ i \in 1 .. Len(a)
        BY <3>2, <2>1, <2>2, ConcatPlaces
      <4>2. (a \o b)[i] = a[i]
        BY <4>1, <2>1, <2>2, ConcatPlaces
      <4>3. QED
        BY <4>1, <4>2, <3>2, <2>1
    <3>3. CASE i = Len(s) + 1
      <4>1. (s \o t)[Len(s) + 1] = t[1]
        BY <2>2, ConcatPlaces
      <4>2. (a \o b)[Len(s) + 1] = a[Len(s) + 1]
        BY <2>1, <2>2, ConcatPlaces
      <4>3. QED
        BY <3>3, <4>1, <4>2, <2>1
    <3>4. CASE i \notin 1 .. Len(s) + 1
      <4> DEFINE j == i - Len(s) - 1
      <4>1. j \in 1 .. Len(t) - 1 /\ i = Len(s) + 1 + j /\ j + 1 \in 1 .. Len(t) /\ i = Len(s) + (j + 1)
        BY <3>1, <3>4, <2>2
      <4> HIDE DEF j
      <4>2. (s \o t)[Len(s) + (j + 1)] = t[j + 1]
        BY <4>1, ConcatPlaces
      <4>3. (a \o b)[Len(a) + j] = b[j]
        <5>1. j \in 1 .. Len(b)
          BY <4>1, <2>1, <2>2
        <5>2. \A k \in 1 .. Len(b) : (a \o b)[Len(a) + k] = b[k]
          BY <3>0, ConcatPlaces
        <5>3. QED
          BY Zenon, <5>1, <5>2
      <4>4. Len(a) + j = i
        BY <4>1, <2>1, <2>2
      <4>5. QED
        BY <4>1, <4>2, <4>3, <4>4, <2>2
    <3>5. QED
      <4>1. i \in 1 .. Len(s) \/ i = Len(s) + 1 \/ i \notin 1 .. Len(s) + 1
        BY <3>1, <2>l
      <4>2. QED
        BY <3>2, <3>3, <3>4, <4>1
  <2>5. QED
    BY <2>3, <2>4, SameQueue DEF a, b
<1>2. ASSUME NEW x \in S PROVE s \o Append(t, x) = Append(s \o t, x)
  <2> DEFINE a == Append(t, x)
             b == s \o t
  <2>1. /\ a \in Seq(S) /\ Len(a) = Len(t) + 1 /\ a[Len(t) + 1] = x
        /\ \A i \in 1 .. Len(t) : a[i] = t[i] /\ Len(t) \in Nat /\ Len(s) \in Nat
    OBVIOUS
  <2>l. Len(t) \in Nat /\ Len(s) \in Nat
    OBVIOUS
  <2>2. /\ b \in Seq(S) /\ Len(b) = Len(s) + Len(t)
        /\ \A i \in 1 .. Len(s) : b[i] = s[i]
        /\ \A i \in 1 .. Len(t) : b[Len(s) + i] = t[i]
    BY ConcatPlaces
  <2> HIDE DEF a, b
  <2>3. /\ Append(b, x) \in Seq(S) /\ Len(Append(b, x)) = Len(s) + Len(t) + 1
        /\ \A i \in 1 .. Len(s) + Len(t) : Append(b, x)[i] = b[i]
        /\ Append(b, x)[Len(s) + Len(t) + 1] = x
    <3>1. b \in Seq(S) /\ Len(b) = Len(s) + Len(t)
      BY <2>2
    <3>2. /\ Append(b, x) \in Seq(S) /\ Len(Append(b, x)) = Len(b) + 1
          /\ \A i \in 1 .. Len(b) : Append(b, x)[i] = b[i]
          /\ Append(b, x)[Len(b) + 1] = x
      BY SMTT(40), <3>1
    <3>3. QED
      BY <3>1, <3>2
  <2>4. s \o a \in Seq(S) /\ Len(s \o a) = Len(s) + Len(t) + 1
    <3>1. a \in Seq(S) /\ Len(a) = Len(t) + 1
      BY <2>1
    <3>2. s \o a \in Seq(S) /\ Len(s \o a) = Len(s) + Len(a)
      BY <3>1, ConcatPlaces
    <3>3. QED
      BY <3>1, <3>2, <2>l
  <2>5. ASSUME NEW i \in 1 .. Len(s) + Len(t) + 1 PROVE (s \o a)[i] = Append(b, x)[i]
    <3>1. CASE i \in 1 .. Len(s)
      <4>1. (s \o a)[i] = s[i]
        BY <3>1, <2>1, ConcatPlaces
      <4>2. i \in 1 .. Len(s) + Len(t)
        BY <3>1, <2>l
      <4>3. QED
        BY <3>1, <4>1, <4>2, <2>2, <2>3
    <3>2. CASE i \notin 1 .. Len(s)
      <4> DEFINE j == i - Len(s)
      <4>1. j \in 1 .. Len(t) + 1 /\ i = Len(s) + j /\ j \in 1 .. Len(a)
        BY <3>2, <2>1, <2>l
      <4> HIDE DEF j
      <4>2. (s \o a)[Len(s) + j] = a[j]
        BY <4>1, <2>1, ConcatPlaces
      <4>3. CASE j \in 1 .. Len(t)
        <5>1. i \in 1 .. Len(s) + Len(t)
          BY <4>1, <4>3, <2>l
        <5>2. QED
          BY <5>1, <4>1, <4>2, <4>3, <2>1, <2>2, <2>3
      <4>4. CASE j = Len(t) + 1
        <5>1. i = Len(s) + Len(t) + 1
          BY <4>1, <4>4, <2>l
        <5>2. QED
          BY <5>1, <4>1, <4>2, <4>4, <2>1, <2>3
      <4>5. QED
        <5>1. j \in 1 .. Len(t) \/ j = Len(t) + 1
          BY <4>1, <2>l
        <5>2. QED
          BY <4>3, <4>4, <5>1
    <3>3. QED
      BY <3>1, <3>2
  <2>6. QED
    BY <2>3, <2>4, <2>5, SameQueue DEF a, b
<1>3. QED
  BY <1>1, <1>2
=============================================================================
