---------------------------- MODULE SignedUdpProofs ----------------------------
(***************************************************************************)
(* What holds of signed UDP for any teammates, endpoints and message ids,  *)
(* and however many datagrams and restarts there are.                      *)
(***************************************************************************)
EXTENDS SignedUdp, SequenceTheorems, WellFoundedInduction, TLAPS

--------------------------------------------------------------------------------
(* Sequences. *)

(* What is left when one element of a sequence is removed. *)
LEMMA RemoveAtProperties ==
    ASSUME NEW S, NEW s \in Seq(S), NEW i \in 1..Len(s)
    PROVE  /\ RemoveAt(s, i) \in Seq(S)
           /\ Len(RemoveAt(s, i)) = Len(s) - 1
           /\ \A j \in 1..(Len(s) - 1) :
                 RemoveAt(s, i)[j] = IF j < i THEN s[j] ELSE s[j + 1]
<1> DEFINE a == SubSeq(s, 1, i - 1)
           b == SubSeq(s, i + 1, Len(s))
           n == Len(s)
<1>0. n \in Nat /\ i \in Int /\ 1 <= i /\ i <= n
  BY LenProperties
<1>1. /\ a \in Seq(S) /\ Len(a) = i - 1
      /\ \A j \in 1..(i - 1) : a[j] = s[j]
  BY <1>0, SubSeqProperties
<1>2. /\ b \in Seq(S) /\ Len(b) = n - i
      /\ \A j \in 1..(n - i) : b[j] = s[i + j]
  BY <1>0, SubSeqProperties
<1>3. RemoveAt(s, i) = a \o b
  BY DEF RemoveAt
<1> HIDE DEF a, b
<1>4. /\ a \o b \in Seq(S)
      /\ Len(a \o b) = Len(a) + Len(b)
      /\ \A j \in 1..(Len(a) + Len(b)) :
            (a \o b)[j] = IF j <= Len(a) THEN a[j] ELSE b[j - Len(a)]
  BY <1>1, <1>2, ConcatProperties
<1> HIDE DEF n
<1>5. Len(a) + Len(b) = n - 1
  BY <1>0, <1>1, <1>2
<1>6. \A j \in 1..(n - 1) :
         (a \o b)[j] = IF j <= i - 1 THEN a[j] ELSE b[j - (i - 1)]
  BY <1>1, <1>4, <1>5
<1>7. \A j \in 1..(n - 1) : (a \o b)[j] = IF j < i THEN s[j] ELSE s[j + 1]
  <2> TAKE j \in 1..(n - 1)
  <2>1. CASE j < i
    <3>1. j <= i - 1 /\ j \in 1..(i - 1)
      BY <2>1, <1>0
    <3> QED
      BY <2>1, <3>1, <1>1, <1>6
  <2>2. CASE ~(j < i)
    <3>1. /\ ~(j <= i - 1)
          /\ j - (i - 1) \in 1..(n - i)
          /\ i + (j - (i - 1)) = j + 1
      BY <2>2, <1>0
    <3>2. b[j - (i - 1)] = s[j + 1]
      BY <3>1, <1>2
    <3> QED
      BY <2>2, <3>1, <3>2, <1>6
  <2> QED
    BY <2>1, <2>2
<1> QED
  BY <1>3, <1>4, <1>5, <1>7 DEF n

(* The elements of a sequence are those at its places. *)
LEMMA Elements ==
    ASSUME NEW S, NEW s \in Seq(S)
    PROVE  \A x : x \in ToSet(s) <=> \E j \in 1..Len(s) : x = s[j]
BY LenProperties DEF ToSet

(* Those of two sequences, one behind the other. *)
LEMMA ConcatElements ==
    ASSUME NEW S, NEW s \in Seq(S), NEW t \in Seq(S)
    PROVE  ToSet(s \o t) = ToSet(s) \cup ToSet(t)
<1>0. Len(s) \in Nat /\ Len(t) \in Nat
  BY LenProperties
<1>1. /\ s \o t \in Seq(S)
      /\ Len(s \o t) = Len(s) + Len(t)
      /\ \A i \in 1..(Len(s) + Len(t)) :
            (s \o t)[i] = IF i <= Len(s) THEN s[i] ELSE t[i - Len(s)]
  BY ConcatProperties
<1>2. \A x : x \in ToSet(s \o t) <=> \E j \in 1..(Len(s) + Len(t)) : x = (s \o t)[j]
  <2>1. 1..Len(s \o t) = 1..(Len(s) + Len(t))
    BY <1>1
  <2>2. \A x : x \in ToSet(s \o t) <=> \E j \in 1..Len(s \o t) : x = (s \o t)[j]
    BY <1>1, Elements
  <2> QED
    BY <2>1, <2>2
<1>3. \A x : x \in ToSet(s) <=> \E j \in 1..Len(s) : x = s[j]
  BY Elements
<1>4. \A x : x \in ToSet(t) <=> \E j \in 1..Len(t) : x = t[j]
  BY Elements
<1>5. ASSUME NEW x, NEW j \in 1..(Len(s) + Len(t)), x = (s \o t)[j]
      PROVE  x \in ToSet(s) \cup ToSet(t)
  <2>1. CASE j <= Len(s)
    BY <2>1, <1>0, <1>1, <1>3, <1>5
  <2>2. CASE ~(j <= Len(s))
    <3>1. j - Len(s) \in 1..Len(t)
      BY <2>2, <1>0
    <3> QED
      BY <2>2, <3>1, <1>1, <1>4, <1>5
  <2> QED
    BY <2>1, <2>2
<1>6. ASSUME NEW j \in 1..Len(s) PROVE s[j] \in ToSet(s \o t)
  <2>1. j \in 1..(Len(s) + Len(t)) /\ j <= Len(s)
    BY <1>0
  <2> QED
    BY <2>1, <1>1, <1>2
<1>7. ASSUME NEW j \in 1..Len(t) PROVE t[j] \in ToSet(s \o t)
  <2>1. /\ Len(s) + j \in 1..(Len(s) + Len(t)) /\ ~(Len(s) + j <= Len(s))
        /\ (Len(s) + j) - Len(s) = j
    BY <1>0
  <2>2. (s \o t)[Len(s) + j] = t[j]
    BY <2>1, <1>1
  <2> QED
    BY <2>1, <2>2, <1>2
<1> QED
  BY <1>2, <1>3, <1>4, <1>5, <1>6, <1>7

(* Those of a sequence with one more at its end. *)
LEMMA AppendElements ==
    ASSUME NEW S, NEW s \in Seq(S), NEW e \in S
    PROVE  /\ Append(s, e) \in Seq(S)
           /\ ToSet(Append(s, e)) = ToSet(s) \cup {e}
<1>0. Len(s) \in Nat
  BY LenProperties
<1>1. /\ Append(s, e) \in Seq(S)
      /\ Len(Append(s, e)) = Len(s) + 1
      /\ \A i \in 1..Len(s) : Append(s, e)[i] = s[i]
      /\ Append(s, e)[Len(s) + 1] = e
  BY AppendProperties
<1>2. \A x : x \in ToSet(Append(s, e)) <=> \E j \in 1..(Len(s) + 1) : x = Append(s, e)[j]
  <2>1. 1..Len(Append(s, e)) = 1..(Len(s) + 1)
    BY <1>1
  <2>2. \A x : x \in ToSet(Append(s, e)) <=> \E j \in 1..Len(Append(s, e)) : x = Append(s, e)[j]
    BY <1>1, Elements
  <2> QED
    BY <2>1, <2>2
<1>3. \A x : x \in ToSet(s) <=> \E j \in 1..Len(s) : x = s[j]
  BY Elements
<1>4. \A j : j \in 1..(Len(s) + 1) <=> j \in 1..Len(s) \/ j = Len(s) + 1
  BY <1>0
<1> QED
  BY <1>1, <1>2, <1>3, <1>4

(* Those of a sequence whose first was taken. *)
LEMMA TailElements ==
    ASSUME NEW S, NEW s \in Seq(S), s # <<>>
    PROVE  /\ Head(s) \in S
           /\ Tail(s) \in Seq(S)
           /\ ToSet(s) = {Head(s)} \cup ToSet(Tail(s))
<1>0. Len(s) \in Nat /\ Len(s) > 0
  BY EmptySeq, LenProperties
<1>1. /\ Head(s) \in S
      /\ Tail(s) \in Seq(S)
      /\ Len(Tail(s)) = Len(s) - 1
      /\ \A i \in 1..(Len(s) - 1) : Tail(s)[i] = s[i + 1]
      /\ Head(s) = s[1]
  BY HeadTailProperties
<1>2. \A x : x \in ToSet(Tail(s)) <=> \E j \in 1..(Len(s) - 1) : x = Tail(s)[j]
  <2>1. 1..Len(Tail(s)) = 1..(Len(s) - 1)
    BY <1>1
  <2>2. \A x : x \in ToSet(Tail(s)) <=> \E j \in 1..Len(Tail(s)) : x = Tail(s)[j]
    BY <1>1, Elements
  <2> QED
    BY <2>1, <2>2
<1>3. \A x : x \in ToSet(s) <=> \E j \in 1..Len(s) : x = s[j]
  BY Elements
<1>4. ASSUME NEW j \in 1..Len(s) PROVE s[j] \in {Head(s)} \cup ToSet(Tail(s))
  <2>1. CASE j = 1
    BY <2>1, <1>1
  <2>2. CASE j # 1
    <3>1. j - 1 \in 1..(Len(s) - 1) /\ (j - 1) + 1 = j
      BY <2>2, <1>0
    <3>2. Tail(s)[j - 1] = s[j]
      BY <3>1, <1>1
    <3> QED
      BY <3>1, <3>2, <1>2
  <2> QED
    BY <2>1, <2>2
<1>5. ASSUME NEW j \in 1..(Len(s) - 1) PROVE Tail(s)[j] \in ToSet(s)
  <2>1. j + 1 \in 1..Len(s)
    BY <1>0
  <2> QED
    BY <2>1, <1>1, <1>3
<1>6. Head(s) \in ToSet(s)
  BY <1>0, <1>1, <1>3
<1> QED
  BY <1>1, <1>2, <1>3, <1>4, <1>5, <1>6

(* Those of a sequence of which one was taken. *)
LEMMA RemoveAtElements ==
    ASSUME NEW S, NEW s \in Seq(S), NEW i \in 1..Len(s)
    PROVE  ToSet(s) = {s[i]} \cup ToSet(RemoveAt(s, i))
<1> DEFINE r == RemoveAt(s, i)
<1>0. Len(s) \in Nat /\ i \in Int /\ 1 <= i /\ i <= Len(s)
  BY LenProperties
<1>1. /\ r \in Seq(S) /\ Len(r) = Len(s) - 1
      /\ \A j \in 1..(Len(s) - 1) : r[j] = IF j < i THEN s[j] ELSE s[j + 1]
  BY RemoveAtProperties
<1> HIDE DEF r
<1>2. \A x : x \in ToSet(r) <=> \E j \in 1..(Len(s) - 1) : x = r[j]
  BY <1>1, Elements
<1>3. \A x : x \in ToSet(s) <=> \E j \in 1..Len(s) : x = s[j]
  BY Elements
<1>4. ASSUME NEW j \in 1..Len(s), j # i PROVE s[j] \in ToSet(r)
  <2>1. CASE j < i
    <3>1. j \in 1..(Len(s) - 1)
      BY <2>1, <1>0
    <3> QED
      BY <2>1, <3>1, <1>1, <1>2
  <2>2. CASE ~(j < i)
    <3>1. j - 1 \in 1..(Len(s) - 1) /\ ~(j - 1 < i) /\ (j - 1) + 1 = j
      BY <2>2, <1>0, <1>4
    <3>2. r[j - 1] = s[j]
      BY <3>1, <1>1
    <3> QED
      BY <3>1, <3>2, <1>2
  <2> QED
    BY <2>1, <2>2
<1>5. ASSUME NEW j \in 1..(Len(s) - 1) PROVE r[j] \in ToSet(s)
  <2>1. j \in 1..Len(s) /\ j + 1 \in 1..Len(s)
    BY <1>0
  <2> QED
    BY <2>1, <1>1, <1>3
<1>6. \A x : x \in ToSet(s) => x \in {s[i]} \cup ToSet(r)
  BY <1>3, <1>4
<1>7. \A x : x \in {s[i]} \cup ToSet(r) => x \in ToSet(s)
  BY <1>0, <1>2, <1>3, <1>5
<1> QED
  BY <1>6, <1>7 DEF r

(* How the operations of a mailbox act on one made of two parts. *)
LEMMA AppendToConcat ==
    ASSUME NEW S, NEW s \in Seq(S), NEW t \in Seq(S), NEW e \in S
    PROVE  s \o Append(t, e) = Append(s \o t, e)
<1>1. Append(t, e) = t \o <<e>> /\ <<e>> \in Seq(S)
  BY AppendIsConcat
<1>2. s \o t \in Seq(S)
  BY ConcatProperties
<1>3. Append(s \o t, e) = (s \o t) \o <<e>>
  BY <1>2, AppendIsConcat
<1> QED
  BY <1>1, <1>3, ConcatAssociative

(* The first of the second part goes to the end of the first part. *)
LEMMA MoveToConcat ==
    ASSUME NEW S, NEW s \in Seq(S), NEW t \in Seq(S), t # <<>>
    PROVE  Append(s, Head(t)) \o Tail(t) = s \o t
<1>1. /\ Head(t) \in S /\ Tail(t) \in Seq(S) /\ Head(t) = t[1]
      /\ Tail(t) = SubSeq(t, 2, Len(t))
  BY HeadTailProperties, TailIsSubSeq
<1>2. <<Head(t)>> \in Seq(S) /\ Append(s, Head(t)) = s \o <<Head(t)>>
  BY <1>1, AppendIsConcat
<1>3. t = <<Head(t)>> \o Tail(t)
  <2>1. 1 \in 1..Len(t) /\ Len(t) \in 1..Len(t)
    BY EmptySeq
  <2>2. SubSeq(t, 1, Len(t)) = <<t[1]>> \o SubSeq(t, 1 + 1, Len(t))
    BY <2>1, SubSeqRecursiveFirst
  <2>3. SubSeq(t, 1, Len(t)) = t /\ 1 + 1 = 2
    BY SubSeqFull
  <2> QED
    BY <2>2, <2>3, <1>1
<1> QED
  BY <1>1, <1>2, <1>3, ConcatAssociative

(* One of the first part is removed. *)
LEMMA RemoveFromFirst ==
    ASSUME NEW S, NEW s \in Seq(S), NEW t \in Seq(S), NEW i \in 1..Len(s)
    PROVE  /\ i \in DOMAIN (s \o t) /\ (s \o t)[i] = s[i]
           /\ RemoveAt(s, i) \o t = RemoveAt(s \o t, i)
<1> DEFINE a == RemoveAt(s, i)
           b == s \o t
           l == a \o t
           r == RemoveAt(b, i)
<1>0. Len(s) \in Nat /\ Len(t) \in Nat /\ i \in Int /\ 1 <= i /\ i <= Len(s)
  BY LenProperties
<1>1. /\ a \in Seq(S) /\ Len(a) = Len(s) - 1
      /\ \A j \in 1..(Len(s) - 1) : a[j] = IF j < i THEN s[j] ELSE s[j + 1]
  BY RemoveAtProperties
<1>2. /\ b \in Seq(S) /\ Len(b) = Len(s) + Len(t)
      /\ \A j \in 1..(Len(s) + Len(t)) : b[j] = IF j <= Len(s) THEN s[j] ELSE t[j - Len(s)]
  BY ConcatProperties
<1>3. i \in 1..Len(b) /\ i \in DOMAIN b /\ b[i] = s[i]
  <2>1. i \in 1..Len(b) /\ i \in 1..(Len(s) + Len(t)) /\ i <= Len(s)
    BY <1>0, <1>2
  <2>2. DOMAIN b = 1..Len(b)
    BY <1>2, LenProperties
  <2> QED
    BY <2>1, <2>2, <1>2
<1> HIDE DEF a, b
<1>4. /\ l \in Seq(S) /\ Len(l) = Len(a) + Len(t)
      /\ \A j \in 1..(Len(a) + Len(t)) : l[j] = IF j <= Len(a) THEN a[j] ELSE t[j - Len(a)]
  BY <1>1, ConcatProperties
<1>5. /\ r \in Seq(S) /\ Len(r) = Len(b) - 1
      /\ \A j \in 1..(Len(b) - 1) : r[j] = IF j < i THEN b[j] ELSE b[j + 1]
  BY <1>2, <1>3, RemoveAtProperties
<1> HIDE DEF l, r
<1>6. Len(l) = Len(r) /\ Len(l) = Len(s) + Len(t) - 1
  BY <1>0, <1>1, <1>2, <1>4, <1>5
<1>7. ASSUME NEW j \in 1..Len(l) PROVE l[j] = r[j]
  <2>0. /\ j \in 1..(Len(a) + Len(t)) /\ j \in 1..(Len(b) - 1) /\ j \in Int
        /\ j \in 1..(Len(s) + Len(t)) /\ j + 1 \in 1..(Len(s) + Len(t))
    BY <1>0, <1>1, <1>2, <1>4, <1>6
  <2>1. CASE j < i
    <3>1. j <= Len(a) /\ j \in 1..(Len(s) - 1) /\ j <= Len(s)
      BY <2>0, <2>1, <1>0, <1>1
    <3> QED
      BY <2>0, <2>1, <3>1, <1>1, <1>2, <1>4, <1>5
  <2>2. CASE ~(j < i) /\ j <= Len(a)
    <3>1. j \in 1..(Len(s) - 1) /\ j + 1 <= Len(s)
      BY <2>0, <2>2, <1>0, <1>1
    <3>2. l[j] = s[j + 1]
      BY <2>0, <2>2, <3>1, <1>1, <1>4
    <3>3. r[j] = b[j + 1] /\ b[j + 1] = s[j + 1]
      BY <2>0, <2>2, <3>1, <1>2, <1>5
    <3> QED
      BY <3>2, <3>3
  <2>3. CASE ~(j < i) /\ ~(j <= Len(a))
    <3>1. ~(j + 1 <= Len(s)) /\ (j + 1) - Len(s) = j - Len(a)
      BY <2>0, <2>3, <1>0, <1>1
    <3>2. l[j] = t[j - Len(a)]
      BY <2>0, <2>3, <1>4
    <3>3. r[j] = b[j + 1] /\ b[j + 1] = t[(j + 1) - Len(s)]
      BY <2>0, <2>3, <3>1, <1>2, <1>5
    <3> QED
      BY <3>1, <3>2, <3>3
  <2> QED
    BY <2>1, <2>2, <2>3
<1>8. l = r
  BY <1>4, <1>5, <1>6, <1>7, SeqEqual
<1> QED
  BY <1>3, <1>8 DEF a, b, l, r

(* The first of the second part is removed. *)
LEMMA RemoveFromSecond ==
    ASSUME NEW S, NEW s \in Seq(S), NEW t \in Seq(S), t # <<>>
    PROVE  /\ Len(s) + 1 \in DOMAIN (s \o t) /\ (s \o t)[Len(s) + 1] = Head(t)
           /\ s \o Tail(t) = RemoveAt(s \o t, Len(s) + 1)
<1> DEFINE b == s \o t
           l == s \o Tail(t)
           r == RemoveAt(b, Len(s) + 1)
           n == Len(s)
           m == Len(t)
<1>0. n \in Nat /\ m \in Nat /\ m > 0
  BY EmptySeq, LenProperties
<1>1. /\ Tail(t) \in Seq(S) /\ Len(Tail(t)) = m - 1 /\ Head(t) = t[1]
      /\ \A j \in 1..(m - 1) : Tail(t)[j] = t[j + 1]
  BY HeadTailProperties
<1>2. /\ b \in Seq(S) /\ Len(b) = n + m
      /\ \A j \in 1..(n + m) : b[j] = IF j <= n THEN s[j] ELSE t[j - n]
  BY ConcatProperties
<1>3. n + 1 \in 1..Len(b) /\ n + 1 \in DOMAIN b /\ b[n + 1] = Head(t)
  <2> HIDE DEF b, n, m
  <2>1. n + 1 \in 1..(n + m) /\ ~(n + 1 <= n) /\ (n + 1) - n = 1
    BY <1>0
  <2>2. DOMAIN b = 1..Len(b)
    BY <1>2, LenProperties
  <2>3. b[n + 1] = t[(n + 1) - n]
    BY <2>1, <1>2
  <2> QED
    BY <2>1, <2>2, <2>3, <1>1, <1>2
<1> HIDE DEF b
<1>4. /\ l \in Seq(S) /\ Len(l) = n + Len(Tail(t))
      /\ \A j \in 1..(n + Len(Tail(t))) : l[j] = IF j <= n THEN s[j] ELSE Tail(t)[j - n]
  BY <1>1, ConcatProperties
<1>5. /\ r \in Seq(S) /\ Len(r) = Len(b) - 1
      /\ \A j \in 1..(Len(b) - 1) : r[j] = IF j < n + 1 THEN b[j] ELSE b[j + 1]
  BY <1>2, <1>3, RemoveAtProperties
<1> HIDE DEF l, r, n, m
<1>6. Len(l) = Len(r) /\ Len(l) = n + m - 1
  BY <1>0, <1>1, <1>2, <1>4, <1>5
<1>7. ASSUME NEW j \in 1..Len(l) PROVE l[j] = r[j]
  <2>0. /\ j \in 1..(n + Len(Tail(t))) /\ j \in 1..(Len(b) - 1) /\ j \in Int
        /\ j \in 1..(n + m) /\ j + 1 \in 1..(n + m)
    BY <1>0, <1>1, <1>2, <1>4, <1>6
  <2>1. CASE j <= n
    <3>1. l[j] = s[j]
      BY <2>0, <2>1, <1>4
    <3>2. j < n + 1
      BY <2>0, <2>1, <1>0
    <3>3. r[j] = b[j] /\ b[j] = s[j]
      BY <2>0, <2>1, <3>2, <1>2, <1>5
    <3> QED
      BY <3>1, <3>3
  <2>2. CASE ~(j <= n)
    <3>1. /\ j - n \in 1..(m - 1) /\ ~(j < n + 1) /\ ~(j + 1 <= n)
          /\ (j - n) + 1 = (j + 1) - n
      BY <2>0, <2>2, <1>0, <1>6
    <3>2. l[j] = Tail(t)[j - n] /\ Tail(t)[j - n] = t[(j - n) + 1]
      BY <2>0, <2>2, <3>1, <1>1, <1>4
    <3>3. r[j] = b[j + 1] /\ b[j + 1] = t[(j + 1) - n]
      BY <2>0, <3>1, <1>2, <1>5
    <3> QED
      BY <3>1, <3>2, <3>3
  <2> QED
    BY <2>1, <2>2
<1>8. l = r
  BY <1>4, <1>5, <1>6, <1>7, SeqEqual
<1> QED
  BY <1>3, <1>8 DEF b, l, r, n

(* The tail is what remains without the first element. *)
LEMMA FirstRemoved ==
    ASSUME NEW S, NEW s \in Seq(S), s # <<>>
    PROVE  Tail(s) = RemoveAt(s, 1)
<1>0. 1 \in 1..Len(s) /\ Len(s) \in Nat
  BY EmptySeq, LenProperties
<1>1. /\ Tail(s) \in Seq(S) /\ Len(Tail(s)) = Len(s) - 1
      /\ \A i \in 1..(Len(s) - 1) : Tail(s)[i] = s[i + 1]
  BY HeadTailProperties
<1>2. /\ RemoveAt(s, 1) \in Seq(S) /\ Len(RemoveAt(s, 1)) = Len(s) - 1
      /\ \A i \in 1..(Len(s) - 1) :
            RemoveAt(s, 1)[i] = IF i < 1 THEN s[i] ELSE s[i + 1]
  BY <1>0, RemoveAtProperties
<1>3. \A i \in 1..Len(Tail(s)) : Tail(s)[i] = RemoveAt(s, 1)[i]
  BY <1>0, <1>1, <1>2
<1>4. Len(Tail(s)) = Len(RemoveAt(s, 1))
  BY <1>1, <1>2
<1> QED
  BY <1>1, <1>2, <1>3, <1>4, SeqEqual

(* A sequence over a set has its elements there. *)
LEMMA ElementsBelong ==
    ASSUME NEW S, NEW s \in Seq(S)
    PROVE  ToSet(s) \subseteq S
<1>1. \A j \in 1..Len(s) : s[j] \in S
  BY ElementOfSeq
<1> QED
  BY <1>1, Elements

--------------------------------------------------------------------------------
(* Messages with numbers of their own. *)

Same(d, e) == d.from = e.from /\ d.seq = e.seq

Numbered(s) == \A i, j \in 1..Len(s) : Same(s[i], s[j]) => i = j

Apart(D, E) == \A d \in D, e \in E : ~Same(d, e)

(* A message with a new number keeps the numbers distinct. *)
LEMMA NumberedAppend ==
    ASSUME NEW S, NEW s \in Seq(S), NEW e \in S, Numbered(s), Apart(ToSet(s), {e})
    PROVE  Numbered(Append(s, e))
<1> DEFINE r == Append(s, e)
<1>0. Len(s) \in Nat
  BY LenProperties
<1>1. /\ Len(r) = Len(s) + 1
      /\ \A i \in 1..Len(s) : r[i] = s[i]
      /\ r[Len(s) + 1] = e
  BY AppendProperties
<1>2. \A i \in 1..Len(s) : s[i] \in ToSet(s)
  BY Elements
<1>3. \A i \in 1..Len(s) : ~Same(s[i], e) /\ ~Same(e, s[i])
  BY <1>2 DEF Apart, Same
<1> HIDE DEF r
<1>4. ASSUME NEW i \in 1..Len(r), NEW j \in 1..Len(r), Same(r[i], r[j]) PROVE i = j
  <2>1. /\ i \in 1..Len(s) \/ i = Len(s) + 1
        /\ j \in 1..Len(s) \/ j = Len(s) + 1
    BY <1>0, <1>1
  <2>2. CASE i \in 1..Len(s) /\ j \in 1..Len(s)
    BY <2>2, <1>1, <1>4 DEF Numbered
  <2>3. CASE i \in 1..Len(s) /\ j = Len(s) + 1
    BY <2>3, <1>1, <1>3, <1>4
  <2>4. CASE i = Len(s) + 1 /\ j \in 1..Len(s)
    BY <2>4, <1>1, <1>3, <1>4
  <2> QED
    BY <2>1, <2>2, <2>3, <2>4
<1> QED
  BY <1>4 DEF Numbered, r

(* So does removing one, and its number is gone. *)
LEMMA NumberedRemove ==
    ASSUME NEW S, NEW s \in Seq(S), NEW i \in 1..Len(s), Numbered(s)
    PROVE  Numbered(RemoveAt(s, i)) /\ Apart(ToSet(RemoveAt(s, i)), {s[i]})
<1> DEFINE r == RemoveAt(s, i)
           At(j) == IF j < i THEN j ELSE j + 1
<1>0. Len(s) \in Nat /\ i \in Int /\ 1 <= i /\ i <= Len(s)
  BY LenProperties
<1>1. /\ r \in Seq(S) /\ Len(r) = Len(s) - 1
      /\ \A j \in 1..(Len(s) - 1) : r[j] = IF j < i THEN s[j] ELSE s[j + 1]
  BY RemoveAtProperties
<1> HIDE DEF r
<1>2. \A j \in 1..(Len(s) - 1) : At(j) \in 1..Len(s) /\ At(j) # i
  BY <1>0
<1>3. \A j \in 1..(Len(s) - 1) : r[j] = s[At(j)]
  BY <1>1
<1>4. \A j, k \in 1..(Len(s) - 1) : At(j) = At(k) => j = k
  BY <1>0
<1> HIDE DEF At
<1>5. Numbered(r)
  BY <1>1, <1>2, <1>3, <1>4 DEF Numbered
<1>6. \A d : d \in ToSet(r) <=> \E j \in 1..Len(r) : d = r[j]
  BY <1>1, Elements
<1>7. \A j \in 1..(Len(s) - 1) : ~Same(r[j], s[i])
  BY <1>2, <1>3 DEF Numbered
<1>8. Apart(ToSet(r), {s[i]})
  BY <1>1, <1>6, <1>7 DEF Apart
<1> QED
  BY <1>5, <1>8 DEF r

(* The same for the first one. *)
LEMMA NumberedTail ==
    ASSUME NEW S, NEW s \in Seq(S), s # <<>>, Numbered(s)
    PROVE  Numbered(Tail(s)) /\ Apart(ToSet(Tail(s)), {Head(s)})
<1>1. 1 \in 1..Len(s) /\ s[1] = Head(s)
  BY EmptySeq, HeadTailProperties
<1>2. Tail(s) = RemoveAt(s, 1)
  BY FirstRemoved
<1> QED
  BY <1>1, <1>2, NumberedRemove

(* Two parts without a common number. *)
LEMMA NumberedConcat ==
    ASSUME NEW S, NEW s \in Seq(S), NEW t \in Seq(S),
           Numbered(s), Numbered(t), Apart(ToSet(s), ToSet(t))
    PROVE  Numbered(s \o t)
<1> DEFINE r == s \o t
<1>0. Len(s) \in Nat /\ Len(t) \in Nat
  BY LenProperties
<1>1. /\ Len(r) = Len(s) + Len(t)
      /\ \A i \in 1..(Len(s) + Len(t)) : r[i] = IF i <= Len(s) THEN s[i] ELSE t[i - Len(s)]
  BY ConcatProperties
<1> HIDE DEF r
<1>2. \A i \in 1..Len(s), j \in 1..Len(t) : ~Same(s[i], t[j]) /\ ~Same(t[j], s[i])
  <2>1. \A i \in 1..Len(s) : s[i] \in ToSet(s)
    BY Elements
  <2>2. \A j \in 1..Len(t) : t[j] \in ToSet(t)
    BY Elements
  <2> QED
    BY <2>1, <2>2 DEF Apart, Same
<1>3. ASSUME NEW i \in 1..Len(r)
      PROVE  \/ i \in 1..Len(s) /\ r[i] = s[i]
             \/ i - Len(s) \in 1..Len(t) /\ r[i] = t[i - Len(s)] /\ i \in Int
  <2>1. i \in 1..(Len(s) + Len(t))
    BY <1>1
  <2>2. CASE i <= Len(s)
    BY <2>1, <2>2, <1>0, <1>1
  <2>3. CASE ~(i <= Len(s))
    <3>1. i - Len(s) \in 1..Len(t) /\ i \in Int
      BY <2>1, <2>3, <1>0
    <3> QED
      BY <2>1, <2>3, <3>1, <1>1
  <2> QED
    BY <2>2, <2>3
<1>4. ASSUME NEW i \in 1..Len(r), NEW j \in 1..Len(r), Same(r[i], r[j]) PROVE i = j
  <2>1. CASE i \in 1..Len(s) /\ r[i] = s[i] /\ j \in 1..Len(s) /\ r[j] = s[j]
    BY <2>1, <1>4 DEF Numbered
  <2>2. CASE /\ i - Len(s) \in 1..Len(t) /\ r[i] = t[i - Len(s)] /\ i \in Int
             /\ j - Len(s) \in 1..Len(t) /\ r[j] = t[j - Len(s)] /\ j \in Int
    <3>1. i - Len(s) = j - Len(s)
      BY <2>2, <1>4 DEF Numbered
    <3> QED
      BY <3>1, <2>2, <1>0
  <2> QED
    BY <2>1, <2>2, <1>2, <1>3, <1>4
<1> QED
  BY <1>4 DEF Numbered, r

--------------------------------------------------------------------------------
(* The least place of a kind in the backlog. *)

(* It is where wait_for finds its message: nothing of the kind is before it. *)
LEMMA FirstFound ==
    ASSUME NEW S, backlog \in Seq(S), NEW kind, Found(kind) # {}
    PROVE  /\ Min(Found(kind)) \in 1..Len(backlog)
           /\ backlog[Min(Found(kind))].kind = kind
           /\ \A j \in 1..(Min(Found(kind)) - 1) : backlog[j].kind # kind
<1>1. Found(kind) = {i \in 1..Len(backlog) : backlog[i].kind = kind} /\ Len(backlog) \in Nat
  BY LenProperties DEF Found
<1>2. Found(kind) \subseteq Nat
  BY <1>1
<1>3. \E x \in Found(kind) : \A y \in Found(kind) : x <= y
  <2>1. \E x \in Found(kind) : \A y \in Found(kind) : <<y, x>> \notin OpToRel(<, Nat)
    BY <1>2, WFMin, NatLessThanWellFounded
  <2>2. \A x, y \in Found(kind) : y < x => <<y, x>> \in OpToRel(<, Nat)
    BY <1>2 DEF OpToRel
  <2>3. \A x, y \in Found(kind) : x <= y \/ y < x
    BY <1>2
  <2> QED
    BY <2>1, <2>2, <2>3
<1>4. /\ Min(Found(kind)) \in Found(kind)
      /\ \A y \in Found(kind) : Min(Found(kind)) <= y
  BY <1>3 DEF Min
<1>5. \A j \in 1..(Min(Found(kind)) - 1) : j \in 1..Len(backlog) /\ ~(Min(Found(kind)) <= j)
  BY <1>1, <1>4
<1> QED
  BY <1>1, <1>4, <1>5

--------------------------------------------------------------------------------
(* Type correctness: what waits or was taken arrived, what arrived was     *)
(* sent, and everything sent is a datagram of the model.                   *)
THEOREM TypeCorrect == Spec => []TypeOK
<1>1. Init => TypeOK
  <2> SUFFICES ASSUME Init PROVE TypeOK
    OBVIOUS
  <2>1. <<>> \in Seq(arrived)
    BY EmptySeq
  <2> QED
    BY <2>1, UdpAssumption, SMTT(30) DEF Init, LocalInit, TypeOK, Datagram, None
<1>2. TypeOK /\ [Next]_vars => TypeOK'
  <2> SUFFICES ASSUME TypeOK, [Next]_vars PROVE TypeOK'
    OBVIOUS
  <2> USE UdpAssumption DEF TypeOK
  <2>1. ASSUME NEW p \in Peer, NEW kind \in Kind, Send(p, kind) PROVE TypeOK'
    <3>1. sequence[p] + 1 \in 1..MaxSequence
      BY <2>1 DEF Send
    <3>2. [from |-> p, seq |-> sequence[p] + 1, kind |-> kind,
           src |-> address[p], life |-> life[p]] \in Datagram
      BY <3>1 DEF Datagram
    <3>3. wire' \subseteq Datagram
      BY <2>1, <3>2 DEF Send
    <3>4. sequence' \in [Peer -> 0..MaxSequence]
      BY <2>1, <3>1 DEF Send
    <3> QED
      BY <2>1, <3>3, <3>4 DEF Send, local
  <2>2. ASSUME NEW p \in Peer, PeerRestarts(p) PROVE TypeOK'
    <3>1. life[p] + 1 \in 1..MaxLives /\ 0 \in 0..MaxSequence
      BY <2>2 DEF PeerRestarts
    <3>2. life' \in [Peer -> 1..MaxLives] /\ sequence' \in [Peer -> 0..MaxSequence]
      BY <2>2, <3>1 DEF PeerRestarts
    <3> QED
      BY <2>2, <3>2 DEF PeerRestarts, local
  <2>3. ASSUME NEW p \in Peer, NEW a \in Address, Move(p, a) PROVE TypeOK'
    BY <2>3 DEF Move, local
  <2>4. ASSUME NEW d \in wire, OnDatagram(d) PROVE TypeOK'
    <3>1. /\ d.from \in Peer /\ d.seq \in 1..MaxSequence /\ d.src \in Address
      BY DEF Datagram
    <3>2. /\ seen' \in [Peer -> SUBSET (1..MaxSequence)]
          /\ peers' \in [Peer -> Address \cup {None}]
          /\ arrived' = arrived \cup {d}
      BY <2>4, <3>1 DEF OnDatagram, Learned
    <3>3. /\ queue \in Seq(arrived') /\ backlog \in Seq(arrived') /\ taken \in Seq(arrived')
      BY <3>2, SeqMonotonic
    <3>4. queue' \in Seq(arrived')
      <4>1. Append(queue, d) \in Seq(arrived')
        BY <3>2, <3>3, AppendProperties
      <4> QED
        BY <2>4, <3>3, <4>1 DEF OnDatagram
    <3> QED
      BY <2>4, <3>2, <3>3, <3>4 DEF OnDatagram, remote
  <2>5. ASSUME NEW kind \in Ignorable, IgnoreMessageId(kind) PROVE TypeOK'
    BY <2>5 DEF IgnoreMessageId, remote
  <2>6. CASE Receive
    <3>1. queue' \in Seq(arrived) /\ backlog' \in Seq(arrived) /\ taken' \in Seq(arrived)
      <4>1. CASE backlog # <<>> /\ taken' = Append(taken, Head(backlog))
                 /\ backlog' = Tail(backlog) /\ queue' = queue
        BY <4>1, HeadTailProperties, AppendProperties
      <4>2. CASE queue # <<>> /\ taken' = Append(taken, Head(queue))
                 /\ queue' = Tail(queue) /\ backlog' = backlog
        BY <4>2, HeadTailProperties, AppendProperties
      <4> QED
        BY <2>6, <4>1, <4>2 DEF Receive
    <3> QED
      BY <2>6, <3>1 DEF Receive, remote
  <2>7. ASSUME NEW kind \in Kind, WaitFor(kind) PROVE TypeOK'
    <3>1. CASE /\ Found(kind) # {}
               /\ taken' = Append(taken, backlog[Min(Found(kind))])
               /\ backlog' = RemoveAt(backlog, Min(Found(kind)))
               /\ UNCHANGED looking
      <4>1. Min(Found(kind)) \in 1..Len(backlog)
        BY <3>1, FirstFound
      <4>2. backlog[Min(Found(kind))] \in arrived
        BY <4>1, ElementOfSeq
      <4>3. backlog' \in Seq(arrived) /\ taken' \in Seq(arrived)
        BY <3>1, <4>1, <4>2, RemoveAtProperties, AppendProperties
      <4> QED
        BY <2>7, <3>1, <4>3 DEF WaitFor, remote
    <3>2. CASE looking' = kind /\ UNCHANGED <<backlog, taken>>
      BY <2>7, <3>2 DEF WaitFor, remote
    <3> QED
      BY <2>7, <3>1, <3>2 DEF WaitFor
  <2>8. CASE LookFurther
    <3>1. Head(queue) \in arrived /\ Tail(queue) \in Seq(arrived)
      BY <2>8, HeadTailProperties DEF LookFurther
    <3>2. Append(taken, Head(queue)) \in Seq(arrived) /\ Append(backlog, Head(queue)) \in Seq(arrived)
      BY <3>1, AppendProperties
    <3> QED
      BY <2>8, <3>1, <3>2 DEF LookFurther, remote
  <2>9. CASE StopLooking
    BY <2>9 DEF StopLooking, remote
  <2>10. CASE Restart
    <3>1. <<>> \in Seq(arrived')
      BY EmptySeq
    <3> QED
      BY <2>10, <3>1 DEF Restart, remote
  <2>11. ASSUME NEW m \in [Peer -> Address], SetPeers(m) PROVE TypeOK'
    <3>1. peers' \in [Peer -> Address \cup {None}]
      BY <2>11 DEF SetPeers
    <3> QED
      BY <2>11, <3>1 DEF SetPeers, remote
  <2>12. CASE UNCHANGED vars
    BY <2>12 DEF vars, remote, local
  <2> QED
    BY <2>1, <2>2, <2>3, <2>4, <2>5, <2>6, <2>7, <2>8, <2>9, <2>10, <2>11, <2>12 DEF Next
<1> QED
  BY <1>1, <1>2, PTL DEF Spec

--------------------------------------------------------------------------------
(* A process uses every number for one datagram. *)
NumbersAreUnique ==
    /\ \A d \in wire : /\ d.life <= life[d.from]
                       /\ d.life = life[d.from] => d.seq <= sequence[d.from]
    /\ \A d, e \in wire :
          d.from = e.from /\ d.seq = e.seq /\ d.life = e.life => d = e

(* It does, however often its teammate starts again.                       *)
LEMMA Numbers == Spec => []NumbersAreUnique
<1>1. Init => NumbersAreUnique
  BY DEF Init, NumbersAreUnique
<1>2. TypeOK /\ NumbersAreUnique /\ [Next]_vars => NumbersAreUnique'
  <2> SUFFICES ASSUME TypeOK, NumbersAreUnique, [Next]_vars PROVE NumbersAreUnique'
    OBVIOUS
  <2>1. ASSUME NEW p \in Peer, NEW kind \in Kind, Send(p, kind) PROVE NumbersAreUnique'
    <3> DEFINE n == [from |-> p, seq |-> sequence[p] + 1, kind |-> kind,
                     src |-> address[p], life |-> life[p]]
    <3>1. /\ wire' = wire \cup {n} /\ life' = life
          /\ sequence' = [sequence EXCEPT ![p] = @ + 1]
          /\ n.from = p /\ n.seq = sequence[p] + 1 /\ n.life = life[p]
      BY <2>1 DEF Send
    <3> HIDE DEF n
    <3>2. /\ life \in [Peer -> 1..MaxLives] /\ sequence \in [Peer -> 0..MaxSequence]
          /\ \A d \in wire : d.from \in Peer /\ d.life \in Nat /\ d.seq \in Nat
      BY DEF TypeOK, Datagram
    <3>3. \A d \in wire' : /\ d.life <= life'[d.from]
                           /\ d.life = life'[d.from] => d.seq <= sequence'[d.from]
      BY <3>1, <3>2 DEF NumbersAreUnique
    <3>4. \A d \in wire : ~(d.from = n.from /\ d.seq = n.seq /\ d.life = n.life)
      BY <3>1, <3>2 DEF NumbersAreUnique
    <3> QED
      BY <3>1, <3>3, <3>4 DEF NumbersAreUnique
  <2>2. ASSUME NEW p \in Peer, PeerRestarts(p) PROVE NumbersAreUnique'
    <3>1. /\ life \in [Peer -> 1..MaxLives] /\ sequence \in [Peer -> 0..MaxSequence]
          /\ \A d \in wire : d.from \in Peer /\ d.life \in Nat /\ d.seq \in Nat
      BY DEF TypeOK, Datagram
    <3> QED
      BY <2>2, <3>1 DEF PeerRestarts, NumbersAreUnique
  <2>3. ASSUME UNCHANGED <<sequence, life, wire>> PROVE NumbersAreUnique'
    BY <2>3 DEF NumbersAreUnique
  <2>4. ASSUME NEW p \in Peer, NEW a \in Address, Move(p, a) PROVE NumbersAreUnique'
    BY <2>4, <2>3 DEF Move
  <2>5. ASSUME UNCHANGED remote PROVE NumbersAreUnique'
    BY <2>5, <2>3 DEF remote
  <2>6. \/ \E d \in wire : OnDatagram(d)
        \/ \E m \in [Peer -> Address] : SetPeers(m)
        \/ \E kind \in Ignorable : IgnoreMessageId(kind)
        \/ Receive \/ (\E kind \in Kind : WaitFor(kind)) \/ LookFurther
        \/ StopLooking \/ Restart \/ UNCHANGED vars
        => UNCHANGED remote
    BY DEF OnDatagram, SetPeers, IgnoreMessageId, Receive, WaitFor, LookFurther,
           StopLooking, Restart, vars
  <2> QED
    BY <2>1, <2>2, <2>4, <2>5, <2>6 DEF Next
<1> QED
  BY <1>1, <1>2, TypeCorrect, PTL DEF Spec

--------------------------------------------------------------------------------
(* The invariant behind the other properties. *)

Held == ToSet(taken) \cup ToSet(backlog) \cup ToSet(queue)

(* No two places hold messages of one number. *)
Parted ==
    /\ Numbered(taken) /\ Numbered(backlog) /\ Numbered(queue)
    /\ Apart(ToSet(taken), ToSet(backlog))
    /\ Apart(ToSet(taken), ToSet(queue))
    /\ Apart(ToSet(backlog), ToSet(queue))

(* The numbers seen are those of the datagrams that arrived. *)
Recorded ==
    /\ \A d \in arrived : d.seq \in seen[d.from]
    /\ \A p \in Peer : \A n \in seen[p] : \E d \in arrived : d.from = p /\ d.seq = n

Kept ==
    \A d \in arrived :
        \/ d \in Held
        \/ d.kind \in ignored
        \/ \E e \in arrived : e.life # d.life /\ e.from = d.from /\ e.seq = d.seq

(* While wait_for awaits the queue, the backlog has nothing for it. *)
LooksInVain == \A d \in ToSet(backlog) : d.kind # looking

(* What was seen before the endpoints were set is still seen. *)
EarlySeen == \A p \in Peer : early[p] \subseteq seen[p]

UdpInv == Parted /\ Recorded /\ Kept /\ LooksInVain /\ EarlySeen /\ AnswersGoToPeer

(* One message goes from one sequence to the end of another. *)
LEMMA OneMoves ==
    ASSUME NEW S, NEW a \in Seq(S), NEW s \in Seq(S), NEW i \in 1..Len(s),
           Numbered(a), Numbered(s), Apart(ToSet(a), ToSet(s))
    PROVE  /\ s[i] \in S
           /\ Append(a, s[i]) \in Seq(S) /\ RemoveAt(s, i) \in Seq(S)
           /\ Numbered(Append(a, s[i])) /\ Numbered(RemoveAt(s, i))
           /\ ToSet(Append(a, s[i])) = ToSet(a) \cup {s[i]}
           /\ ToSet(s) = {s[i]} \cup ToSet(RemoveAt(s, i))
           /\ Apart(ToSet(Append(a, s[i])), ToSet(RemoveAt(s, i)))
<1>1. s[i] \in S
  BY ElementOfSeq
<1>2. RemoveAt(s, i) \in Seq(S) /\ ToSet(s) = {s[i]} \cup ToSet(RemoveAt(s, i))
  BY RemoveAtProperties, RemoveAtElements
<1>3. Append(a, s[i]) \in Seq(S) /\ ToSet(Append(a, s[i])) = ToSet(a) \cup {s[i]}
  BY <1>1, AppendElements
<1>4. Numbered(RemoveAt(s, i)) /\ Apart(ToSet(RemoveAt(s, i)), {s[i]})
  BY NumberedRemove
<1>5. Numbered(Append(a, s[i]))
  <2>1. Apart(ToSet(a), {s[i]})
    BY <1>2 DEF Apart
  <2> QED
    BY <2>1, <1>1, NumberedAppend
<1>6. Apart(ToSet(Append(a, s[i])), ToSet(RemoveAt(s, i)))
  BY <1>2, <1>3, <1>4 DEF Apart, Same
<1> QED
  BY <1>1, <1>2, <1>3, <1>4, <1>5, <1>6

(* The same for the first message. *)
LEMMA HeadMoves ==
    ASSUME NEW S, NEW a \in Seq(S), NEW s \in Seq(S), s # <<>>,
           Numbered(a), Numbered(s), Apart(ToSet(a), ToSet(s))
    PROVE  /\ Numbered(Append(a, Head(s))) /\ Numbered(Tail(s))
           /\ ToSet(Append(a, Head(s))) = ToSet(a) \cup {Head(s)}
           /\ ToSet(s) = {Head(s)} \cup ToSet(Tail(s))
           /\ Apart(ToSet(Append(a, Head(s))), ToSet(Tail(s)))
<1>1. 1 \in 1..Len(s) /\ s[1] = Head(s)
  BY EmptySeq, HeadTailProperties
<1>2. Tail(s) = RemoveAt(s, 1)
  BY FirstRemoved
<1>3. /\ Numbered(Append(a, s[1])) /\ Numbered(RemoveAt(s, 1))
      /\ ToSet(Append(a, s[1])) = ToSet(a) \cup {s[1]}
      /\ ToSet(s) = {s[1]} \cup ToSet(RemoveAt(s, 1))
      /\ Apart(ToSet(Append(a, s[1])), ToSet(RemoveAt(s, 1)))
  BY <1>1, OneMoves
<1> QED
  BY <1>1, <1>2, <1>3

(* What the session does moves messages and loses none. *)
LEMMA TakingKeeps ==
    ASSUME TypeOK, Parted, LooksInVain,
           Receive \/ (\E kind \in Kind : WaitFor(kind)) \/ LookFurther
    PROVE  Parted' /\ Held' = Held /\ LooksInVain'
<1> USE DEF TypeOK
<1>1. CASE Receive
  <2>1. CASE /\ backlog # <<>> /\ taken' = Append(taken, Head(backlog))
             /\ backlog' = Tail(backlog) /\ queue' = queue
    <3>1. /\ Numbered(taken') /\ Numbered(backlog')
          /\ ToSet(taken') = ToSet(taken) \cup {Head(backlog)}
          /\ ToSet(backlog) = {Head(backlog)} \cup ToSet(backlog')
          /\ Apart(ToSet(taken'), ToSet(backlog'))
      BY <2>1, HeadMoves DEF Parted
    <3>2. Apart(ToSet(taken'), ToSet(queue')) /\ Apart(ToSet(backlog'), ToSet(queue'))
      BY <2>1, <3>1 DEF Apart, Parted
    <3>3. LooksInVain'
      BY <1>1, <3>1 DEF Receive, LooksInVain
    <3> QED
      BY <2>1, <3>1, <3>2, <3>3 DEF Parted, Held
  <2>2. CASE /\ queue # <<>> /\ taken' = Append(taken, Head(queue))
             /\ queue' = Tail(queue) /\ backlog' = backlog
    <3>1. /\ Numbered(taken') /\ Numbered(queue')
          /\ ToSet(taken') = ToSet(taken) \cup {Head(queue)}
          /\ ToSet(queue) = {Head(queue)} \cup ToSet(queue')
          /\ Apart(ToSet(taken'), ToSet(queue'))
      BY <2>2, HeadMoves DEF Parted
    <3>2. Apart(ToSet(taken'), ToSet(backlog')) /\ Apart(ToSet(backlog'), ToSet(queue'))
      BY <2>2, <3>1 DEF Apart, Parted, Same
    <3>3. LooksInVain'
      BY <1>1, <2>2 DEF Receive, LooksInVain
    <3> QED
      BY <2>2, <3>1, <3>2, <3>3 DEF Parted, Held
  <2> QED
    BY <1>1, <2>1, <2>2 DEF Receive
<1>2. ASSUME NEW kind \in Kind, WaitFor(kind) PROVE Parted' /\ Held' = Held /\ LooksInVain'
  <2> DEFINE i == Min(Found(kind))
  <2>1. CASE /\ Found(kind) # {} /\ taken' = Append(taken, backlog[i])
             /\ backlog' = RemoveAt(backlog, i) /\ looking' = looking
    <3>0. i \in 1..Len(backlog)
      BY <2>1, FirstFound
    <3> HIDE DEF i
    <3>1. /\ Numbered(taken') /\ Numbered(backlog')
          /\ ToSet(taken') = ToSet(taken) \cup {backlog[i]}
          /\ ToSet(backlog) = {backlog[i]} \cup ToSet(backlog')
          /\ Apart(ToSet(taken'), ToSet(backlog'))
      BY <2>1, <3>0, OneMoves DEF Parted
    <3>2. queue' = queue
      BY <1>2 DEF WaitFor
    <3>3. Apart(ToSet(taken'), ToSet(queue')) /\ Apart(ToSet(backlog'), ToSet(queue'))
      BY <3>1, <3>2 DEF Apart, Parted
    <3>4. LooksInVain'
      BY <2>1, <3>1 DEF LooksInVain
    <3> QED
      BY <3>1, <3>2, <3>3, <3>4 DEF Parted, Held
  <2>2. CASE Found(kind) = {} /\ looking' = kind /\ UNCHANGED <<backlog, taken>>
    <3>1. \A d \in ToSet(backlog) : d.kind # kind
      BY <2>2 DEF Found, ToSet
    <3> QED
      BY <1>2, <2>2, <3>1 DEF WaitFor, Parted, Held, LooksInVain
  <2> QED
    BY <1>2, <2>1, <2>2 DEF WaitFor
<1>3. CASE LookFurther
  <2>0. queue # <<>> /\ queue' = Tail(queue)
    BY <1>3 DEF LookFurther
  <2>1. CASE /\ taken' = Append(taken, Head(queue)) /\ looking' = None /\ backlog' = backlog
    <3>1. /\ Numbered(taken') /\ Numbered(queue')
          /\ ToSet(taken') = ToSet(taken) \cup {Head(queue)}
          /\ ToSet(queue) = {Head(queue)} \cup ToSet(queue')
          /\ Apart(ToSet(taken'), ToSet(queue'))
      BY <2>0, <2>1, HeadMoves DEF Parted
    <3>2. Apart(ToSet(taken'), ToSet(backlog')) /\ Apart(ToSet(backlog'), ToSet(queue'))
      BY <2>1, <3>1 DEF Apart, Parted, Same
    <3>3. LooksInVain'
      <4>1. \A d \in ToSet(backlog) : d \in arrived
        BY ElementsBelong
      <4>2. \A d \in ToSet(backlog) : d.kind \in Kind
        BY <4>1 DEF Datagram
      <4> QED
        BY <2>1, <4>2, NoneAssumption DEF LooksInVain
    <3> QED
      BY <2>1, <3>1, <3>2, <3>3 DEF Parted, Held
  <2>2. CASE /\ Head(queue).kind # looking
             /\ backlog' = Append(backlog, Head(queue)) /\ UNCHANGED <<taken, looking>>
    <3>1. /\ Numbered(backlog') /\ Numbered(queue')
          /\ ToSet(backlog') = ToSet(backlog) \cup {Head(queue)}
          /\ ToSet(queue) = {Head(queue)} \cup ToSet(queue')
          /\ Apart(ToSet(backlog'), ToSet(queue'))
      BY <2>0, <2>2, HeadMoves DEF Parted
    <3>2. Apart(ToSet(taken'), ToSet(backlog')) /\ Apart(ToSet(taken'), ToSet(queue'))
      BY <2>2, <3>1 DEF Apart, Parted
    <3>3. LooksInVain'
      BY <2>2, <3>1 DEF LooksInVain
    <3> QED
      BY <2>2, <3>1, <3>2, <3>3 DEF Parted, Held
  <2> QED
    BY <1>3, <2>1, <2>2 DEF LookFurther
<1> QED
  BY <1>1, <1>2, <1>3

(* The operations of the session leave the rest of the node as it is. *)
LEMMA TakingIsLocal ==
    ASSUME Receive \/ (\E kind \in Kind : WaitFor(kind)) \/ LookFurther
    PROVE  UNCHANGED <<seen, peers, ignored, arrived, early>>
BY DEF Receive, WaitFor, LookFurther

(* The invariant holds: every step of node, teammates and network keeps it. *)
THEOREM Invariant == Spec => []UdpInv
<1>1. Init => UdpInv
  <2> SUFFICES ASSUME Init PROVE UdpInv
    OBVIOUS
  <2>1. /\ taken = <<>> /\ backlog = <<>> /\ queue = <<>> /\ arrived = {}
        /\ seen = [p \in Peer |-> {}] /\ early = [p \in Peer |-> {}]
    BY DEF Init, LocalInit
  <2>2. Len(<<>>) = 0 /\ ToSet(<<>>) = {}
    BY DEF ToSet
  <2>3. Numbered(<<>>)
    BY <2>2 DEF Numbered
  <2> QED
    BY <2>1, <2>2, <2>3
       DEF UdpInv, Parted, Recorded, Kept, LooksInVain, EarlySeen, AnswersGoToPeer,
           Apart
<1>2. TypeOK /\ NumbersAreUnique /\ UdpInv /\ [Next]_vars => UdpInv'
  <2> SUFFICES ASSUME TypeOK, NumbersAreUnique, UdpInv, [Next]_vars PROVE UdpInv'
    OBVIOUS
  <2>1. ASSUME UNCHANGED local PROVE UdpInv'
    BY <2>1 DEF local, UdpInv, Parted, Recorded, Kept, Held, LooksInVain, EarlySeen,
                  AnswersGoToPeer, PeersSet
  <2>2. ASSUME NEW d \in wire, OnDatagram(d) PROVE UdpInv'
    <3> DEFINE fresh == d.seq \notin seen[d.from]
    <3>0. /\ d.from \in Peer /\ arrived' = arrived \cup {d}
          /\ UNCHANGED <<ignored, backlog, looking, early, taken>>
          /\ seen \in [Peer -> SUBSET (1..MaxSequence)]
          /\ peers \in [Peer -> Address \cup {None}]
          /\ arrived \subseteq wire /\ d.src \in Address
      BY <2>2 DEF OnDatagram, TypeOK, Datagram
    <3>1. /\ seen' = [seen EXCEPT ![d.from] = @ \cup {d.seq}]
          /\ queue' = IF fresh /\ d.kind \notin ignored THEN Append(queue, d) ELSE queue
          /\ peers' = IF fresh THEN Learned(d) ELSE peers
      BY <2>2 DEF OnDatagram, Fresh
    <3>2. queue \in Seq(arrived') /\ d \in arrived'
      BY <3>0, SeqMonotonic DEF TypeOK
    <3>3. ASSUME fresh, d.kind \notin ignored
          PROVE  /\ Numbered(queue') /\ ToSet(queue') = ToSet(queue) \cup {d}
                 /\ Apart(Held, {d})
      <4>1. Held \subseteq arrived
        BY ElementsBelong DEF Held, TypeOK
      <4>2. Apart(Held, {d})
        BY <4>1, <3>3 DEF Apart, Same, UdpInv, Recorded
      <4>3. Apart(ToSet(queue), {d})
        BY <4>2 DEF Held, Apart
      <4>4. queue' = Append(queue, d)
        BY <3>1, <3>3
      <4>5. Numbered(Append(queue, d)) /\ ToSet(Append(queue, d)) = ToSet(queue) \cup {d}
        BY <3>2, <4>3, NumberedAppend, AppendElements DEF UdpInv, Parted
      <4> QED
        BY <4>2, <4>4, <4>5
    <3>4. Parted'
      <4>1. CASE fresh /\ d.kind \notin ignored
        BY <4>1, <3>0, <3>3 DEF UdpInv, Parted, Apart, Held
      <4>2. CASE ~(fresh /\ d.kind \notin ignored)
        BY <4>2, <3>0, <3>1 DEF UdpInv, Parted
      <4> QED
        BY <4>1, <4>2
    <3>5. Recorded'
      <4>1. \A e \in arrived' : e.seq \in seen'[e.from]
        <5> SUFFICES ASSUME NEW e \in arrived' PROVE e.seq \in seen'[e.from]
          OBVIOUS
        <5>1. e.from \in Peer
          BY <3>0 DEF TypeOK, Datagram
        <5>2. e = d \/ e.seq \in seen[e.from]
          BY <3>0 DEF UdpInv, Recorded
        <5> QED
          BY <5>1, <5>2, <3>0, <3>1
      <4>2. \A p \in Peer : \A n \in seen'[p] : \E e \in arrived' : e.from = p /\ e.seq = n
        <5> SUFFICES ASSUME NEW p \in Peer, NEW n \in seen'[p]
                     PROVE  \E e \in arrived' : e.from = p /\ e.seq = n
          OBVIOUS
        <5>1. CASE n \in seen[p]
          BY <5>1, <3>0 DEF UdpInv, Recorded
        <5>2. CASE n \notin seen[p]
          <6>1. p = d.from /\ n = d.seq
            BY <5>2, <3>0, <3>1
          <6> QED
            BY <6>1, <3>2
        <5> QED
          BY <5>1, <5>2
      <4> QED
        BY <4>1, <4>2 DEF Recorded
    <3>6. Kept'
      <4>1. Held \subseteq Held'
        <5>1. CASE fresh /\ d.kind \notin ignored
          BY <5>1, <3>0, <3>3 DEF Held
        <5>2. CASE ~(fresh /\ d.kind \notin ignored)
          BY <5>2, <3>0, <3>1 DEF Held
        <5> QED
          BY <5>1, <5>2
      <4>2. ASSUME NEW c \in arrived
            PROVE  \/ c \in Held' \/ c.kind \in ignored'
                   \/ \E e \in arrived' : e.life # c.life /\ e.from = c.from /\ e.seq = c.seq
        BY <4>1, <3>0 DEF UdpInv, Kept
      <4>3. ASSUME d \notin arrived
            PROVE  \/ d \in Held' \/ d.kind \in ignored'
                   \/ \E e \in arrived' : e.life # d.life /\ e.from = d.from /\ e.seq = d.seq
        <5>1. CASE fresh
          BY <5>1, <3>0, <3>3 DEF Held
        <5>2. CASE ~fresh
          <6>1. PICK e \in arrived : e.from = d.from /\ e.seq = d.seq
            BY <5>2, <3>0 DEF UdpInv, Recorded
          <6>2. e.life # d.life
            BY <6>1, <4>3, <3>0 DEF NumbersAreUnique
          <6> QED
            BY <6>1, <6>2, <3>0
        <5> QED
          BY <5>1, <5>2
      <4> QED
        BY <4>2, <4>3, <3>0 DEF Kept
    <3>7. LooksInVain'
      BY <3>0 DEF UdpInv, LooksInVain
    <3>8. EarlySeen'
      BY <3>0, <3>1 DEF UdpInv, EarlySeen
    <3>9. AnswersGoToPeer'
      <4> DEFINE heard(p) == {e \in arrived : e.from = p /\ e.seq \notin early[p]}
      <4> SUFFICES ASSUME NEW p \in Peer, PeersSet',
                          NEW c \in arrived', c.from = p, c.seq \notin early[p]
                   PROVE  \E e \in arrived' : e.from = p /\ e.seq \notin early[p]
                                             /\ e.src = peers'[p]
        BY <3>0 DEF AnswersGoToPeer
      <4>1. PeersSet
        BY <3>0, <3>1 DEF PeersSet, Learned
      <4>2. CASE fresh /\ p = d.from
        <5>1. peers'[p] = d.src
          BY <4>1, <4>2, <3>0, <3>1 DEF PeersSet, Learned
        <5>2. d.seq \notin early[p]
          BY <4>2 DEF UdpInv, EarlySeen
        <5> QED
          BY <4>2, <5>1, <5>2, <3>2
      <4>3. CASE ~(fresh /\ p = d.from)
        <5>1. peers'[p] = peers[p]
          BY <4>3, <3>0, <3>1 DEF Learned
        <5>2. heard(p) # {}
          <6>1. CASE c \in arrived
            BY <6>1
          <6>2. CASE c = d
            <7>1. PICK e \in arrived : e.from = p /\ e.seq = d.seq
              BY <4>3, <6>2, <3>0 DEF UdpInv, Recorded
            <7> QED
              BY <6>2, <7>1
          <6> QED
            BY <6>1, <6>2, <3>0
        <5>3. \E e \in heard(p) : e.src = peers[p]
          BY <4>1, <5>2 DEF UdpInv, AnswersGoToPeer
        <5> QED
          BY <5>1, <5>3, <3>0
      <4> QED
        BY <4>2, <4>3
    <3> QED
      BY <3>4, <3>5, <3>6, <3>7, <3>8, <3>9 DEF UdpInv
  <2>3. ASSUME NEW kind \in Ignorable, IgnoreMessageId(kind) PROVE UdpInv'
    BY <2>3 DEF IgnoreMessageId, UdpInv, Parted, Recorded, Kept, Held, LooksInVain,
                EarlySeen, AnswersGoToPeer, PeersSet
  <2>4. CASE Receive \/ (\E kind \in Kind : WaitFor(kind)) \/ LookFurther
    <3>1. Parted' /\ Held' = Held /\ LooksInVain'
      BY <2>4, TakingKeeps DEF UdpInv
    <3>2. UNCHANGED <<seen, peers, ignored, arrived, early>>
      BY <2>4, TakingIsLocal
    <3> QED
      BY <3>1, <3>2 DEF UdpInv, Recorded, Kept, EarlySeen, AnswersGoToPeer, PeersSet
  <2>5. CASE StopLooking
    <3>1. LooksInVain'
      <4>1. \A d \in ToSet(backlog) : d \in arrived
        BY ElementsBelong DEF TypeOK
      <4>2. \A d \in ToSet(backlog) : d.kind \in Kind
        BY <4>1 DEF TypeOK, Datagram
      <4> QED
        BY <2>5, <4>2, NoneAssumption DEF StopLooking, LooksInVain
    <3> QED
      BY <2>5, <3>1 DEF StopLooking, UdpInv, Parted, Recorded, Kept, Held,
                           EarlySeen, AnswersGoToPeer, PeersSet
  <2>6. CASE Restart
    <3>1. /\ taken' = <<>> /\ backlog' = <<>> /\ queue' = <<>> /\ arrived' = {}
          /\ seen' = [p \in Peer |-> {}] /\ early' = [p \in Peer |-> {}]
      BY <2>6 DEF Restart
    <3>2. Len(<<>>) = 0 /\ ToSet(<<>>) = {}
      BY DEF ToSet
    <3>3. Numbered(<<>>)
      BY <3>2 DEF Numbered
    <3> QED
      BY <3>1, <3>2, <3>3
         DEF UdpInv, Parted, Recorded, Kept, LooksInVain, EarlySeen, AnswersGoToPeer,
           Apart
  <2>7. ASSUME NEW p \in Peer,
               \/ \E kind \in Kind : Send(p, kind)
               \/ PeerRestarts(p)
               \/ \E a \in Address : Move(p, a)
        PROVE  UdpInv'
    BY <2>7, <2>1 DEF Send, PeerRestarts, Move
  <2>8. ASSUME NEW m \in [Peer -> Address], SetPeers(m) PROVE UdpInv'
    <3>1. /\ early' = seen
          /\ UNCHANGED <<seen, ignored, queue, backlog, looking, arrived, taken>>
      BY <2>8 DEF SetPeers
    <3>2. AnswersGoToPeer'
      BY <3>1 DEF UdpInv, Recorded, AnswersGoToPeer
    <3> QED
      BY <3>1, <3>2 DEF UdpInv, Parted, Recorded, Kept, Held, LooksInVain, EarlySeen
  <2>9. CASE UNCHANGED vars
    BY <2>9, <2>1 DEF vars
  <2> QED
    BY <2>2, <2>3, <2>4, <2>5, <2>6, <2>7, <2>8, <2>9 DEF Next
<1> QED
  BY <1>1, <1>2, TypeCorrect, Numbers, PTL DEF Spec

(* No session gets a message twice, whatever is repeated on the way.       *)
THEOREM NothingTwiceHolds == Spec => []NothingTwice
<1>1. TypeOK /\ UdpInv => NothingTwice
  <2> SUFFICES ASSUME TypeOK, UdpInv PROVE NothingTwice
    OBVIOUS
  <2> DEFINE rest == backlog \o queue
             all == taken \o rest
  <2>1. rest \in Seq(arrived) /\ ToSet(rest) = ToSet(backlog) \cup ToSet(queue)
    BY ConcatProperties, ConcatElements DEF TypeOK
  <2>2. Numbered(rest)
    BY NumberedConcat DEF TypeOK, UdpInv, Parted
  <2> HIDE DEF rest
  <2>3. Apart(ToSet(taken), ToSet(rest))
    BY <2>1 DEF Apart, UdpInv, Parted
  <2>4. Numbered(all)
    BY <2>1, <2>2, <2>3, NumberedConcat DEF TypeOK, UdpInv, Parted
  <2>5. all \in Seq(arrived)
    BY <2>1, ConcatProperties DEF TypeOK
  <2> HIDE DEF all
  <2>6. DOMAIN all = 1..Len(all)
    BY <2>5, LenProperties
  <2> QED
    BY <2>4, <2>6 DEF NothingTwice, Inbox, Numbered, Same, all, rest
<1> QED
  BY <1>1, Invariant, TypeCorrect, PTL

(* A message that arrived is lost only when its id is ignored or another   *)
(* process of its sender used its number.                                  *)
THEOREM NothingLostHolds == Spec => []NothingLost
<1>1. TypeOK /\ UdpInv => NothingLost
  <2> SUFFICES ASSUME TypeOK, UdpInv PROVE NothingLost
    OBVIOUS
  <2> DEFINE rest == backlog \o queue
  <2>1. rest \in Seq(arrived) /\ ToSet(rest) = ToSet(backlog) \cup ToSet(queue)
    BY ConcatProperties, ConcatElements DEF TypeOK
  <2> HIDE DEF rest
  <2>2. ToSet(taken \o rest) = ToSet(taken) \cup ToSet(rest)
    BY <2>1, ConcatElements DEF TypeOK
  <2> QED
    BY <2>1, <2>2 DEF UdpInv, Kept, Held, NothingLost, Inbox, rest
<1> QED
  BY <1>1, Invariant, TypeCorrect, PTL

(* As soon as a teammate was heard after the endpoints were set, answers   *)
(* go to an endpoint that it sent from since then.                         *)
THEOREM AnswersGoToPeerHolds == Spec => []AnswersGoToPeer
<1>1. UdpInv => AnswersGoToPeer
  BY DEF UdpInv
<1> QED
  BY <1>1, Invariant, PTL

--------------------------------------------------------------------------------
(* Backlog and queue implement one mailbox in the order of arrival: what a *)
(* session takes, and when, is what it would take from the mailbox.        *)
THEOREM MailboxImplemented == Spec => ImplementsMailbox
<1>1. Init => Box!Init
  <2>1. <<>> \o <<>> = <<>>
    BY EmptySeq, ConcatEmptySeq
  <2> QED
    BY <2>1 DEF Init, LocalInit, Box!Init, Inbox
<1>2. TypeOK /\ UdpInv /\ [Next]_vars => [Box!Next]_<<Inbox, taken>>
  <2> SUFFICES ASSUME TypeOK, UdpInv, [Next]_vars
               PROVE  Box!Next \/ UNCHANGED <<Inbox, taken>>
    OBVIOUS
  <2>0. queue \in Seq(arrived) /\ backlog \in Seq(arrived) /\ taken \in Seq(arrived)
    BY DEF TypeOK
  <2>12. Inbox \in Seq(arrived)
    BY <2>0, ConcatProperties DEF Inbox
  <2>1. ASSUME UNCHANGED <<queue, backlog, taken>> PROVE UNCHANGED <<Inbox, taken>>
    BY <2>1 DEF Inbox
  <2>2. ASSUME NEW d \in wire, OnDatagram(d) PROVE Box!Next \/ UNCHANGED <<Inbox, taken>>
    <3>1. backlog' = backlog /\ taken' = taken /\ (queue' = Append(queue, d) \/ queue' = queue)
      BY <2>2 DEF OnDatagram, Fresh
    <3>2. CASE queue' = Append(queue, d)
      <4> DEFINE S == arrived \cup {d}
      <4>1. backlog \in Seq(S) /\ queue \in Seq(S) /\ d \in S
        BY <2>0, SeqMonotonic
      <4>2. Inbox' = Append(Inbox, d) /\ Inbox \in Seq(S)
        BY <3>1, <3>2, <4>1, AppendToConcat, ConcatProperties DEF Inbox
      <4>3. Inbox' # <<>> /\ Last(Inbox') = d
        BY <4>1, <4>2, AppendProperties DEF Last
      <4> QED
        BY <3>1, <4>2, <4>3 DEF Box!Next, Box!Arrive, Box!Last, Last
    <3> QED
      BY <2>1, <3>1, <3>2
  <2>3. ASSUME backlog # <<>>, taken' = Append(taken, Head(backlog)),
               backlog' = Tail(backlog), queue' = queue
        PROVE  Box!Next
    <3>1. 1 \in 1..Len(backlog) /\ backlog[1] = Head(backlog) /\ Tail(backlog) = RemoveAt(backlog, 1)
      BY <2>0, <2>3, EmptySeq, HeadTailProperties, FirstRemoved
    <3>2. /\ 1 \in DOMAIN Inbox /\ Inbox[1] = backlog[1]
          /\ RemoveAt(backlog, 1) \o queue = RemoveAt(Inbox, 1)
      BY <2>0, <3>1, RemoveFromFirst DEF Inbox
    <3>3. Inbox' = RemoveAt(Inbox, 1) /\ taken' = Append(taken, Inbox[1])
      BY <2>3, <3>1, <3>2 DEF Inbox
    <3>4. Inbox # <<>>
      <4>1. DOMAIN Inbox = 1..Len(Inbox)
        BY <2>12, LenProperties
      <4> QED
        BY <3>2, <4>1, EmptySeq
    <3> QED
      BY <3>3, <3>4 DEF Box!Next, Box!Receive, Box!TakeAt, Box!RemoveAt, RemoveAt
  <2>4. ASSUME backlog = <<>>, queue # <<>>, taken' = Append(taken, Head(queue)),
               queue' = Tail(queue), backlog' = backlog
        PROVE  Box!Next
    <3>1. Inbox = queue /\ Inbox' = Tail(queue)
      BY <2>0, <2>4, ConcatEmptySeq, HeadTailProperties DEF Inbox
    <3>2. Tail(queue) = RemoveAt(queue, 1) /\ Head(queue) = queue[1]
      BY <2>0, <2>4, FirstRemoved, HeadTailProperties
    <3> QED
      BY <2>4, <3>1, <3>2 DEF Box!Next, Box!Receive, Box!TakeAt, Box!RemoveAt, RemoveAt
  <2>5. CASE Receive
    BY <2>3, <2>4, <2>5 DEF Receive
  <2>6. ASSUME NEW kind \in Kind, WaitFor(kind) PROVE Box!Next \/ UNCHANGED <<Inbox, taken>>
    <3> DEFINE i == Min(Found(kind))
    <3>0. queue' = queue
      BY <2>6 DEF WaitFor
    <3>1. CASE /\ Found(kind) # {} /\ taken' = Append(taken, backlog[i])
               /\ backlog' = RemoveAt(backlog, i)
      <4>1. /\ i \in 1..Len(backlog) /\ backlog[i].kind = kind
            /\ \A j \in 1..(i - 1) : backlog[j].kind # kind
        BY <2>0, <3>1, FirstFound
      <4> HIDE DEF i
      <4>2. \A k \in 1..Len(backlog) : /\ k \in DOMAIN Inbox /\ Inbox[k] = backlog[k]
                                       /\ RemoveAt(backlog, k) \o queue = RemoveAt(Inbox, k)
        BY <2>0, RemoveFromFirst DEF Inbox
      <4>3. /\ i \in DOMAIN Inbox /\ Inbox[i].kind = kind
            /\ \A j \in 1..(i - 1) : Inbox[j].kind # kind
        <5>1. \A j \in 1..(i - 1) : j \in 1..Len(backlog)
          BY <2>0, <4>1, LenProperties
        <5> QED
          BY <4>1, <4>2, <5>1
      <4>4. Inbox' = RemoveAt(Inbox, i) /\ taken' = Append(taken, Inbox[i])
        BY <3>0, <3>1, <4>1, <4>2 DEF Inbox
      <4> QED
        BY <4>3, <4>4 DEF Box!Next, Box!WaitFor, Box!TakeAt, Box!RemoveAt, RemoveAt
    <3>2. CASE UNCHANGED <<backlog, taken>>
      BY <2>1, <3>0, <3>2
    <3> QED
      BY <2>6, <3>1, <3>2 DEF WaitFor
  <2>7. CASE LookFurther
    <3>0. queue # <<>> /\ queue' = Tail(queue) /\ looking \in Kind
      BY <2>7 DEF LookFurther, TypeOK
    <3>1. CASE /\ Head(queue).kind = looking /\ taken' = Append(taken, Head(queue))
               /\ backlog' = backlog
      <4> DEFINE i == Len(backlog) + 1
      <4>1. /\ i \in DOMAIN Inbox /\ Inbox[i] = Head(queue)
            /\ backlog \o Tail(queue) = RemoveAt(Inbox, i)
        BY <2>0, <3>0, RemoveFromSecond DEF Inbox
      <4>2. \A j \in 1..Len(backlog) : Inbox[j] = backlog[j]
        BY <2>0, RemoveFromFirst DEF Inbox
      <4>3. \A j \in 1..Len(backlog) : backlog[j].kind # looking
        BY <2>0, Elements DEF UdpInv, LooksInVain
      <4>4. 1..(i - 1) = 1..Len(backlog)
        BY <2>0, LenProperties
      <4> HIDE DEF i
      <4>5. Inbox' = RemoveAt(Inbox, i) /\ taken' = Append(taken, Inbox[i])
        BY <3>0, <3>1, <4>1 DEF Inbox
      <4>6. Box!WaitFor(looking)
        BY <3>1, <4>1, <4>2, <4>3, <4>4, <4>5 DEF Box!WaitFor, Box!TakeAt, Box!RemoveAt, RemoveAt
      <4> QED
        BY <3>0, <4>6 DEF Box!Next
    <3>2. CASE backlog' = Append(backlog, Head(queue)) /\ taken' = taken
      BY <2>0, <3>0, <3>2, MoveToConcat DEF Inbox
    <3> QED
      BY <2>7, <3>1, <3>2 DEF LookFurther
  <2>8. CASE Restart
    <3>1. <<>> \o <<>> = <<>>
      BY EmptySeq, ConcatEmptySeq
    <3> QED
      BY <2>8, <3>1 DEF Restart, Inbox, Box!Next, Box!Clear
  <2>9. ASSUME NEW p \in Peer,
               \/ \E kind \in Kind : Send(p, kind)
               \/ PeerRestarts(p)
               \/ \E a \in Address : Move(p, a)
        PROVE  UNCHANGED <<Inbox, taken>>
    BY <2>9, <2>1 DEF Send, PeerRestarts, Move, local
  <2>10. ASSUME NEW kind \in Ignorable, IgnoreMessageId(kind)
         PROVE  UNCHANGED <<Inbox, taken>>
    BY <2>10, <2>1 DEF IgnoreMessageId
  <2>11. ASSUME NEW m \in [Peer -> Address], SetPeers(m)
         PROVE  UNCHANGED <<Inbox, taken>>
    BY <2>11, <2>1 DEF SetPeers
  <2>13. CASE StopLooking \/ UNCHANGED vars
    BY <2>13, <2>1 DEF StopLooking, vars, local
  <2> QED
    BY <2>2, <2>5, <2>6, <2>7, <2>8, <2>9, <2>10, <2>11, <2>13 DEF Next
<1> QED
  BY <1>1, <1>2, Invariant, TypeCorrect, PTL DEF Spec, ImplementsMailbox, Box!Spec
================================================================================
