--------------------------- MODULE SequenceLemmas ---------------------------
(***************************************************************************)
(* What the proofs need of numbers and sequences: least and greatest       *)
(* elements, what a sequence holds, and sequences that hold nothing twice. *)
(***************************************************************************)
EXTENDS Integers, Functions, SequenceTheorems, WellFoundedInduction, TLAPS

-----------------------------------------------------------------------------
(* Numbers *)

LEMMA Least ==
  ASSUME NEW T, T \subseteq Nat, T # {}
  PROVE  \E n \in T : \A m \in T : n <= m
<1>1. \E n \in T : \A m \in T : ~(<<m, n>> \in OpToRel(<, Nat))
  BY NatLessThanWellFounded, WFMin
<1>2. PICK n \in T : \A m \in T : ~(<<m, n>> \in OpToRel(<, Nat))
  BY <1>1
<1>3. ASSUME NEW m \in T PROVE n <= m
  <2>1. m \in Nat /\ n \in Nat /\ ~(m < n)
    BY <1>2 DEF OpToRel
  <2> QED
    BY <2>1
<1> QED
  BY <1>3

LEMMA Greatest ==
  ASSUME NEW n \in Nat, NEW T, T \subseteq 0..n, T # {}
  PROVE  \E k \in T : \A m \in T : m <= k
<1> DEFINE U == {k \in 0..n : n - k \in T}
<1>1. ASSUME NEW m \in T PROVE n - m \in U
  <2>1. m \in 0..n /\ n - m \in 0..n /\ n - (n - m) = m
    OBVIOUS
  <2> QED
    BY <2>1
<1>2. U \subseteq 0..n /\ \A k \in U : n - k \in T
  OBVIOUS
<1> HIDE DEF U
<1>3. U \subseteq Nat /\ U # {}
  <2>1. PICK m \in T : TRUE
    OBVIOUS
  <2>2. n - m \in U
    BY <1>1, <2>1
  <2>3. 0..n \subseteq Nat
    OBVIOUS
  <2> QED
    BY <1>2, <2>2, <2>3
<1>4. PICK k \in U : \A m \in U : k <= m
  BY <1>3, Least
<1>5. ASSUME NEW m \in T PROVE m <= n - k
  <2>1. m \in 0..n /\ k \in 0..n /\ k <= n - m
    BY <1>1, <1>2, <1>4
  <2> QED
    BY <2>1
<1> QED
  BY <1>2, <1>5

-----------------------------------------------------------------------------
(* Ranges *)

LEMMA InRange ==
  ASSUME NEW f, NEW S, DOMAIN f = S
  PROVE  \A v : v \in Range(f) <=> \E x \in S : f[x] = v
  BY DEF Range

LEMMA Prepended ==
  ASSUME NEW S, NEW e \in S, NEW s \in Seq(S)
  PROVE  /\ <<e>> \o s \in Seq(S) /\ <<e>> \o s # <<>>
         /\ Len(<<e>> \o s) = Len(s) + 1 /\ (<<e>> \o s)[1] = e
         /\ \A i \in 1..Len(s) : (<<e>> \o s)[i + 1] = s[i]
<1>1. Len(s) \in Nat /\ <<e>> \in Seq(S) /\ Len(<<e>>) = 1 /\ <<e>>[1] = e
  OBVIOUS
<1>2. /\ <<e>> \o s \in Seq(S) /\ Len(<<e>> \o s) = 1 + Len(s)
      /\ \A i \in 1..(1 + Len(s)) : (<<e>> \o s)[i] = IF i <= 1 THEN <<e>>[i] ELSE s[i - 1]
  BY <1>1, ConcatProperties
<1> DEFINE new == <<e>> \o s
<1>3. /\ new \in Seq(S) /\ Len(new) = 1 + Len(s)
      /\ \A i \in 1..(1 + Len(s)) : new[i] = IF i <= 1 THEN <<e>>[i] ELSE s[i - 1]
  BY <1>2
<1> HIDE DEF new
<1>4. new # <<>> /\ Len(new) = Len(s) + 1
  BY <1>1, <1>3
<1>5. new[1] = e
  <2>1. 1 \in 1..(1 + Len(s))
    BY <1>1
  <2> QED
    BY <1>1, <1>3, <2>1
<1>6. ASSUME NEW i \in 1..Len(s) PROVE new[i + 1] = s[i]
  <2>1. i + 1 \in 1..(1 + Len(s)) /\ ~(i + 1 <= 1) /\ (i + 1) - 1 = i
    BY <1>1
  <2> QED
    BY <1>3, <2>1
<1> QED
  BY <1>3, <1>4, <1>5, <1>6 DEF new

LEMMA RangeOfTail ==
  ASSUME NEW S, NEW s \in Seq(S), s # <<>>
  PROVE  Head(s) \in Range(s) /\ Range(s) = {Head(s)} \cup Range(Tail(s))
<1>1. Len(s) \in Nat /\ Len(s) >= 1 /\ DOMAIN s = 1..Len(s) /\ Head(s) = s[1]
  OBVIOUS
<1>2. /\ DOMAIN Tail(s) = 1..(Len(s) - 1)
      /\ \A i \in 1..(Len(s) - 1) : Tail(s)[i] = s[i + 1]
  BY <1>1
<1>3. \A v : v \in Range(s) <=> \E i \in 1..Len(s) : s[i] = v
  BY <1>1, InRange
<1>4. \A v : v \in Range(Tail(s)) <=> \E i \in 1..(Len(s) - 1) : s[i + 1] = v
  <2> SUFFICES ASSUME NEW v
               PROVE  v \in Range(Tail(s)) <=> \E i \in 1..(Len(s) - 1) : s[i + 1] = v
    OBVIOUS
  <2>1. v \in Range(Tail(s)) <=> \E i \in DOMAIN Tail(s) : Tail(s)[i] = v
    BY InRange
  <2>2. (\E i \in DOMAIN Tail(s) : Tail(s)[i] = v)
           <=> \E i \in 1..(Len(s) - 1) : Tail(s)[i] = v
    BY <1>2
  <2>3. (\E i \in 1..(Len(s) - 1) : Tail(s)[i] = v)
           <=> \E i \in 1..(Len(s) - 1) : s[i + 1] = v
    BY <1>2
  <2> QED
    BY <2>1, <2>2, <2>3
<1>5. Head(s) \in Range(s)
  BY <1>1, <1>3
<1>6. ASSUME NEW v \in Range(s), v # Head(s) PROVE v \in Range(Tail(s))
  <2>1. PICK i \in 1..Len(s) : s[i] = v
    BY <1>3
  <2>2. i - 1 \in 1..(Len(s) - 1) /\ (i - 1) + 1 = i
    BY <1>1, <1>6, <2>1
  <2> QED
    BY <1>4, <2>1, <2>2
<1>7. ASSUME NEW v \in Range(Tail(s)) PROVE v \in Range(s)
  <2>1. PICK i \in 1..(Len(s) - 1) : s[i + 1] = v
    BY <1>4
  <2>2. i + 1 \in 1..Len(s)
    BY <1>1
  <2> QED
    BY <1>3, <2>1, <2>2
<1> QED
  BY <1>5, <1>6, <1>7

-----------------------------------------------------------------------------
(* Sequences that hold nothing twice *)

Occurs(s, v) == \E i \in 1..Len(s) : s[i] = v

Distinct(s) == \A i, j \in 1..Len(s) : i # j => s[i] # s[j]

LEMMA AppendOccurs ==
  ASSUME NEW S, NEW s \in Seq(S), NEW e \in S
  PROVE  /\ Append(s, e) \in Seq(S)
         /\ \A v : Occurs(Append(s, e), v) <=> Occurs(s, v) \/ v = e
         /\ Distinct(s) /\ ~Occurs(s, e) => Distinct(Append(s, e))
<1> DEFINE new == Append(s, e)
<1>1. /\ Len(s) \in Nat /\ new \in Seq(S) /\ Len(new) = Len(s) + 1
      /\ \A i \in 1..Len(s) : new[i] = s[i]
      /\ new[Len(s) + 1] = e
  BY AppendProperties
<1> HIDE DEF new
<1>2. ASSUME NEW v, Occurs(new, v) PROVE Occurs(s, v) \/ v = e
  <2>1. PICK i \in 1..Len(new) : new[i] = v
    BY <1>2 DEF Occurs
  <2>2. i \in 1..Len(s) \/ i = Len(s) + 1
    BY <1>1
  <2> QED
    BY <1>1, <2>1, <2>2 DEF Occurs
<1>3. ASSUME NEW v, Occurs(s, v) \/ v = e PROVE Occurs(new, v)
  <2>1. \A i \in 1..Len(s) : i \in 1..Len(new)
    BY <1>1
  <2>2. Len(s) + 1 \in 1..Len(new)
    BY <1>1
  <2> QED
    BY <1>1, <1>3, <2>1, <2>2 DEF Occurs
<1>4. ASSUME Distinct(s), ~Occurs(s, e) PROVE Distinct(new)
  <2> SUFFICES ASSUME NEW i \in 1..Len(new), NEW j \in 1..Len(new), i # j
               PROVE  new[i] # new[j]
    BY DEF Distinct
  <2>1. i \in 1..Len(s) \/ i = Len(s) + 1
    BY <1>1
  <2>2. j \in 1..Len(s) \/ j = Len(s) + 1
    BY <1>1
  <2> QED
    BY <1>1, <1>4, <2>1, <2>2 DEF Occurs, Distinct
<1> QED
  BY <1>1, <1>2, <1>3, <1>4 DEF new

LEMMA TailOccurs ==
  ASSUME NEW S, NEW s \in Seq(S), s # <<>>
  PROVE  /\ Head(s) \in S /\ Tail(s) \in Seq(S) /\ Occurs(s, Head(s))
         /\ \A v : Occurs(s, v) <=> v = Head(s) \/ Occurs(Tail(s), v)
         /\ Distinct(s) => Distinct(Tail(s)) /\ ~Occurs(Tail(s), Head(s))
<1> DEFINE new == Tail(s)
<1>1. /\ Len(s) \in Nat /\ Len(s) >= 1 /\ Head(s) = s[1] /\ Head(s) \in S
      /\ new \in Seq(S) /\ Len(new) = Len(s) - 1
      /\ \A i \in 1..Len(new) : new[i] = s[i + 1]
  BY HeadTailProperties, LenProperties
<1> HIDE DEF new
<1>2. \A i \in 1..Len(new) : i + 1 \in 1..Len(s) /\ i + 1 # 1
  BY <1>1
<1>3. 1 \in 1..Len(s)
  BY <1>1
<1>4. ASSUME NEW v, Occurs(s, v) PROVE v = Head(s) \/ Occurs(new, v)
  <2>1. PICK i \in 1..Len(s) : s[i] = v
    BY <1>4 DEF Occurs
  <2>2. i = 1 \/ (i - 1 \in 1..Len(new) /\ (i - 1) + 1 = i)
    BY <1>1
  <2> QED
    BY <1>1, <2>1, <2>2 DEF Occurs
<1>5. ASSUME NEW v, v = Head(s) \/ Occurs(new, v) PROVE Occurs(s, v)
  BY <1>1, <1>2, <1>3, <1>5 DEF Occurs
<1>6. ASSUME Distinct(s) PROVE Distinct(new) /\ ~Occurs(new, Head(s))
  <2>1. ~Occurs(new, Head(s))
    BY <1>1, <1>2, <1>3, <1>6 DEF Occurs, Distinct
  <2>2. \A i, j \in 1..Len(new) : i # j => i + 1 # j + 1
    BY <1>1
  <2>3. Distinct(new)
    BY <1>1, <1>2, <1>6, <2>2 DEF Distinct
  <2> QED
    BY <2>1, <2>3
<1> QED
  BY <1>1, <1>4, <1>5, <1>6 DEF new

LEMMA ConcatOccurs ==
  ASSUME NEW S, NEW s \in Seq(S), NEW r \in Seq(S)
  PROVE  /\ s \o r \in Seq(S)
         /\ \A v : Occurs(s \o r, v) <=> Occurs(s, v) \/ Occurs(r, v)
<1> DEFINE n   == Len(s)
           k   == Len(r)
           new == s \o r
<1>1. n \in Nat /\ k \in Nat
  BY LenProperties
<1>2. /\ new \in Seq(S) /\ Len(new) = n + k
      /\ \A i \in 1..(n + k) : new[i] = IF i <= n THEN s[i] ELSE r[i - n]
  BY ConcatProperties
<1>3. Len(s) = n /\ Len(r) = k
  OBVIOUS
<1> HIDE DEF n, k, new
<1>4. ASSUME NEW v, Occurs(new, v) PROVE Occurs(s, v) \/ Occurs(r, v)
  <2>1. PICK i \in 1..(n + k) : new[i] = v
    BY <1>2, <1>4 DEF Occurs
  <2>2. CASE i <= n
    <3>1. i \in 1..n /\ s[i] = v
      BY <1>1, <1>2, <2>1, <2>2
    <3> QED
      BY <1>3, <3>1 DEF Occurs
  <2>3. CASE ~(i <= n)
    <3>1. i - n \in 1..k /\ r[i - n] = v
      BY <1>1, <1>2, <2>1, <2>3
    <3> QED
      BY <1>3, <3>1 DEF Occurs
  <2> QED
    BY <2>2, <2>3
<1>5. ASSUME NEW v, NEW i \in 1..n, s[i] = v PROVE Occurs(new, v)
  <2>1. i \in 1..(n + k) /\ i <= n
    BY <1>1
  <2>2. new[i] = v
    BY <1>2, <1>5, <2>1
  <2> QED
    BY <1>2, <2>1, <2>2 DEF Occurs
<1>6. ASSUME NEW v, NEW i \in 1..k, r[i] = v PROVE Occurs(new, v)
  <2>1. n + i \in 1..(n + k) /\ ~(n + i <= n) /\ (n + i) - n = i
    BY <1>1
  <2>2. new[n + i] = v
    BY <1>2, <1>6, <2>1
  <2> QED
    BY <1>2, <2>1, <2>2 DEF Occurs
<1>7. ASSUME NEW v, Occurs(s, v) \/ Occurs(r, v) PROVE Occurs(new, v)
  BY <1>3, <1>5, <1>6, <1>7 DEF Occurs
<1> QED
  BY <1>2, <1>4, <1>7 DEF new

LEMMA FirstElements ==
  ASSUME NEW S, NEW f, NEW k \in Nat, \A j \in 1..k : f[j] \in S
  PROVE  /\ SubSeq(f, 1, k) \in Seq(S) /\ Len(SubSeq(f, 1, k)) = k
         /\ \A j \in 1..k : SubSeq(f, 1, k)[j] = f[j]
<1> DEFINE sub == SubSeq(f, 1, k)
<1>1. sub \in Seq(S) /\ Len(sub) = IF 1 <= k THEN k - 1 + 1 ELSE 0
  BY SubSeqProperties
<1>2. \A j \in 1..(k - 1 + 1) : sub[j] = f[1 + j - 1]
  BY SubSeqProperties
<1> HIDE DEF sub
<1>3. k - 1 + 1 = k /\ (~(1 <= k) => k = 0) /\ \A j \in 1..k : 1 + j - 1 = j
  OBVIOUS
<1>4. Len(sub) = k /\ \A j \in 1..k : sub[j] = f[j]
  BY <1>1, <1>2, <1>3
<1> QED
  BY <1>1, <1>4 DEF sub

\* Putting the last element in the place of one that goes.
LEMMA SwapOccurs ==
  ASSUME NEW S, NEW s \in Seq(S), NEW i \in 1..Len(s), Distinct(s),
         NEW new, new = SubSeq([s EXCEPT ![i] = s[Len(s)]], 1, Len(s) - 1)
  PROVE  /\ new \in Seq(S) /\ Distinct(new)
         /\ \A v : Occurs(new, v) <=> Occurs(s, v) /\ v # s[i]
<1> DEFINE n == Len(s)
           swapped == [s EXCEPT ![i] = s[n]]
<1>1. n \in Nat /\ n >= 1 /\ n \in 1..n /\ s[n] \in S
  BY LenProperties, ElementOfSeq
<1>2. /\ swapped \in Seq(S) /\ Len(swapped) = n
      /\ \A j \in 1..n : swapped[j] = IF j = i THEN s[n] ELSE s[j]
  BY <1>1, ExceptSeq
<1>3. \A j \in 1..(n - 1) : j \in 1..n /\ swapped[j] \in S
  BY <1>1, <1>2, ElementOfSeq
<1>4. new = SubSeq(swapped, 1, n - 1)
  OBVIOUS
<1>5. Len(s) = n
  OBVIOUS
<1> HIDE DEF n, swapped
<1>6. /\ new \in Seq(S) /\ Len(new) = n - 1
      /\ \A j \in 1..(n - 1) : new[j] = swapped[j]
  <2>1. n - 1 \in Nat /\ \A j \in 1..(n - 1) : swapped[j] \in S
    BY <1>1, <1>3
  <2>2. new = SubSeq(swapped, 1, n - 1)
    BY <1>4
  <2> QED
    BY <2>1, <2>2, FirstElements
<1>7. \A j \in 1..(n - 1) : new[j] = IF j = i THEN s[n] ELSE s[j]
  BY <1>2, <1>3, <1>6
<1>8. /\ Len(new) = n - 1 /\ n \in Nat /\ n >= 1 /\ i \in 1..n
      /\ \A j \in 1..(n - 1) : j \in 1..n /\ j # n
  BY <1>1, <1>6, <1>5
<1>9. ASSUME NEW v, Occurs(new, v) PROVE Occurs(s, v) /\ v # s[i]
  <2>1. PICK j \in 1..(n - 1) : new[j] = v
    BY <1>5, <1>8, <1>9 DEF Occurs
  <2>2. CASE j = i
    <3>1. v = s[n] /\ n \in 1..n /\ i # n
      BY <1>1, <1>7, <1>5, <1>8, <2>1, <2>2
    <3> QED
      BY <1>5, <1>8, <3>1 DEF Occurs, Distinct
  <2>3. CASE j # i
    BY <1>7, <1>5, <1>8, <2>1, <2>3 DEF Occurs, Distinct
  <2> QED
    BY <2>2, <2>3
<1>10. ASSUME NEW v, Occurs(s, v), v # s[i] PROVE Occurs(new, v)
  <2>1. PICK j \in 1..n : s[j] = v /\ j # i
    BY <1>5, <1>8, <1>10 DEF Occurs
  <2>2. CASE j = n
    <3>1. i \in 1..(n - 1)
      BY <1>5, <1>8, <2>1, <2>2
    <3> QED
      BY <1>7, <1>5, <1>8, <2>1, <2>2, <3>1 DEF Occurs
  <2>3. CASE j # n
    <3>1. j \in 1..(n - 1)
      BY <1>5, <1>8, <2>3
    <3> QED
      BY <1>7, <1>5, <1>8, <2>1, <3>1 DEF Occurs
  <2> QED
    BY <2>2, <2>3
<1>11. ASSUME NEW j \in 1..(n - 1), NEW k \in 1..(n - 1), j # k PROVE new[j] # new[k]
  <2>1. /\ new[j] = IF j = i THEN s[n] ELSE s[j]
        /\ new[k] = IF k = i THEN s[n] ELSE s[k]
    BY <1>7
  <2>2. j \in 1..n /\ k \in 1..n /\ n \in 1..n /\ j # n /\ k # n
    BY <1>1, <1>5, <1>8
  <2> QED
    BY <1>5, <1>8, <1>11, <2>1, <2>2 DEF Distinct
<1> QED
  BY <1>6, <1>5, <1>8, <1>9, <1>10, <1>11 DEF Distinct

-----------------------------------------------------------------------------
(* A sequence that follows another *)

LEMMA AppendToSecond ==
  ASSUME NEW S, NEW s \in Seq(S), NEW r \in Seq(S), NEW e \in S
  PROVE  s \o Append(r, e) = Append(s \o r, e)
<1>1. s \o r \in Seq(S) /\ <<e>> \in Seq(S)
  BY ConcatProperties
<1>2. Append(r, e) = r \o <<e>> /\ Append(s \o r, e) = (s \o r) \o <<e>>
  BY <1>1, AppendIsConcat
<1>3. ASSUME NEW c \in Seq(S) PROVE (s \o r) \o c = s \o (r \o c)
  BY ConcatAssociative
<1> QED
  BY <1>1, <1>2, <1>3

LEMMA TailOfFirst ==
  ASSUME NEW S, NEW s \in Seq(S), NEW r \in Seq(S), s # <<>>
  PROVE  s \o r # <<>> /\ Head(s \o r) = Head(s) /\ Tail(s \o r) = Tail(s) \o r
<1> DEFINE n     == Len(s)
           k     == Len(r)
           whole == s \o r
           tail  == Tail(s)
           left  == Tail(whole)
           right == tail \o r
<1>1. /\ n \in Nat /\ n >= 1 /\ k \in Nat /\ 1 \in 1..(n + k) /\ 1 <= n
      /\ tail \in Seq(S) /\ Len(tail) = n - 1 /\ Head(s) = s[1]
      /\ \A i \in 1..(n - 1) : tail[i] = s[i + 1]
  BY HeadTailProperties, LenProperties
<1>2. /\ whole \in Seq(S) /\ Len(whole) = n + k /\ whole # <<>>
      /\ \A i \in 1..(n + k) : whole[i] = IF i <= n THEN s[i] ELSE r[i - n]
  BY ConcatProperties, ConcatEqualIffEmpty
<1> HIDE DEF tail, whole
<1>3. /\ left \in Seq(S) /\ Len(left) = n + k - 1 /\ Head(whole) = whole[1]
      /\ \A i \in 1..(n + k - 1) : left[i] = whole[i + 1]
  BY <1>2, HeadTailProperties
<1>4. /\ right \in Seq(S) /\ Len(right) = (n - 1) + k
      /\ \A i \in 1..((n - 1) + k) :
           right[i] = IF i <= n - 1 THEN tail[i] ELSE r[i - (n - 1)]
  BY <1>1, ConcatProperties
<1> HIDE DEF left, right, n, k
<1>5. (n - 1) + k = n + k - 1
  BY <1>1
<1>6. ASSUME NEW i \in 1..(n + k - 1) PROVE left[i] = right[i]
  <2>1. i + 1 \in 1..(n + k) /\ i \in 1..((n - 1) + k)
    BY <1>1
  <2>2. left[i] = IF i + 1 <= n THEN s[i + 1] ELSE r[(i + 1) - n]
    BY <1>2, <1>3, <2>1
  <2>3. right[i] = IF i <= n - 1 THEN tail[i] ELSE r[i - (n - 1)]
    BY <1>4, <2>1
  <2>4. /\ i + 1 <= n <=> i <= n - 1
        /\ i <= n - 1 => i \in 1..(n - 1)
        /\ (i + 1) - n = i - (n - 1)
    BY <1>1
  <2> QED
    BY <1>1, <2>2, <2>3, <2>4
<1>7. left = right
  BY <1>3, <1>4, <1>5, <1>6, SeqEqual
<1>8. Head(whole) = Head(s)
  BY <1>1, <1>2, <1>3
<1> QED
  BY <1>2, <1>7, <1>8 DEF left, right, whole, tail

-----------------------------------------------------------------------------
(* A function applied to every element *)

Mapped(F, s) == [i \in DOMAIN s |-> F[s[i]]]

Maps(F, S, T) == \A x \in S : F[x] \in T

LEMMA MappedElements ==
  ASSUME NEW S, NEW F, NEW s \in Seq(S)
  PROVE  /\ Len(Mapped(F, s)) = Len(s)
         /\ \A i \in 1..Len(s) : Mapped(F, s)[i] = F[s[i]]
<1>1. DOMAIN s = 1..Len(s) /\ Len(s) \in Nat
  BY LenProperties
<1>2. Mapped(F, s) = [i \in 1..Len(s) |-> F[s[i]]]
  BY <1>1 DEF Mapped
<1> QED
  BY <1>1, <1>2

LEMMA MappedType ==
  ASSUME NEW S, NEW T, NEW F, Maps(F, S, T), NEW s \in Seq(S)
  PROVE  Mapped(F, s) \in Seq(T)
<1>1. DOMAIN s = 1..Len(s) /\ Len(s) \in Nat
  BY LenProperties
<1>2. \A i \in 1..Len(s) : F[s[i]] \in T
  BY ElementOfSeq DEF Maps
<1>3. Mapped(F, s) = [i \in 1..Len(s) |-> F[s[i]]]
  BY <1>1 DEF Mapped
<1> QED
  BY <1>1, <1>2, <1>3

LEMMA MappedAppended ==
  ASSUME NEW S, NEW T, NEW F, Maps(F, S, T), NEW s \in Seq(S), NEW x \in S
  PROVE  Mapped(F, Append(s, x)) = Append(Mapped(F, s), F[x])
<1>0. ASSUME NEW r \in Seq(S)
      PROVE  /\ Mapped(F, r) \in Seq(T) /\ Len(Mapped(F, r)) = Len(r)
             /\ \A i \in 1..Len(r) : Mapped(F, r)[i] = F[r[i]]
  <2>1. Mapped(F, r) \in Seq(T)
    BY MappedType, Zenon
  <2>2. Len(Mapped(F, r)) = Len(r) /\ \A i \in 1..Len(r) : Mapped(F, r)[i] = F[r[i]]
    BY MappedElements
  <2> QED
    BY <2>1, <2>2
<1> DEFINE longer == Append(s, x)
           left   == Mapped(F, longer)
           right  == Append(Mapped(F, s), F[x])
           n      == Len(s)
<1>1. /\ longer \in Seq(S) /\ Len(longer) = n + 1 /\ n \in Nat
      /\ \A i \in 1..n : longer[i] = s[i]
      /\ longer[n + 1] = x
  BY AppendProperties, LenProperties
<1> HIDE DEF longer
<1>2. /\ left \in Seq(T) /\ Len(left) = n + 1
      /\ \A i \in 1..(n + 1) : left[i] = F[longer[i]]
  BY <1>0, <1>1
<1>3. /\ Mapped(F, s) \in Seq(T) /\ Len(Mapped(F, s)) = n
      /\ \A i \in 1..n : Mapped(F, s)[i] = F[s[i]]
  BY <1>0
<1>4. /\ right \in Seq(T) /\ Len(right) = n + 1
      /\ \A i \in 1..n : right[i] = Mapped(F, s)[i]
      /\ right[n + 1] = F[x]
  <2>1. F[x] \in T
    BY DEF Maps
  <2> QED
    BY <1>3, <2>1, AppendProperties
<1> HIDE DEF left, right, n
<1>5. ASSUME NEW i \in 1..(n + 1) PROVE left[i] = right[i]
  <2>1. i \in 1..n \/ i = n + 1
    BY <1>1
  <2>2. left[i] = F[longer[i]]
    BY <1>2
  <2>3. CASE i \in 1..n
    <3>1. right[i] = F[s[i]]
      BY <1>3, <1>4, <2>3
    <3> QED
      BY <1>1, <2>2, <2>3, <3>1
  <2>4. CASE i = n + 1
    BY <1>1, <1>4, <2>2, <2>4
  <2> QED
    BY <2>1, <2>3, <2>4
<1>6. left = right
  BY <1>2, <1>4, <1>5, SeqEqual
<1> QED
  BY <1>6 DEF left, right, longer

LEMMA MappedTail ==
  ASSUME NEW S, NEW T, NEW F, Maps(F, S, T), NEW s \in Seq(S), s # <<>>
  PROVE  /\ Mapped(F, s) # <<>> /\ Head(Mapped(F, s)) = F[Head(s)]
         /\ Mapped(F, Tail(s)) = Tail(Mapped(F, s))
<1>0. ASSUME NEW r \in Seq(S)
      PROVE  /\ Mapped(F, r) \in Seq(T) /\ Len(Mapped(F, r)) = Len(r)
             /\ \A i \in 1..Len(r) : Mapped(F, r)[i] = F[r[i]]
  <2>1. Mapped(F, r) \in Seq(T)
    BY MappedType, Zenon
  <2>2. Len(Mapped(F, r)) = Len(r) /\ \A i \in 1..Len(r) : Mapped(F, r)[i] = F[r[i]]
    BY MappedElements
  <2> QED
    BY <2>1, <2>2
<1> DEFINE shorter == Tail(s)
           whole   == Mapped(F, s)
           left    == Mapped(F, shorter)
           right   == Tail(whole)
           n       == Len(s)
<1>1. /\ n \in Nat /\ n >= 1 /\ Head(s) = s[1] /\ 1 \in 1..n
      /\ shorter \in Seq(S) /\ Len(shorter) = n - 1
      /\ \A i \in 1..(n - 1) : shorter[i] = s[i + 1]
  BY HeadTailProperties, LenProperties
<1> HIDE DEF shorter
<1>2. /\ whole \in Seq(T) /\ Len(whole) = n
      /\ \A i \in 1..n : whole[i] = F[s[i]]
  BY <1>0
<1>3. /\ left \in Seq(T) /\ Len(left) = n - 1
      /\ \A i \in 1..(n - 1) : left[i] = F[shorter[i]]
  BY <1>0, <1>1
<1> HIDE DEF whole, left, n
<1>4. whole # <<>>
  BY <1>1, <1>2
<1>5. /\ right \in Seq(T) /\ Len(right) = n - 1 /\ Head(whole) = whole[1]
      /\ \A i \in 1..(n - 1) : right[i] = whole[i + 1]
  BY <1>2, <1>4, HeadTailProperties
<1> HIDE DEF right
<1>6. ASSUME NEW i \in 1..(n - 1) PROVE left[i] = right[i]
  <2>1. i + 1 \in 1..n
    BY <1>1
  <2>2. left[i] = F[s[i + 1]]
    BY <1>1, <1>3
  <2>3. right[i] = F[s[i + 1]]
    BY <1>2, <1>5, <2>1
  <2> QED
    BY <2>2, <2>3
<1>7. left = right
  BY <1>3, <1>5, <1>6, SeqEqual
<1>8. Head(whole) = F[Head(s)]
  BY <1>1, <1>2, <1>5
<1> QED
  BY <1>4, <1>7, <1>8 DEF left, right, whole, shorter

PartOf(s, a, b) == a \in 1..(Len(s) + 1) /\ b \in 0..Len(s)

LEMMA MappedPart ==
  ASSUME NEW S, NEW T, NEW F, Maps(F, S, T), NEW s \in Seq(S), NEW a, NEW b, PartOf(s, a, b)
  PROVE  Mapped(F, SubSeq(s, a, b)) = SubSeq(Mapped(F, s), a, b)
<1>0. ASSUME NEW r \in Seq(S)
      PROVE  /\ Mapped(F, r) \in Seq(T) /\ Len(Mapped(F, r)) = Len(r)
             /\ \A i \in 1..Len(r) : Mapped(F, r)[i] = F[r[i]]
  <2>1. Mapped(F, r) \in Seq(T)
    BY MappedType, Zenon
  <2>2. Len(Mapped(F, r)) = Len(r) /\ \A i \in 1..Len(r) : Mapped(F, r)[i] = F[r[i]]
    BY MappedElements
  <2> QED
    BY <2>1, <2>2
<1> DEFINE part  == SubSeq(s, a, b)
           whole == Mapped(F, s)
           left  == Mapped(F, part)
           right == SubSeq(whole, a, b)
           k     == IF a <= b THEN b - a + 1 ELSE 0
<1>1. Len(s) \in Nat /\ a \in Int /\ b \in Int /\ k \in Nat
  BY LenProperties DEF PartOf
<1>2. \A i \in a..b : i \in 1..Len(s)
  BY <1>1 DEF PartOf
<1>3. \A i \in 1..k : a + i - 1 \in a..b
  BY <1>1
<1>4. /\ whole \in Seq(T) /\ Len(whole) = Len(s)
      /\ \A i \in 1..Len(s) : whole[i] = F[s[i]]
  BY <1>0
<1> HIDE DEF whole
<1>5. \A i \in a..b : s[i] \in S /\ whole[i] \in T
  BY <1>2, <1>4, ElementOfSeq DEF Maps
<1>6. /\ part \in Seq(S) /\ Len(part) = k
      /\ \A i \in 1..k : part[i] = s[a + i - 1]
  BY <1>1, <1>5, SubSeqProperties
<1>7. /\ right \in Seq(T) /\ Len(right) = k
      /\ \A i \in 1..k : right[i] = whole[a + i - 1]
  BY <1>1, <1>5, SubSeqProperties
<1> HIDE DEF part, right
<1>8. /\ left \in Seq(T) /\ Len(left) = k
      /\ \A i \in 1..k : left[i] = F[part[i]]
  BY <1>0, <1>6
<1> HIDE DEF left, k
<1>9. ASSUME NEW i \in 1..k PROVE left[i] = right[i]
  <2>1. a + i - 1 \in 1..Len(s)
    BY <1>2, <1>3
  <2>2. left[i] = F[s[a + i - 1]]
    BY <1>6, <1>8
  <2>3. right[i] = F[s[a + i - 1]]
    BY <1>4, <1>7, <2>1
  <2> QED
    BY <2>2, <2>3
<1>10. left = right
  BY <1>7, <1>8, <1>9, SeqEqual
<1> QED
  BY <1>10 DEF left, right, part, whole
=============================================================================
