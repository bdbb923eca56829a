--------------------------- MODULE SequenceLemmas ---------------------------
(* What the proofs of every component need of sequences, whatever they are    *)
(* sequences of, and of sets of numbers.                                      *)
EXTENDS Lists, TLAPS, SequenceTheorems, WellFoundedInduction

\* A sequence over any set is a sequence over its own range.
LEMMA SeqIn ==
  ASSUME NEW S, NEW s \in Seq(S)
  PROVE  IsSeq(s)
  BY DEF IsSeq, Range

\* The domain of a sequence is 1 up to its length.
LEMMA SeqLen ==
  ASSUME NEW s, IsSeq(s)
  PROVE  Len(s) \in Nat /\ DOMAIN s = 1..Len(s)
  BY DEF IsSeq

\* Two sequences, one after the other.
LEMMA SeqCat ==
  ASSUME NEW s, NEW t, IsSeq(s), IsSeq(t)
  PROVE  /\ IsSeq(s \o t) /\ Len(s \o t) = Len(s) + Len(t)
         /\ \A i \in 1..Len(s) : (s \o t)[i] = s[i]
         /\ \A i \in 1..Len(t) : (s \o t)[Len(s) + i] = t[i]
<1> DEFINE U == Range(s) \cup Range(t)
<1>1. s \in Seq(U) /\ t \in Seq(U)
  BY DEF IsSeq
<1>2. s \o t \in Seq(U)
  BY <1>1
<1> HIDE DEF U
<1>3. IsSeq(s \o t)
  BY <1>2, SeqIn
<1> QED
  BY <1>1, <1>3

\* An element of s \o t is one of s or, further on, one of t.
LEMMA CatAt ==
  ASSUME NEW s, NEW t, IsSeq(s), IsSeq(t), NEW i \in DOMAIN (s \o t)
  PROVE  \/ i \in DOMAIN s /\ (s \o t)[i] = s[i]
         \/ i - Len(s) \in DOMAIN t /\ (s \o t)[i] = t[i - Len(s)]
<1>1. DOMAIN s = 1..Len(s) /\ DOMAIN t = 1..Len(t) /\ Len(s) \in Nat /\ Len(t) \in Nat
  BY SeqLen
<1>2. DOMAIN (s \o t) = 1..(Len(s) + Len(t))
  BY SeqLen, SeqCat
<1>3. CASE i \in 1..Len(s)
  BY <1>1, <1>3, SeqCat
<1>4. CASE i - Len(s) \in 1..Len(t)
  <2>1. (s \o t)[Len(s) + (i - Len(s))] = t[i - Len(s)]
    BY <1>4, SeqCat
  <2>2. Len(s) + (i - Len(s)) = i
    BY <1>1, <1>2
  <2> QED
    BY <1>1, <1>4, <2>1, <2>2
<1> QED
  BY <1>1, <1>2, <1>3, <1>4

\* The elements of s and of t are all in s \o t.
LEMMA OldAt ==
  ASSUME NEW s, NEW t, IsSeq(s), IsSeq(t)
  PROVE /\ \A i \in DOMAIN s : i \in DOMAIN (s \o t) /\ (s \o t)[i] = s[i]
        /\ \A i \in DOMAIN t : Len(s) + i \in DOMAIN (s \o t) /\ (s \o t)[Len(s) + i] = t[i]
  BY SeqLen, SeqCat

\* Two sequences with the same places and the same element at each are equal.
LEMMA SameElements ==
  ASSUME NEW a, NEW b, IsSeq(a), IsSeq(b), DOMAIN a = DOMAIN b,
         \A i \in DOMAIN a : a[i] = b[i]
  PROVE  a = b
<1> DEFINE U == Range(a) \cup Range(b)
<1>1. a \in Seq(U) /\ b \in Seq(U)
  BY DEF IsSeq
<1> HIDE DEF U
<1>2. /\ Len(a) \in Nat /\ DOMAIN a = 1..Len(a)
      /\ Len(b) \in Nat /\ DOMAIN b = 1..Len(b)
  BY SeqLen
<1>3. Len(a) = Len(b)
  <2> DEFINE m == Len(a)
             n == Len(b)
  <2>1. m \in Nat /\ n \in Nat /\ 1..m = 1..n
    BY <1>2
  <2> HIDE DEF m, n
  <2>2. m \in 1..m => m \in 1..n
    BY <2>1
  <2>3. n \in 1..n => n \in 1..m
    BY <2>1
  <2>4. m <= n /\ n <= m
    BY <2>1, <2>2, <2>3
  <2>5. m = n
    BY <2>1, <2>4
  <2> QED
    BY <2>5 DEF m, n
<1> QED
  BY <1>1, <1>2, <1>3, SeqEqual

\* A sequence that is not empty is its head and its tail.
LEMMA HeadAndTail ==
  ASSUME NEW s, IsSeq(s), s # <<>>
  PROVE  /\ IsSeq(Tail(s)) /\ s = <<Head(s)>> \o Tail(s)
         /\ 1 \in DOMAIN s /\ Head(s) = s[1]
         /\ \A i \in DOMAIN Tail(s) : i + 1 \in DOMAIN s /\ Tail(s)[i] = s[i + 1]
<1>1. s \in Seq(Range(s))
  BY DEF IsSeq
<1>2. Tail(s) \in Seq(Range(s)) /\ s = <<Head(s)>> \o Tail(s)
  BY <1>1
<1>3. IsSeq(Tail(s))
  BY <1>2, SeqIn
<1>4. /\ 1 \in DOMAIN s /\ Head(s) = s[1]
      /\ \A i \in DOMAIN Tail(s) : i + 1 \in DOMAIN s /\ Tail(s)[i] = s[i + 1]
  BY <1>1
<1> QED
  BY <1>2, <1>3, <1>4

\* A sequence and one more element.
LEMMA SeqAppend ==
  ASSUME NEW s, IsSeq(s), NEW x
  PROVE  IsSeq(Append(s, x)) /\ Len(Append(s, x)) = Len(s) + 1
<1>1. s \in Seq(Range(s) \cup {x})
  BY DEF IsSeq
<1>2. Append(s, x) \in Seq(Range(s) \cup {x}) /\ Len(Append(s, x)) = Len(s) + 1
  BY <1>1
<1> QED
  BY <1>2, SeqIn

\* Every set of numbers has a least one.
LEMMA LeastMember ==
  ASSUME NEW I, I \subseteq Nat, I # {}
  PROVE  \E k \in I : \A i \in I : k <= i
<1> DEFINE R == {ss \in Nat \X Nat : ss[1] < ss[2]}
<1>1. IsWellFoundedOn(R, Nat)
  BY NatLessThanWellFounded DEF OpToRel
<1>2. \A i, k \in I : i < k => <<i, k>> \in R
  OBVIOUS
<1> HIDE DEF R
<1>3. PICK k \in I : \A i \in I : ~(<<i, k>> \in R)
  BY <1>1, WFMin
<1>4. \A i \in I : ~(i < k)
  BY <1>2, <1>3
<1> QED
  BY <1>4
=============================================================================
