--------------------------- MODULE SequenceFacts ---------------------------
(***************************************************************************)
(* What the vector and deque operations of the allocator and of the code   *)
(* cache do to the elements of a sequence, and induction by the least      *)
(* element of a set of numbers, for the proofs about the modules.          *)
(***************************************************************************)
EXTENDS Naturals, Sequences, SequencesExt, SequenceTheorems, WellFoundedInduction, TLAPS

(* Removing element n (the retain() of the allocator, the remove() of the  *)
(* cache) shortens the sequence and shifts its tail.                       *)
LEMMA RemoveAtFacts ==
  ASSUME NEW S, NEW s \in Seq(S), NEW n \in 1..Len(s)
  PROVE  /\ RemoveAt(s, n) \in Seq(S)
         /\ Len(RemoveAt(s, n)) = Len(s) - 1
         /\ \A j \in 1..(Len(s) - 1) :
              RemoveAt(s, n)[j] = IF j < n THEN s[j] ELSE s[j + 1]
<1> DEFINE p == SubSeq(s, 1, n - 1)
           q == SubSeq(s, n + 1, Len(s))
<1>0. Len(s) \in Nat /\ \A j \in 1..Len(s) : s[j] \in S
  BY LenProperties, ElementOfSeq
<1>1. /\ p \in Seq(S)
      /\ Len(p) = n - 1
      /\ \A j \in 1..(n - 1) : p[j] = s[j]
  BY <1>0
<1>2. /\ q \in Seq(S)
      /\ Len(q) = Len(s) - n
      /\ \A j \in 1..(Len(s) - n) : q[j] = s[n + j]
  BY <1>0
<1> HIDE DEF p, q
<1>3. /\ p \o q \in Seq(S)
      /\ Len(p \o q) = Len(p) + Len(q)
      /\ \A j \in 1..(Len(p) + Len(q)) :
           (p \o q)[j] = IF j <= Len(p) THEN p[j] ELSE q[j - Len(p)]
  BY <1>1, <1>2, ConcatProperties
<1>4. ASSUME NEW j \in 1..(Len(s) - 1)
      PROVE  (p \o q)[j] = IF j < n THEN s[j] ELSE s[j + 1]
  <2>1. CASE j < n
    BY <1>0, <1>1, <1>2, <1>3, <2>1
  <2>2. CASE ~(j < n)
    <3>1. j - (n - 1) \in 1..(Len(s) - n) /\ n + (j - (n - 1)) = j + 1
      BY <1>0, <2>2
    <3>2. (p \o q)[j] = q[j - (n - 1)]
      BY <1>0, <1>1, <1>2, <1>3, <2>2
    <3> QED
      BY <1>2, <2>2, <3>1, <3>2
  <2> QED
    BY <2>1, <2>2
<1>5. Len(p) + Len(q) = Len(s) - 1
  BY <1>0, <1>1, <1>2
<1>6. RemoveAt(s, n) = p \o q
  BY DEF RemoveAt, p, q
<1> QED
  BY <1>3, <1>4, <1>5, <1>6

(* Moving element n to the back shifts the ones after it.                  *)
LEMMA MoveToBackFacts ==
  ASSUME NEW S, NEW s \in Seq(S), NEW n \in 1..Len(s)
  PROVE  /\ Append(RemoveAt(s, n), s[n]) \in Seq(S)
         /\ Len(Append(RemoveAt(s, n), s[n])) = Len(s)
         /\ \A j \in 1..Len(s) :
              Append(RemoveAt(s, n), s[n])[j] =
                s[IF j = Len(s) THEN n ELSE IF j < n THEN j ELSE j + 1]
<1>1. Len(s) \in Nat /\ s[n] \in S
  BY LenProperties, ElementOfSeq
<1>2. /\ RemoveAt(s, n) \in Seq(S)
      /\ Len(RemoveAt(s, n)) = Len(s) - 1
      /\ \A j \in 1..(Len(s) - 1) :
           RemoveAt(s, n)[j] = IF j < n THEN s[j] ELSE s[j + 1]
  BY RemoveAtFacts
<1>3. /\ Append(RemoveAt(s, n), s[n]) \in Seq(S)
      /\ Len(Append(RemoveAt(s, n), s[n])) = Len(s)
      /\ \A j \in 1..(Len(s) - 1) :
           Append(RemoveAt(s, n), s[n])[j] = RemoveAt(s, n)[j]
      /\ Append(RemoveAt(s, n), s[n])[Len(s)] = s[n]
  BY <1>1, <1>2, AppendProperties
<1> QED
  BY <1>1, <1>2, <1>3

(* pop() returns the last element and leaves the others.                   *)
LEMMA PopFacts ==
  ASSUME NEW S, NEW s \in Seq(S), s # <<>>
  PROVE  /\ Len(s) > 0
         /\ Last(s) \in S
         /\ Last(s) = s[Len(s)]
         /\ Front(s) \in Seq(S)
         /\ Len(Front(s)) = Len(s) - 1
         /\ \A j \in 1..(Len(s) - 1) : Front(s)[j] = s[j]
<1>1. Len(s) \in Nat \ {0} /\ \A j \in 1..Len(s) : s[j] \in S
  BY EmptySeq, ElementOfSeq
<1>2. /\ Front(s) \in Seq(S)
      /\ Len(Front(s)) = Len(s) - 1
      /\ \A j \in 1..(Len(s) - 1) : Front(s)[j] = s[j]
  <2> DEFINE f == SubSeq(s, 1, Len(s) - 1)
  <2>1. \A j \in 1..(Len(s) - 1) : s[j] \in S
    BY <1>1
  <2>2. /\ f \in Seq(S)
        /\ Len(f) = IF 1 <= Len(s) - 1 THEN (Len(s) - 1) - 1 + 1 ELSE 0
        /\ \A j \in 1..((Len(s) - 1) - 1 + 1) : f[j] = s[1 + j - 1]
    BY <1>1, <2>1, SubSeqProperties
  <2>3. Front(s) = f
    BY DEF Front
  <2> HIDE DEF f
  <2>4. \A j \in 1..(Len(s) - 1) : j \in 1..((Len(s) - 1) - 1 + 1) /\ 1 + j - 1 = j
    BY <1>1
  <2>5. \A j \in 1..(Len(s) - 1) : f[j] = s[j]
    BY <2>2, <2>4
  <2> QED
    BY <1>1, <2>2, <2>3, <2>5
<1> QED
  BY <1>1, <1>2 DEF Last

-----------------------------------------------------------------------------
(* Sequences of anything.                                                  *)

IsSeq(s) == s \in Seq({s[j] : j \in DOMAIN s})

LEMMA SeqIsSeq ==
  ASSUME NEW S, NEW s \in Seq(S)
  PROVE  IsSeq(s)
<1>1. /\ Len(s) \in Nat
      /\ s = [j \in 1..Len(s) |-> s[j]]
      /\ DOMAIN s = 1..Len(s)
  BY LenProperties, SeqDef
<1>2. s \in [1..Len(s) -> {s[j] : j \in DOMAIN s}]
  BY <1>1
<1> QED
  BY <1>1, <1>2, SeqDef DEF IsSeq

LEMMA AppendIsSeq ==
  ASSUME NEW s, IsSeq(s), NEW x
  PROVE  /\ IsSeq(Append(s, x))
         /\ Len(s) \in Nat
         /\ DOMAIN s = 1..Len(s)
         /\ Len(Append(s, x)) = Len(s) + 1
         /\ \A j \in 1..Len(s) : Append(s, x)[j] = s[j]
         /\ Append(s, x)[Len(s) + 1] = x
<1> DEFINE S == {s[j] : j \in DOMAIN s} \cup {x}
<1>1. s \in Seq(S)
  <2>1. /\ s \in Seq({s[j] : j \in DOMAIN s})
        /\ {s[j] : j \in DOMAIN s} \subseteq S
    BY DEF IsSeq
  <2> QED
    BY <2>1, SeqMonotonic
<1>2. x \in S
  OBVIOUS
<1> HIDE DEF S
<1>3. Append(s, x) \in Seq(S)
  BY <1>1, <1>2
<1>4. IsSeq(Append(s, x))
  BY <1>3, SeqIsSeq
<1>5. /\ Len(s) \in Nat
      /\ DOMAIN s = 1..Len(s)
      /\ Len(Append(s, x)) = Len(s) + 1
      /\ \A j \in 1..Len(s) : Append(s, x)[j] = s[j]
      /\ Append(s, x)[Len(s) + 1] = x
  BY <1>1, <1>2, AppendProperties, LenProperties
<1> QED
  BY <1>4, <1>5

(* What u is, if it is s with t after it.                                  *)
Joined(u, s, t) ==
  /\ IsSeq(u)
  /\ Len(s) \in Nat
  /\ Len(t) \in Nat
  /\ Len(u) = Len(s) + Len(t)
  /\ \A j \in 1..Len(s) : u[j] = s[j]
  /\ \A j \in 1..Len(t) : u[Len(s) + j] = t[j]

LEMMA ConcatIsSeq ==
  ASSUME NEW s, IsSeq(s), NEW t, IsSeq(t)
  PROVE  Joined(s \o t, s, t)
<1> DEFINE S == {s[j] : j \in DOMAIN s} \cup {t[j] : j \in DOMAIN t}
<1>1. s \in Seq(S)
  <2>1. /\ s \in Seq({s[j] : j \in DOMAIN s})
        /\ {s[j] : j \in DOMAIN s} \subseteq S
    BY DEF IsSeq
  <2> QED
    BY <2>1, SeqMonotonic
<1>2. t \in Seq(S)
  <2>1. /\ t \in Seq({t[j] : j \in DOMAIN t})
        /\ {t[j] : j \in DOMAIN t} \subseteq S
    BY DEF IsSeq
  <2> QED
    BY <2>1, SeqMonotonic
<1> HIDE DEF S
<1>3. /\ s \o t \in Seq(S)
      /\ Len(s) \in Nat
      /\ Len(t) \in Nat
      /\ Len(s \o t) = Len(s) + Len(t)
      /\ \A j \in 1..(Len(s) + Len(t)) :
           (s \o t)[j] = IF j <= Len(s) THEN s[j] ELSE t[j - Len(s)]
  BY <1>1, <1>2, ConcatProperties, LenProperties
<1>4. IsSeq(s \o t)
  BY <1>3, SeqIsSeq
<1>5. ASSUME NEW j \in 1..Len(s)
      PROVE  (s \o t)[j] = s[j]
  BY <1>3
<1>6. ASSUME NEW j \in 1..Len(t)
      PROVE  (s \o t)[Len(s) + j] = t[j]
  BY <1>3
<1> QED
  BY <1>3, <1>4, <1>5, <1>6 DEF Joined

-----------------------------------------------------------------------------
(* Induction over numbers.                                                 *)

LEMMA LeastElement ==
  ASSUME NEW T \in SUBSET Nat, T # {}
  PROVE  \E x \in T : \A y \in T : x <= y
<1> DEFINE R == {p \in Nat \X Nat : p[1] < p[2]}
<1>1. IsWellFoundedOn(R, Nat)
  BY NatLessThanWellFounded DEF OpToRel
<1> HIDE DEF R
<1>2. PICK x \in T : \A y \in T : ~ (<<y, x>> \in R)
  BY <1>1, WFMin
<1>3. ASSUME NEW y \in T
      PROVE  x <= y
  <2>1. <<y, x>> \notin R /\ <<y, x>> \in Nat \X Nat
    BY <1>2
  <2>2. ~(<<y, x>>[1] < <<y, x>>[2])
    BY <2>1 DEF R
  <2> QED
    BY <2>2
<1> QED
  BY <1>3

LEMMA SetInduction ==
  ASSUME NEW S, 0 \in S, \A n \in Nat : n \in S => n + 1 \in S
  PROVE  Nat \subseteq S
<1> SUFFICES ASSUME ~(Nat \subseteq S) PROVE FALSE
  OBVIOUS
<1> DEFINE T == Nat \ S
<1>1. PICK x \in T : \A y \in T : x <= y
  BY LeastElement
<1>2. x # 0 /\ x - 1 \in Nat /\ x - 1 \notin T
  BY <1>1
<1> QED
  BY <1>1, <1>2
=============================================================================
