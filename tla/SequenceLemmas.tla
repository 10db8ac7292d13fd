---------------------------- MODULE SequenceLemmas ----------------------------
(***************************************************************************)
(* Facts about finite sequences, and about recursion on the numbers that   *)
(* count them, that the proofs of this project share.                      *)
(***************************************************************************)
EXTENDS Integers, SequencesExt, SequenceTheorems, WellFoundedInduction, TLAPS

(* What Append and Tail do to the elements of a sequence.                  *)
LEMMA RangeAppend ==
  ASSUME NEW S, NEW s \in Seq(S), NEW x \in S
  PROVE  Range(Append(s, x)) = Range(s) \cup {x}
<1> DEFINE r == Append(s, x)
<1>1. /\ r \in Seq(S) /\ Len(r) = Len(s) + 1
      /\ \A i \in 1..Len(s) : r[i] = s[i]
      /\ r[Len(s) + 1] = x
  BY AppendProperties
<1>2. DOMAIN r = 1..(Len(s) + 1) /\ DOMAIN s = 1..Len(s) /\ Len(s) \in Nat
  BY <1>1
<1> HIDE DEF r
<1>3. Range(r) \subseteq Range(s) \cup {x}
  BY <1>1, <1>2 DEF Range
<1>4. Range(s) \subseteq Range(r) /\ x \in Range(r)
  BY <1>1, <1>2 DEF Range
<1> QED
  BY <1>3, <1>4 DEF r

LEMMA RangeHeadTail ==
  ASSUME NEW S, NEW s \in Seq(S), s # <<>>
  PROVE  Range(s) = {Head(s)} \cup Range(Tail(s))
<1>1. /\ Head(s) = s[1] /\ Tail(s) \in Seq(S) /\ Len(s) \in Nat \ {0}
      /\ Len(Tail(s)) = Len(s) - 1
      /\ \A i \in 1..Len(Tail(s)) : Tail(s)[i] = s[i + 1]
  BY HeadTailProperties, EmptySeq
<1>2. DOMAIN s = 1..Len(s) /\ DOMAIN Tail(s) = 1..(Len(s) - 1)
  BY <1>1
<1>3. Range(s) \subseteq {Head(s)} \cup Range(Tail(s))
  <2> SUFFICES ASSUME NEW i \in 1..Len(s) PROVE s[i] \in {Head(s)} \cup Range(Tail(s))
    BY <1>2 DEF Range
  <2>1. CASE i = 1
    BY <1>1, <2>1
  <2>2. CASE i # 1
    <3>1. i - 1 \in 1..(Len(s) - 1)
      BY <1>1, <2>2
    <3>2. Tail(s)[i - 1] = s[i]
      BY <1>1, <3>1
    <3> QED
      BY <1>2, <3>1, <3>2 DEF Range
  <2> QED
    BY <2>1, <2>2
<1>4. {Head(s)} \cup Range(Tail(s)) \subseteq Range(s)
  BY <1>1, <1>2 DEF Range
<1> QED
  BY <1>3, <1>4

(* Concatenation is associative.  The equation has a name, so that the     *)
(* provers meet its operators only where it is used.                       *)
Associates(s, t, u) == (s \o t) \o u = s \o (t \o u)

LEMMA ThreeParts ==
  ASSUME NEW S, NEW s \in Seq(S), NEW t \in Seq(S), NEW u \in Seq(S)
  PROVE  Associates(s, t, u)
<1>1. (s \o t) \o u = s \o (t \o u)
  BY ConcatAssociative
<1> QED
  BY <1>1 DEF Associates

(* Appending to the second part of a concatenation appends to the whole.   *)
LEMMA ConcatAppend ==
  ASSUME NEW S, NEW s \in Seq(S), NEW t \in Seq(S), NEW x \in S
  PROVE  s \o Append(t, x) = Append(s \o t, x)
<1>1. <<x>> \in Seq(S) /\ s \o t \in Seq(S)
  BY ConcatProperties
<1>2. s \o Append(t, x) = s \o (t \o <<x>>)
  BY AppendIsConcat
<1>3. Append(s \o t, x) = (s \o t) \o <<x>>
  BY <1>1, AppendIsConcat
<1>4. Associates(s, t, <<x>>)
  BY <1>1, ThreeParts
<1> QED
  BY <1>2, <1>3, <1>4 DEF Associates

(* The head of a concatenation comes from its first part.                  *)
LEMMA HeadTailConcat ==
  ASSUME NEW S, NEW s \in Seq(S), NEW t \in Seq(S), s # <<>>
  PROVE  /\ s \o t # <<>>
         /\ Head(s \o t) = Head(s)
         /\ Tail(s \o t) = Tail(s) \o t
<1> DEFINE r == s \o t
<1>1. /\ r \in Seq(S) /\ Len(r) = Len(s) + Len(t)
      /\ \A i \in 1..Len(r) : r[i] = IF i <= Len(s) THEN s[i] ELSE t[i - Len(s)]
  BY ConcatProperties
<1>2. Len(s) \in Nat \ {0} /\ Len(t) \in Nat /\ Head(s) = s[1]
  BY EmptySeq
<1> HIDE DEF r
<1>3. r # <<>> /\ Head(r) = s[1]
  BY <1>1, <1>2, EmptySeq
<1>4. /\ Tail(r) \in Seq(S) /\ Len(Tail(r)) = Len(r) - 1
      /\ \A i \in 1..Len(Tail(r)) : Tail(r)[i] = r[i + 1]
  BY <1>1, <1>3, HeadTailProperties
<1>5. /\ Tail(s) \in Seq(S) /\ Len(Tail(s)) = Len(s) - 1
      /\ \A i \in 1..Len(Tail(s)) : Tail(s)[i] = s[i + 1]
  BY HeadTailProperties
<1>6. /\ Tail(s) \o t \in Seq(S)
      /\ Len(Tail(s) \o t) = (Len(s) - 1) + Len(t)
      /\ \A i \in 1..((Len(s) - 1) + Len(t)) : (Tail(s) \o t)[i] =
           IF i <= Len(s) - 1 THEN Tail(s)[i] ELSE t[i - (Len(s) - 1)]
  BY <1>5, ConcatProperties
<1>7. ASSUME NEW i \in 1..((Len(s) - 1) + Len(t)) PROVE Tail(r)[i] = (Tail(s) \o t)[i]
  <2>1. /\ Tail(r)[i] = r[i + 1]
        /\ r[i + 1] = IF i + 1 <= Len(s) THEN s[i + 1] ELSE t[(i + 1) - Len(s)]
    BY <1>1, <1>2, <1>4
  <2>2. i <= Len(s) - 1 => Tail(s)[i] = s[i + 1]
    BY <1>2, <1>5
  <2>3. (Tail(s) \o t)[i] = IF i <= Len(s) - 1 THEN Tail(s)[i] ELSE t[i - (Len(s) - 1)]
    BY <1>6
  <2>4. /\ i \in Int /\ Len(s) \in Int
        /\ i + 1 <= Len(s) <=> i <= Len(s) - 1
        /\ (i + 1) - Len(s) = i - (Len(s) - 1)
    BY <1>2
  <2> QED
    BY <2>1, <2>2, <2>3, <2>4
<1>8. Tail(r) = Tail(s) \o t
  <2> DEFINE q == Tail(r)
             p == Tail(s) \o t
  <2>1. /\ q \in Seq(S) /\ p \in Seq(S) /\ Len(q) = Len(p)
        /\ \A i \in 1..Len(q) : q[i] = p[i]
    BY <1>1, <1>2, <1>4, <1>6, <1>7
  <2> HIDE DEF q, p
  <2>2. q = p
    BY <2>1, SeqEqual
  <2> QED
    BY <2>2 DEF q, p
<1> QED
  BY <1>2, <1>3, <1>8 DEF r

(* A sequence without repetitions stays one when something new is added... *)
LEMMA InjectiveAppend ==
  ASSUME NEW S, NEW s \in Seq(S), NEW x \in S, IsInjective(s), x \notin Range(s)
  PROVE  IsInjective(Append(s, x))
<1> DEFINE r == Append(s, x)
<1>1. /\ r \in Seq(S) /\ Len(r) = Len(s) + 1
      /\ \A i \in 1..Len(s) : r[i] = s[i]
      /\ r[Len(s) + 1] = x
  BY AppendProperties
<1>2. DOMAIN r = 1..(Len(s) + 1) /\ DOMAIN s = 1..Len(s) /\ Len(s) \in Nat
  BY <1>1
<1>3. \A i \in 1..Len(s) : s[i] # x
  BY <1>2 DEF Range
<1>4. \A i, j \in 1..Len(s) : s[i] = s[j] => i = j
  BY <1>2 DEF IsInjective
<1> HIDE DEF r
<1>5. ASSUME NEW i \in 1..(Len(s) + 1), NEW j \in 1..(Len(s) + 1), r[i] = r[j]
      PROVE  i = j
  <2>1. CASE i \in 1..Len(s) /\ j \in 1..Len(s)
    BY <1>1, <1>4, <1>5, <2>1
  <2>2. CASE i = Len(s) + 1 \/ j = Len(s) + 1
    BY <1>1, <1>2, <1>3, <1>5, <2>2
  <2> QED
    BY <1>2, <2>1, <2>2
<1>6. IsInjective(r)
  BY <1>2, <1>5 DEF IsInjective
<1> QED
  BY <1>6 DEF r

(* ... and when its end is cut off.                                        *)
LEMMA PrefixProperties ==
  ASSUME NEW S, NEW s \in Seq(S), NEW m \in 0..Len(s)
  PROVE  /\ SubSeq(s, 1, m) \in Seq(S)
         /\ Len(SubSeq(s, 1, m)) = m
         /\ \A i \in 1..m : SubSeq(s, 1, m)[i] = s[i]
         /\ Range(SubSeq(s, 1, m)) \subseteq Range(s)
         /\ IsInjective(s) => IsInjective(SubSeq(s, 1, m))
<1> DEFINE r == SubSeq(s, 1, m)
<1>1. r \in Seq(S) /\ Len(r) = m /\ \A i \in 1..m : r[i] = s[i]
  BY SubSeqProperties
<1>2. DOMAIN r = 1..m /\ DOMAIN s = 1..Len(s) /\ Len(s) \in Nat
  BY <1>1
<1> HIDE DEF r
<1>3. Range(r) \subseteq Range(s)
  BY <1>1, <1>2 DEF Range
<1>4. IsInjective(s) => IsInjective(r)
  BY <1>1, <1>2 DEF IsInjective
<1> QED
  BY <1>1, <1>3, <1>4 DEF r

(* A sequence is what comes before a place and what comes behind it.       *)
LEMMA SplitAt ==
  ASSUME NEW S, NEW s \in Seq(S), NEW n \in 0..Len(s)
  PROVE  /\ SubSeq(s, 1, n) \in Seq(S) /\ SubSeq(s, n + 1, Len(s)) \in Seq(S)
         /\ SubSeq(s, 1, n) \o SubSeq(s, n + 1, Len(s)) = s
<1>1. Len(s) \in Nat /\ SubSeq(s, 1, n) \in Seq(S)
  BY PrefixProperties
<1>2. SubSeq(s, n + 1, Len(s)) \in Seq(S)
  <2>1. \A i \in (n + 1)..Len(s) : s[i] \in S
    BY <1>1
  <2> QED
    BY <1>1, <2>1, SubSeqProperties
<1>3. SubSeq(s, 1, n) \o SubSeq(s, n + 1, Len(s)) = SubSeq(s, 1, Len(s))
  <2> DEFINE m == 1
             l == Len(s)
  <2>1. m \in 1..(Len(s) + 1) /\ n \in (m - 1)..Len(s) /\ l \in n..Len(s)
    BY <1>1
  <2> HIDE DEF m, l
  <2>2. SubSeq(s, m, n) \o SubSeq(s, n + 1, l) = SubSeq(s, m, l)
    BY <2>1, ConcatAdjacentSubSeq, Zenon
  <2> QED
    BY <2>2 DEF m, l
<1> QED
  BY <1>1, <1>2, <1>3, SubSeqFull

(* What a concatenation has beyond its first part is the second one.       *)
LEMMA SuffixOfConcat ==
  ASSUME NEW S, NEW s \in Seq(S), NEW t \in Seq(S)
  PROVE  SubSeq(s \o t, Len(s) + 1, Len(s \o t)) = t
<1>1. /\ Len(s \o t) = Len(s) + Len(t) /\ Len(s) \in Nat /\ Len(t) \in Nat
      /\ SubSeq(t, 1, Len(t)) = t
  BY ConcatProperties, SubSeqFull
<1>2. CASE t = <<>>
  BY <1>1, <1>2, SubSeqEmpty
<1>3. CASE t # <<>>
  <2>1. Len(t) # 0
    BY <1>3, EmptySeq
  <2>2. /\ Len(s) + 1 \in Len(s) + 1 .. Len(s) + Len(t)
        /\ Len(s) + Len(t) \in Len(s) + 1 .. Len(s) + Len(t)
        /\ (Len(s) + 1) - Len(s) = 1 /\ (Len(s) + Len(t)) - Len(s) = Len(t)
    BY <1>1, <2>1
  <2>3. SubSeq(s \o t, Len(s) + 1, Len(s) + Len(t))
          = SubSeq(t, (Len(s) + 1) - Len(s), (Len(s) + Len(t)) - Len(s))
    BY <2>2, SubSeqOfConcat2
  <2> QED
    BY <1>1, <2>2, <2>3
<1> QED
  BY <1>2, <1>3

(* Moving the head of the second part to the end of the first.             *)
LEMMA MoveHead ==
  ASSUME NEW S, NEW s \in Seq(S), NEW t \in Seq(S), t # <<>>
  PROVE  Append(s, Head(t)) \in Seq(S) /\ Append(s, Head(t)) \o Tail(t) = s \o t
<1>1. Head(t) \in S /\ Tail(t) \in Seq(S) /\ <<Head(t)>> \in Seq(S)
  BY HeadTailProperties
<1>2. <<Head(t)>> \o Tail(t) = t
  <2>1. <<Head(t)>> # <<>> /\ Head(<<Head(t)>>) = Head(t) /\ Tail(<<Head(t)>>) = <<>>
    OBVIOUS
  <2> DEFINE r == <<Head(t)>> \o Tail(t)
  <2>2. /\ r \in Seq(S) /\ Len(r) = 1 + Len(Tail(t))
        /\ \A i \in 1..(1 + Len(Tail(t))) :
             r[i] = IF i <= 1 THEN Head(t) ELSE Tail(t)[i - 1]
    BY <1>1, ConcatProperties
  <2>3. /\ Len(t) \in Nat \ {0} /\ Len(Tail(t)) = Len(t) - 1 /\ Head(t) = t[1]
        /\ \A i \in 1..Len(Tail(t)) : Tail(t)[i] = t[i + 1]
    BY HeadTailProperties, EmptySeq
  <2> HIDE DEF r
  <2>4. ASSUME NEW i \in 1..Len(t) PROVE r[i] = t[i]
    <3>1. CASE i = 1
      BY <2>2, <2>3, <3>1
    <3>2. CASE i # 1
      <4>1. i - 1 \in 1..Len(Tail(t)) /\ ~(i <= 1) /\ i \in 1..(1 + Len(Tail(t)))
            /\ (i - 1) + 1 = i
        BY <2>3, <3>2
      <4> QED
        BY <2>2, <2>3, <4>1
    <3> QED
      BY <3>1, <3>2
  <2>5. Len(r) = Len(t)
    BY <2>2, <2>3
  <2>6. r = t
    BY <2>2, <2>4, <2>5, SeqEqual
  <2> QED
    BY <2>6 DEF r
<1>3. Append(s, Head(t)) = s \o <<Head(t)>>
  BY <1>1, AppendIsConcat
<1>4. Associates(s, <<Head(t)>>, Tail(t))
  BY <1>1, ThreeParts
<1> QED
  BY <1>1, <1>2, <1>3, <1>4, AppendProperties DEF Associates

------------------------------------------------------------------------------
(* Induction.  The library's theorems take the property as an operator,    *)
(* which the provers cannot instantiate; here it is the set of the numbers *)
(* that have it, and a counterexample would have to be a least one.        *)
LEMMA LeastElement ==
  ASSUME NEW T, T \subseteq Nat, T # {}
  PROVE  \E n \in T : \A m \in T : n <= m
<1> DEFINE R == OpToRel(<, Nat)
<1>1. IsWellFoundedOn(R, Nat)
  BY NatLessThanWellFounded
<1>2. \A m, n \in Nat : m < n => <<m, n>> \in R
  BY DEF OpToRel
<1> HIDE DEF R
<1>3. PICK x \in T : \A y \in T : ~ (<<y, x>> \in R)
  BY <1>1, WFMin
<1>4. ASSUME NEW y \in T PROVE x <= y
  <2>1. x \in Nat /\ y \in Nat /\ ~(<<y, x>> \in R)
    BY <1>3
  <2>2. ~(y < x)
    BY <1>2, <2>1
  <2> QED
    BY <2>1, <2>2
<1> QED
  BY <1>4

(* What holds at m and passes on holds up to n.                            *)
LEMMA Induction ==
  ASSUME NEW m \in Int, NEW n \in Int, NEW P,
         m <= n => m \in P,
         \A k \in m..(n - 1) : k \in P => k + 1 \in P
  PROVE  m..n \subseteq P
<1> DEFINE T == {d \in Nat : m + d <= n /\ m + d \notin P}
<1>1. SUFFICES ASSUME T # {} PROVE FALSE
  <2>1. ASSUME NEW k \in m..n PROVE k \in P
    <3>1. k - m \in Nat /\ m + (k - m) = k /\ k <= n
      OBVIOUS
    <3> QED
      BY <3>1, <1>1
  <2> QED
    BY <2>1
<1>2. PICK d \in T : \A e \in T : d <= e
  <2>1. T \subseteq Nat
    OBVIOUS
  <2> HIDE DEF T
  <2> QED
    BY <1>1, <2>1, LeastElement
<1>3. d \in Nat /\ m + d <= n /\ m + d \notin P
  BY <1>2
<1>4. d # 0
  BY <1>3
<1>5. d - 1 \in Nat /\ m + (d - 1) <= n /\ m + (d - 1) \in m..(n - 1)
      /\ (m + (d - 1)) + 1 = m + d /\ ~(d <= d - 1)
  BY <1>3, <1>4
<1>6. m + (d - 1) \in P
  BY <1>2, <1>5
<1> QED
  BY <1>3, <1>5, <1>6

(* A function defined by recursion from m to n, one step for each number,  *)
(* exists.                                                                 *)
IsRecursive(f, S, c, m, n, step) ==
  /\ f \in [m..n -> S]
  /\ \A i \in m..n : f[i] = IF i = m THEN c ELSE step[i][f[i - 1]]

StepsIn(S, m, n, step) == \A i \in m..n, s \in S : step[i][s] \in S

LEMMA Recursion ==
  ASSUME NEW S, NEW c \in S, NEW m \in Int, NEW n \in Int, NEW step,
         StepsIn(S, m, n, step)
  PROVE  \E f : IsRecursive(f, S, c, m, n, step)
<1> USE DEF IsRecursive, StepsIn
<1> DEFINE Is(f, l) == /\ f \in [m..l -> S]
                       /\ \A i \in m..l : f[i] = IF i = m THEN c ELSE step[i][f[i - 1]]
           P == {l \in (m - 1)..n : \E f : Is(f, l)}
<1>1. CASE n < m
  <2>1. m..n = {}
    BY <1>1
  <2>2. [i \in m..n |-> c] \in [m..n -> S]
    OBVIOUS
  <2> QED
    BY <2>1, <2>2
<1>2. CASE m <= n
  <2>1. m \in P
    <3> DEFINE f == [i \in m..m |-> c]
    <3>1. Is(f, m)
      OBVIOUS
    <3>2. m \in (m - 1)..n
      BY <1>2
    <3> QED
      BY <3>1, <3>2
  <2>2. ASSUME NEW k \in m..(n - 1), k \in P PROVE k + 1 \in P
    <3>1. PICK f : Is(f, k)
      BY <2>2
    <3>2. k + 1 \in m..n /\ k + 1 # m /\ (k + 1) - 1 = k /\ k \in m..k
      OBVIOUS
    <3> DEFINE g == [i \in m..(k + 1) |-> IF i = k + 1 THEN step[k + 1][f[k]] ELSE f[i]]
    <3>3. f[k] \in S /\ step[k + 1][f[k]] \in S
      BY <3>1, <3>2
    <3>4. \A i \in m..(k + 1) : i = k + 1 \/ (i \in m..k /\ i # k + 1)
      OBVIOUS
    <3>5. g \in [m..(k + 1) -> S]
      BY <3>1, <3>3, <3>4
    <3>6. ASSUME NEW i \in m..(k + 1)
          PROVE  g[i] = IF i = m THEN c ELSE step[i][g[i - 1]]
      <4>1. CASE i = k + 1
        <5>1. g[i] = step[k + 1][f[k]] /\ g[k] = f[k]
          BY <4>1, <3>2
        <5> QED
          BY <4>1, <5>1, <3>2
      <4>2. CASE i # k + 1
        <5>1. i \in m..k /\ g[i] = f[i]
          BY <4>2
        <5>2. f[i] = IF i = m THEN c ELSE step[i][f[i - 1]]
          BY <3>1, <5>1
        <5>3. i # m => g[i - 1] = f[i - 1]
          BY <5>1
        <5> QED
          BY <5>1, <5>2, <5>3
      <4> QED
        BY <4>1, <4>2
    <3>7. Is(g, k + 1)
      BY <3>5, <3>6
    <3>8. k + 1 \in (m - 1)..n
      OBVIOUS
    <3> HIDE DEF g
    <3> QED
      BY <3>7, <3>8
  <2>3. n \in P
    <3> HIDE DEF P
    <3>1. m..n \subseteq P
      BY <2>1, <2>2, Induction
    <3> QED
      BY <1>2, <3>1
  <2> QED
    BY <2>3
<1> QED
  BY <1>1, <1>2

(* FlattenSeq is the last value of a recursive function: f[i] is the       *)
(* concatenation of the first i sequences.                                 *)
Flattens(f, ss, S) ==
  /\ f \in [1..Len(ss) -> Seq(S)]
  /\ FlattenSeq(ss) = f[Len(ss)]
  /\ \A i \in 1..Len(ss) : f[i] = IF i = 1 THEN ss[i] ELSE f[i - 1] \o ss[i]

LEMMA FlattenUnfolds ==
  ASSUME NEW S, NEW ss \in Seq(Seq(S)), ss # <<>>
  PROVE  \E f : Flattens(f, ss, S)
<1> DEFINE n == Len(ss)
           Def(f) == f = [i \in 1..n |-> IF i = 1 THEN ss[i] ELSE f[i - 1] \o ss[i]]
           flatten == CHOOSE f : Def(f)
<1>1. n \in Nat \ {0} /\ ss \in [1..n -> Seq(S)]
  BY EmptySeq, LenProperties
<1>2. \E f : Def(f)
  <2> DEFINE step == [i \in 1..n |-> [s \in Seq(S) |-> s \o ss[i]]]
  <2>1. step \in [1..n -> [Seq(S) -> Seq(S)]]
    BY <1>1, ConcatProperties
  <2>2. ss[1] \in Seq(S)
    BY <1>1
  <2>3. PICK f \in [1..n -> Seq(S)] :
          \A i \in 1..n : f[i] = IF i = 1 THEN ss[1] ELSE step[i][f[i - 1]]
    <3>1. 1 \in Int /\ n \in Int
      BY <1>1
    <3> DEFINE U == Seq(S)
               c == ss[1]
               m == 1
    <3>2. StepsIn(U, m, n, step) /\ c \in U /\ m \in Int /\ n \in Int
      BY <2>1, <2>2, <3>1 DEF StepsIn
    <3> HIDE DEF step, n, U, c, m
    <3>3. \E f : IsRecursive(f, U, c, m, n, step)
      BY <3>2, Recursion
    <3> QED
      BY <3>3 DEF U, c, m, IsRecursive
  <2>4. ASSUME NEW i \in 1..n, i # 1 PROVE f[i] = f[i - 1] \o ss[i]
    <3>1. i - 1 \in 1..n
      BY <1>1, <2>4
    <3>2. f[i - 1] \in Seq(S)
      BY <3>1
    <3> QED
      BY <2>3, <2>4, <3>2
  <2>5. Def(f)
    BY <2>3, <2>4
  <2> QED
    BY <2>5
<1>3. Def(flatten)
  <2> HIDE DEF Def
  <2> QED
    BY <1>2, Zenon
<1>4. FlattenSeq(ss) = flatten[n]
  BY <1>1 DEF FlattenSeq
<1> HIDE DEF flatten
<1>5. \A i \in 1..n : flatten[i] = IF i = 1 THEN ss[i] ELSE flatten[i - 1] \o ss[i]
  BY <1>3
<1>6. DOMAIN flatten = 1..n /\ flatten = [i \in 1..n |-> flatten[i]]
  BY <1>3
<1>7. 1..n \subseteq {i \in 1..n : flatten[i] \in Seq(S)}
  <2> DEFINE P == {i \in 1..n : flatten[i] \in Seq(S)}
  <2>1. 1 \in P
    BY <1>1, <1>5
  <2>2. ASSUME NEW k \in 1..(n - 1), k \in P PROVE k + 1 \in P
    <3>1. k + 1 \in 1..n /\ k + 1 # 1 /\ (k + 1) - 1 = k /\ ss[k + 1] \in Seq(S)
      BY <1>1
    <3>2. flatten[k + 1] = flatten[k] \o ss[k + 1]
      BY <1>5, <3>1
    <3> QED
      BY <2>2, <3>1, <3>2, ConcatProperties
  <2>3. 1 \in Int /\ n \in Int
    BY <1>1
  <2> HIDE DEF P, n
  <2>4. 1..n \subseteq P
    BY <2>1, <2>2, <2>3, Induction
  <2> QED
    BY <2>4 DEF P
<1>8. flatten \in [1..n -> Seq(S)]
  BY <1>6, <1>7
<1> QED
  BY <1>4, <1>5, <1>8 DEF Flattens

(* What FlattenSeq is for an empty sequence, for one more element, for a   *)
(* concatenation.                                                          *)
LEMMA FlattenEmpty == FlattenSeq(<<>>) = <<>>
  BY DEF FlattenSeq

LEMMA FlattenType ==
  ASSUME NEW S, NEW ss \in Seq(Seq(S))
  PROVE  FlattenSeq(ss) \in Seq(S)
<1>1. CASE ss = <<>>
  BY <1>1, FlattenEmpty, EmptySeq
<1>2. CASE ss # <<>>
  <2>1. Len(ss) \in 1..Len(ss)
    BY <1>2, EmptySeq
  <2> QED
    BY <1>2, <2>1, FlattenUnfolds DEF Flattens
<1> QED
  BY <1>1, <1>2

LEMMA FlattenAppend ==
  ASSUME NEW S, NEW ss \in Seq(Seq(S)), NEW t \in Seq(S)
  PROVE  FlattenSeq(Append(ss, t)) = FlattenSeq(ss) \o t
<1> DEFINE n == Len(ss)
           tt == Append(ss, t)
<1>1. /\ tt \in Seq(Seq(S)) /\ tt # <<>> /\ Len(tt) = n + 1 /\ n \in Nat
      /\ \A i \in 1..n : tt[i] = ss[i]
      /\ tt[n + 1] = t
  BY AppendProperties
<1> HIDE DEF tt
<1>2. PICK g : Flattens(g, tt, S)
  BY <1>1, FlattenUnfolds
<1>3. /\ FlattenSeq(tt) = g[n + 1]
      /\ \A i \in 1..(n + 1) : g[i] = IF i = 1 THEN tt[i] ELSE g[i - 1] \o tt[i]
  BY <1>1, <1>2 DEF Flattens
<1>4. CASE ss = <<>>
  <2>1. n = 0 /\ FlattenSeq(ss) = <<>>
    BY <1>4, FlattenEmpty
  <2>2. g[1] = t
    BY <1>1, <1>3, <2>1
  <2> QED
    BY <1>3, <2>1, <2>2, ConcatEmptySeq DEF tt
<1>5. CASE ss # <<>>
  <2>1. n \in Nat \ {0}
    BY <1>5, EmptySeq
  <2>2. PICK f : Flattens(f, ss, S)
    BY <1>5, FlattenUnfolds
  <2>3. /\ FlattenSeq(ss) = f[n]
        /\ \A i \in 1..n : f[i] = IF i = 1 THEN ss[i] ELSE f[i - 1] \o ss[i]
    BY <2>2 DEF Flattens
  <2> DEFINE P == {i \in 1..n : g[i] = f[i]}
  <2>4. 1 \in P
    <3>1. 1 \in 1..n /\ 1 \in 1..(n + 1)
      BY <2>1
    <3>2. g[1] = tt[1] /\ f[1] = ss[1] /\ tt[1] = ss[1]
      BY <1>1, <1>3, <2>3, <3>1
    <3> QED
      BY <3>1, <3>2
  <2>5. ASSUME NEW k \in 1..(n - 1), k \in P PROVE k + 1 \in P
    <3>1. k + 1 \in 1..n /\ k + 1 \in 1..(n + 1) /\ k + 1 # 1 /\ (k + 1) - 1 = k
      BY <2>1
    <3>2. g[k + 1] = g[k] \o tt[k + 1] /\ f[k + 1] = f[k] \o ss[k + 1]
      BY <1>3, <2>3, <3>1
    <3> QED
      BY <1>1, <2>5, <3>1, <3>2
  <2>6. 1 \in Int /\ n \in Int /\ n \in 1..n
    BY <2>1
  <2>7. n \in P
    <3> HIDE DEF P
    <3>1. 1..n \subseteq P
      BY <2>4, <2>5, <2>6, Induction
    <3> QED
      BY <2>6, <3>1
  <2>8. g[n + 1] = g[n] \o t
    <3>1. n + 1 \in 1..(n + 1) /\ n + 1 # 1 /\ (n + 1) - 1 = n
      BY <2>1
    <3> QED
      BY <1>1, <1>3, <3>1
  <2> QED
    BY <1>3, <2>3, <2>7, <2>8 DEF tt
<1> QED
  BY <1>4, <1>5

(* Four parts may be grouped in other ways.                                *)
Regroups(s, t, u, v) ==
  /\ ((s \o t) \o u) \o v = s \o (t \o (u \o v))
  /\ ((s \o t) \o u) \o v = s \o ((t \o u) \o v)
  /\ (s \o t) \o u = s \o (t \o u)
  /\ (t \o u) \o v = t \o (u \o v)

LEMMA FourParts ==
  ASSUME NEW S, NEW s \in Seq(S), NEW t \in Seq(S), NEW u \in Seq(S), NEW v \in Seq(S)
  PROVE  Regroups(s, t, u, v)
<1> DEFINE tu == t \o u
<1>1. tu \in Seq(S)
  BY ConcatProperties
<1>2. Associates(s, t, u) /\ Associates(t, u, v)
  BY ThreeParts
<1> HIDE DEF tu
<1>3. Associates(s, tu, v)
  BY <1>1, ThreeParts
<1> QED
  BY <1>2, <1>3 DEF tu, Associates, Regroups

LEMMA FlattenConcat ==
  ASSUME NEW S, NEW ss \in Seq(Seq(S)), NEW tt \in Seq(Seq(S))
  PROVE  FlattenSeq(ss \o tt) = FlattenSeq(ss) \o FlattenSeq(tt)
<1> DEFINE n == Len(tt)
           first(k) == SubSeq(tt, 1, k)
           P == {k \in 0..n : FlattenSeq(ss \o first(k)) = FlattenSeq(ss) \o FlattenSeq(first(k))}
<1>1. n \in Nat /\ 0 \in Int /\ n \in Int
  OBVIOUS
<1>2. 0 \in P
  <2>1. first(0) = <<>>
    BY SubSeqEmpty
  <2>2. FlattenSeq(ss) \in Seq(S)
    BY FlattenType
  <2>3. ss \o <<>> = ss
    BY ConcatEmptySeq
  <2>4. FlattenSeq(ss) \o <<>> = FlattenSeq(ss)
    BY <2>2, ConcatEmptySeq
  <2> HIDE DEF first
  <2>5. FlattenSeq(ss \o first(0)) = FlattenSeq(ss) \o FlattenSeq(first(0))
    BY <2>1, <2>3, <2>4, FlattenEmpty
  <2> QED
    BY <1>1, <2>5
<1>3. ASSUME NEW k \in 0..(n - 1), k \in P PROVE k + 1 \in P
  <2> DEFINE f == first(k)
             t == tt[k + 1]
  <2>1. t \in Seq(S) /\ f \in Seq(Seq(S)) /\ first(k + 1) = Append(f, t)
    <3>1. 1 \in 1..Len(tt) /\ k + 1 \in 1..Len(tt) /\ (k + 1) - 1 = k /\ k \in 0..Len(tt)
      BY <1>1
    <3>2. first(k + 1) = SubSeq(tt, 1, k) \o <<t>>
      BY <3>1, SubSeqRecursiveSecond
    <3>3. f \in Seq(Seq(S))
      <4>1. \A i \in 1..k : tt[i] \in Seq(S)
        BY <3>1
      <4> QED
        BY <3>1, <4>1, SubSeqProperties
    <3> HIDE DEF f
    <3> QED
      BY <3>1, <3>2, <3>3, AppendIsConcat, ElementOfSeq DEF f
  <2>2. FlattenSeq(ss \o f) = FlattenSeq(ss) \o FlattenSeq(f)
    BY <1>3
  <2> HIDE DEF f, t
  <2> DEFINE r == first(k + 1)
             U == Seq(S)
  <2>3. ss \in Seq(U) /\ f \in Seq(U) /\ t \in U /\ r = Append(f, t)
    BY <2>1
  <2> HIDE DEF r, U
  <2>4. ss \o r = Append(ss \o f, t) /\ ss \o f \in Seq(U)
    BY <2>3, ConcatAppend, ConcatProperties
  <2>5. FlattenSeq(r) = FlattenSeq(f) \o t
    BY <2>3, FlattenAppend DEF U
  <2>6. FlattenSeq(ss \o r) = FlattenSeq(ss \o f) \o t
    BY <2>3, <2>4, FlattenAppend DEF U
  <2>7. FlattenSeq(ss) \in Seq(S) /\ FlattenSeq(f) \in Seq(S) /\ t \in Seq(S)
    BY <2>3, FlattenType DEF U
  <2>8. (FlattenSeq(ss) \o FlattenSeq(f)) \o t = FlattenSeq(ss) \o (FlattenSeq(f) \o t)
    <3>1. Associates(FlattenSeq(ss), FlattenSeq(f), t)
      BY <2>7, ThreeParts
    <3> QED
      BY <3>1 DEF Associates
  <2>9. FlattenSeq(ss \o r) = FlattenSeq(ss) \o FlattenSeq(r)
    BY <2>2, <2>5, <2>6, <2>8
  <2>10. k + 1 \in 0..n
    BY <1>1
  <2> QED
    BY <2>9, <2>10 DEF r
<1>4. n \in P
  <2> DEFINE m == 0
  <2> HIDE DEF P
  <2>1. 0..n \subseteq P
    BY <1>1, <1>2, <1>3, Induction
  <2> QED
    BY <1>1, <2>1
<1>5. first(n) = tt
  BY SubSeqFull
<1> QED
  BY <1>4, <1>5
------------------------------------------------------------------------------
(* Sequences of numbers in increasing order.                               *)
Increasing(s) == \A i, j \in DOMAIN s : i < j => s[i] < s[j]

LEMMA RangeConcat ==
  ASSUME NEW S, NEW s \in Seq(S), NEW t \in Seq(S)
  PROVE  Range(s \o t) = Range(s) \cup Range(t)
<1> DEFINE r == s \o t
<1>1. /\ r \in Seq(S) /\ Len(r) = Len(s) + Len(t)
      /\ \A i \in 1..(Len(s) + Len(t)) : r[i] = IF i <= Len(s) THEN s[i] ELSE t[i - Len(s)]
  BY ConcatProperties
<1>2. /\ DOMAIN r = 1..(Len(s) + Len(t)) /\ DOMAIN s = 1..Len(s) /\ DOMAIN t = 1..Len(t)
      /\ Len(s) \in Nat /\ Len(t) \in Nat
  BY <1>1
<1> HIDE DEF r
<1>3. ASSUME NEW i \in DOMAIN r PROVE r[i] \in Range(s) \cup Range(t)
  <2>1. CASE i <= Len(s)
    <3>1. i \in DOMAIN s /\ r[i] = s[i]
      BY <1>1, <1>2, <2>1
    <3> QED
      BY <3>1 DEF Range
  <2>2. CASE ~(i <= Len(s))
    <3>1. i - Len(s) \in DOMAIN t /\ r[i] = t[i - Len(s)]
      BY <1>1, <1>2, <2>2
    <3> QED
      BY <3>1 DEF Range
  <2> QED
    BY <2>1, <2>2
<1>4. ASSUME NEW i \in DOMAIN s PROVE s[i] \in Range(r)
  <2>1. i \in DOMAIN r /\ r[i] = s[i]
    BY <1>1, <1>2
  <2> QED
    BY <2>1 DEF Range
<1>5. ASSUME NEW i \in DOMAIN t PROVE t[i] \in Range(r)
  <2>1. /\ i + Len(s) \in DOMAIN r /\ ~(i + Len(s) <= Len(s))
        /\ (i + Len(s)) - Len(s) = i
    BY <1>2
  <2>2. r[i + Len(s)] = t[i]
    BY <1>1, <1>2, <2>1
  <2> QED
    BY <2>1, <2>2 DEF Range
<1> QED
  BY <1>3, <1>4, <1>5 DEF r, Range

(* A concatenation is in order if both parts are and the first is below    *)
(* the second.                                                             *)
LEMMA IncreasingConcat ==
  ASSUME NEW s \in Seq(Nat), NEW t \in Seq(Nat)
  PROVE  Increasing(s \o t) <=> /\ Increasing(s) /\ Increasing(t)
                                /\ \A x \in Range(s), y \in Range(t) : x < y
<1> DEFINE r == s \o t
<1>1. /\ r \in Seq(Nat) /\ Len(r) = Len(s) + Len(t)
      /\ \A i \in 1..(Len(s) + Len(t)) : r[i] = IF i <= Len(s) THEN s[i] ELSE t[i - Len(s)]
  BY ConcatProperties
<1>2. /\ DOMAIN r = 1..(Len(s) + Len(t)) /\ DOMAIN s = 1..Len(s) /\ DOMAIN t = 1..Len(t)
      /\ Len(s) \in Nat /\ Len(t) \in Nat
  BY <1>1
<1> HIDE DEF r
<1>3. /\ \A i \in DOMAIN s : i \in DOMAIN r /\ i <= Len(s) /\ r[i] = s[i]
      /\ \A i \in DOMAIN t : /\ i + Len(s) \in DOMAIN r /\ ~(i + Len(s) <= Len(s))
                             /\ (i + Len(s)) - Len(s) = i
  <2>1. ASSUME NEW i \in DOMAIN s PROVE i \in DOMAIN r /\ i <= Len(s) /\ r[i] = s[i]
    <3>1. i \in 1..(Len(s) + Len(t)) /\ i <= Len(s)
      BY <1>2
    <3> QED
      BY <1>1, <1>2, <3>1
  <2>2. ASSUME NEW i \in DOMAIN t
        PROVE  /\ i + Len(s) \in DOMAIN r /\ ~(i + Len(s) <= Len(s))
               /\ (i + Len(s)) - Len(s) = i
    BY <1>2
  <2> QED
    BY <2>1, <2>2
<1>4. \A i \in DOMAIN t : r[i + Len(s)] = t[i]
  BY <1>1, <1>2, <1>3
<1>5. ASSUME Increasing(r)
      PROVE  /\ Increasing(s) /\ Increasing(t)
             /\ \A x \in Range(s), y \in Range(t) : x < y
  <2>1. Increasing(s)
    BY <1>3, <1>5 DEF Increasing
  <2>2. ASSUME NEW i \in DOMAIN t, NEW j \in DOMAIN t, i < j PROVE t[i] < t[j]
    <3>1. i + Len(s) < j + Len(s)
      BY <1>2, <2>2
    <3> QED
      BY <1>3, <1>4, <1>5, <3>1 DEF Increasing
  <2>3. ASSUME NEW i \in DOMAIN s, NEW j \in DOMAIN t PROVE s[i] < t[j]
    <3>1. i < j + Len(s)
      BY <1>2
    <3> QED
      BY <1>3, <1>4, <1>5, <3>1 DEF Increasing
  <2> QED
    BY <2>1, <2>2, <2>3 DEF Increasing, Range
<1>6. ASSUME Increasing(s), Increasing(t), \A x \in Range(s), y \in Range(t) : x < y,
             NEW i \in DOMAIN r, NEW j \in DOMAIN r, i < j
      PROVE  r[i] < r[j]
  <2>1. CASE j <= Len(s)
    <3>1. i \in DOMAIN s /\ j \in DOMAIN s
      BY <1>2, <1>6, <2>1
    <3> QED
      BY <1>3, <1>6, <3>1 DEF Increasing
  <2>2. CASE ~(j <= Len(s)) /\ i <= Len(s)
    <3>1. i \in DOMAIN s /\ j - Len(s) \in DOMAIN t
      BY <1>2, <2>2
    <3>2. r[i] = s[i] /\ r[j] = t[j - Len(s)]
      BY <1>1, <1>2, <2>2
    <3>3. r[i] \in Range(s) /\ r[j] \in Range(t)
      BY <3>1, <3>2 DEF Range
    <3> QED
      BY <1>6, <3>3
  <2>3. CASE ~(j <= Len(s)) /\ ~(i <= Len(s))
    <3>1. i - Len(s) \in DOMAIN t /\ j - Len(s) \in DOMAIN t /\ i - Len(s) < j - Len(s)
      BY <1>2, <1>6, <2>3
    <3>2. r[i] = t[i - Len(s)] /\ r[j] = t[j - Len(s)]
      BY <1>1, <1>2, <2>3
    <3> QED
      BY <1>6, <3>1, <3>2 DEF Increasing
  <2> QED
    BY <2>1, <2>2, <2>3
<1>7. ASSUME Increasing(s), Increasing(t), \A x \in Range(s), y \in Range(t) : x < y
      PROVE  Increasing(r)
  BY <1>6, <1>7 DEF Increasing
<1> QED
  BY <1>5, <1>7 DEF r

(* A greater number may go to the end ...                                  *)
LEMMA IncreasingAppend ==
  ASSUME NEW s \in Seq(Nat), NEW n \in Nat, Increasing(s), \A x \in Range(s) : x < n
  PROVE  Increasing(Append(s, n))
<1>1. <<n>> \in Seq(Nat) /\ Append(s, n) = s \o <<n>>
  BY AppendIsConcat
<1>2. Increasing(<<n>>) /\ Range(<<n>>) = {n}
  BY DEF Increasing, Range
<1>3. \A x \in Range(s), y \in Range(<<n>>) : x < y
  BY <1>2
<1> DEFINE t == <<n>>
<1> HIDE DEF t
<1>4. Increasing(s \o t)
  <2>1. t \in Seq(Nat) /\ Increasing(t) /\ \A x \in Range(s), y \in Range(t) : x < y
    BY <1>1, <1>2, <1>3 DEF t
  <2> QED
    BY <2>1, IncreasingConcat
<1> QED
  BY <1>1, <1>4 DEF t

(* ... and a stretch may be cut out.                                       *)
LEMMA IncreasingCut ==
  ASSUME NEW p \in Seq(Nat), NEW q \in Seq(Nat), NEW r \in Seq(Nat),
         Increasing(p \o (q \o r))
  PROVE  Increasing(p \o r)
<1>1. q \o r \in Seq(Nat) /\ Range(q \o r) = Range(q) \cup Range(r)
  BY RangeConcat, ConcatProperties
<1>2. /\ Increasing(p) /\ Increasing(q \o r)
      /\ \A x \in Range(p), y \in Range(q) \cup Range(r) : x < y
  BY <1>1, IncreasingConcat
<1>3. Increasing(r)
  BY <1>2, IncreasingConcat
<1> QED
  BY <1>2, <1>3, IncreasingConcat

(* The first part of a concatenation.                                      *)
LEMMA PrefixOfConcat ==
  ASSUME NEW S, NEW s \in Seq(S), NEW t \in Seq(S)
  PROVE  SubSeq(s \o t, 1, Len(s)) = s /\ Len(s) \in 0..Len(s \o t)
<1> DEFINE r == s \o t
           n == Len(s)
           p == SubSeq(r, 1, n)
<1>1. /\ r \in Seq(S) /\ Len(r) = Len(s) + Len(t)
      /\ \A i \in 1..(Len(s) + Len(t)) : r[i] = IF i <= Len(s) THEN s[i] ELSE t[i - Len(s)]
  BY ConcatProperties
<1>2. n \in 0..Len(r) /\ \A i \in 1..n : r[i] = s[i]
  BY <1>1
<1> HIDE DEF r
<1>3. p \in Seq(S) /\ Len(p) = n /\ \A i \in 1..n : p[i] = r[i]
  BY <1>1, <1>2, PrefixProperties
<1> HIDE DEF p
<1>4. p = s
  BY <1>2, <1>3, SeqEqual
<1> QED
  BY <1>2, <1>4 DEF p, r

LEMMA FrontOfAppend ==
  ASSUME NEW S, NEW s \in Seq(S), NEW x \in S
  PROVE  SubSeq(Append(s, x), 1, Len(Append(s, x)) - 1) = s
<1> DEFINE t == <<x>>
           r == s \o t
<1>1. Append(s, x) = r /\ t \in Seq(S)
  BY AppendIsConcat
<1>2. Len(Append(s, x)) - 1 = Len(s)
  BY AppendProperties
<1>3. SubSeq(r, 1, Len(s)) = s
  <2> HIDE DEF t
  <2> QED
    BY <1>1, PrefixOfConcat
<1> QED
  BY <1>1, <1>2, <1>3

(* A sequence is one over the elements it has.                             *)
LEMMA ElementsInSeq ==
  ASSUME NEW S, NEW T, NEW s \in Seq(S), \A i \in 1..Len(s) : s[i] \in T
  PROVE  s \in Seq(T)
<1>1. Len(s) \in Nat /\ s \in [1..Len(s) -> S]
  BY LenProperties
<1>2. s \in [1..Len(s) -> T]
  BY <1>1
<1> QED
  BY <1>1, <1>2, SeqDef

LEMMA RangeInSeq ==
  ASSUME NEW S, NEW T, NEW s \in Seq(S), Range(s) \subseteq T
  PROVE  s \in Seq(T)
<1>1. Len(s) \in Nat /\ DOMAIN s = 1..Len(s) /\ \A i \in 1..Len(s) : s[i] \in T
  BY LenProperties DEF Range
<1> QED
  BY <1>1, ElementsInSeq

(* A sequence without an end that is defined by recursion exists.          *)
LEMMA EndlessRecursion ==
  ASSUME NEW S, NEW c \in S, NEW step \in [S -> S]
  PROVE  \E f \in [Nat -> S] : f[0] = c /\ \A n \in Nat : f[n + 1] = step[f[n]]
<1> DEFINE steps(n) == [i \in 0..n |-> step]
           Is(g, n) == IsRecursive(g, S, c, 0, n, steps(n))
           G(n) == CHOOSE g : Is(g, n)
           f == [n \in Nat |-> G(n)[n]]
<1>1. ASSUME NEW n \in Nat PROVE Is(G(n), n)
  <2>1. StepsIn(S, 0, n, steps(n))
    BY DEF StepsIn
  <2>2. 0 \in Int /\ n \in Int
    OBVIOUS
  <2> HIDE DEF steps
  <2>3. \E g : Is(g, n)
    BY <2>1, <2>2, Recursion
  <2> HIDE DEF Is
  <2> QED
    BY <2>3
<1> HIDE DEF G
<1>2. ASSUME NEW n \in Nat
      PROVE  /\ G(n) \in [0..n -> S] /\ G(n)[0] = c
             /\ \A i \in 0..(n - 1) : G(n)[i + 1] = step[G(n)[i]]
  <2>1. /\ G(n) \in [0..n -> S]
        /\ \A i \in 0..n : G(n)[i] = IF i = 0 THEN c ELSE steps(n)[i][G(n)[i - 1]]
    BY <1>1 DEF IsRecursive
  <2>2. G(n)[0] = c
    BY <2>1
  <2>3. ASSUME NEW i \in 0..(n - 1) PROVE G(n)[i + 1] = step[G(n)[i]]
    <3>1. i + 1 \in 0..n /\ i + 1 # 0 /\ (i + 1) - 1 = i
      OBVIOUS
    <3> QED
      BY <2>1, <3>1
  <2> QED
    BY <2>1, <2>2, <2>3
<1>3. ASSUME NEW n \in Nat PROVE \A i \in 0..n : G(n + 1)[i] = G(n)[i]
  <2> DEFINE P == {i \in 0..n : G(n + 1)[i] = G(n)[i]}
  <2>1. 0 \in P
    BY <1>2
  <2>2. ASSUME NEW k \in 0..(n - 1), k \in P PROVE k + 1 \in P
    <3>1. k \in 0..((n + 1) - 1) /\ k + 1 \in 0..n /\ n + 1 \in Nat
      OBVIOUS
    <3>2. G(n + 1)[k + 1] = step[G(n + 1)[k]] /\ G(n)[k + 1] = step[G(n)[k]]
      BY <1>2, <3>1
    <3> QED
      BY <2>2, <3>1, <3>2
  <2>3. 0 \in Int /\ n \in Int
    OBVIOUS
  <2> HIDE DEF P
  <2>4. 0..n \subseteq P
    BY <2>1, <2>2, <2>3, Induction
  <2> QED
    BY <2>4 DEF P
<1>4. f \in [Nat -> S] /\ f[0] = c
  BY <1>2
<1>5. ASSUME NEW n \in Nat PROVE f[n + 1] = step[f[n]]
  <2>1. n + 1 \in Nat /\ n \in 0..((n + 1) - 1) /\ n \in 0..n
    OBVIOUS
  <2>2. G(n + 1)[n + 1] = step[G(n + 1)[n]]
    BY <1>2, <2>1
  <2> QED
    BY <1>3, <2>1, <2>2
<1> QED
  BY <1>4, <1>5

(* A fold over sets of numbers, the greatest first, exists.                *)
LEMMA GreatestIs ==
  ASSUME NEW n \in Nat, NEW T \in SUBSET (1..n), T # {}
  PROVE  Max(T) \in T /\ \A i \in T : i <= Max(T)
<1> DEFINE U == {n - i : i \in T}
<1>1. U \subseteq Nat /\ U # {}
  <2>1. \A i \in T : n - i \in Nat
    OBVIOUS
  <2> QED
    BY <2>1
<1>2. PICK m \in U : \A k \in U : m <= k
  <2> HIDE DEF U
  <2> QED
    BY <1>1, LeastElement
<1>3. PICK x \in T : m = n - x
  OBVIOUS
<1>4. ASSUME NEW i \in T PROVE x >= i
  <2>1. n - i \in U
    OBVIOUS
  <2> QED
    BY <1>2, <1>3, <2>1
<1>5. \E y \in T : \A i \in T : y >= i
  BY <1>3, <1>4
<1>6. Max(T) \in T /\ \A i \in T : Max(T) >= i
  BY <1>5 DEF Max
<1> QED
  BY <1>6

GreatestFirst(g, n, S, c, step) ==
  /\ g \in [SUBSET (1..n) -> S]
  /\ \A T \in SUBSET (1..n) :
       g[T] = IF T = {} THEN c ELSE step[Max(T)][g[T \ {Max(T)}]]

LEMMA SetRecursion ==
  ASSUME NEW S, NEW c \in S, NEW n \in Nat, NEW step,
         \A i \in 1..n, s \in S : step[i][s] \in S
  PROVE  \E g : GreatestFirst(g, n, S, c, step)
<1> DEFINE F == [SUBSET (1..n) -> S]
           first == [T \in SUBSET (1..n) |-> c]
           Then(i, g) == [T \in SUBSET (1..n) |-> IF i \in T THEN step[i][g[T \ {i}]] ELSE g[T]]
           next == [i \in 0..n |-> [g \in F |-> IF i = 0 THEN g ELSE Then(i, g)]]
<1>1. ASSUME NEW i \in 1..n, NEW g \in F PROVE Then(i, g) \in F
  <2>1. \A T \in SUBSET (1..n) : T \ {i} \in SUBSET (1..n) /\ g[T] \in S
    OBVIOUS
  <2> QED
    BY <2>1
<1>2. StepsIn(F, 0, n, next)
  <2> SUFFICES ASSUME NEW i \in 0..n, NEW g \in F PROVE next[i][g] \in F
    BY DEF StepsIn
  <2>1. next[i][g] = IF i = 0 THEN g ELSE Then(i, g)
    OBVIOUS
  <2>2. i # 0 => i \in 1..n
    OBVIOUS
  <2> HIDE DEF F, Then, next
  <2> QED
    BY <1>1, <2>1, <2>2
<1>3. first \in F /\ 0 \in Int /\ n \in Int
  OBVIOUS
<1>4. PICK G : IsRecursive(G, F, first, 0, n, next)
  <2> HIDE DEF F, first, next
  <2> QED
    BY <1>2, <1>3, Recursion
<1>5. G[0] = first /\ \A i \in 1..n : G[i] = Then(i, G[i - 1])
  <2>1. /\ G \in [0..n -> F]
        /\ \A i \in 0..n : G[i] = IF i = 0 THEN first ELSE next[i][G[i - 1]]
    BY <1>4 DEF IsRecursive
  <2>2. ASSUME NEW i \in 1..n PROVE G[i] = Then(i, G[i - 1])
    <3>1. i \in 0..n /\ i # 0 /\ i - 1 \in 0..n
      OBVIOUS
    <3> HIDE DEF F, Then
    <3> QED
      BY <2>1, <3>1
  <2>3. G[0] = first
    <3>1. 0 \in 0..n
      OBVIOUS
    <3> HIDE DEF F, first, next
    <3> QED
      BY <2>1, <3>1
  <2> HIDE DEF F, first, next, Then
  <2> QED
    BY <2>2, <2>3
<1>6. \A i \in 0..n : G[i] \in F
  BY <1>4 DEF IsRecursive
<1> HIDE DEF next, first
<1>7. ASSUME NEW k \in 0..n
      PROVE  \A T \in SUBSET (1..k) : T \in SUBSET (1..n) /\ (T # {} => Max(T) \in T)
  <2> SUFFICES ASSUME NEW T \in SUBSET (1..k)
               PROVE  T \in SUBSET (1..n) /\ (T # {} => Max(T) \in T)
    OBVIOUS
  <2>1. T \in SUBSET (1..n)
    OBVIOUS
  <2>2. T # {} => Max(T) \in T
    BY <2>1, GreatestIs
  <2> QED
    BY <2>1, <2>2
(* From the greatest number of a set on its value no longer changes.       *)
<1> DEFINE Settled(i) == \A T \in SUBSET (1..i) : \A k \in i..n : G[k][T] = G[i][T]
<1>8. ASSUME NEW i \in 0..n PROVE Settled(i)
  <2> SUFFICES ASSUME NEW T \in SUBSET (1..i) PROVE \A k \in i..n : G[k][T] = G[i][T]
    OBVIOUS
  <2> DEFINE P == {k \in i..n : G[k][T] = G[i][T]}
  <2>1. i \in P
    OBVIOUS
  <2>2. ASSUME NEW k \in i..(n - 1), k \in P PROVE k + 1 \in P
    <3>1. k + 1 \in 1..n /\ k + 1 \in i..n /\ (k + 1) - 1 = k /\ k + 1 \notin T
          /\ T \in SUBSET (1..n)
      OBVIOUS
    <3>2. G[k + 1] = Then(k + 1, G[k])
      BY <1>5, <3>1
    <3>3. G[k + 1][T] = G[k][T]
      BY <3>1, <3>2
    <3> QED
      BY <2>2, <3>1, <3>3
  <2>3. i \in Int /\ n \in Int
    OBVIOUS
  <2> HIDE DEF P
  <2>4. i..n \subseteq P
    BY <2>1, <2>2, <2>3, Induction
  <2> QED
    BY <2>4 DEF P
<1> DEFINE g == G[n]
<1>9. g \in F
  <2>1. n \in 0..n
    OBVIOUS
  <2> HIDE DEF F
  <2> QED
    BY <1>6, <2>1
<1>10. ASSUME NEW T \in SUBSET (1..n)
       PROVE  g[T] = IF T = {} THEN c ELSE step[Max(T)][g[T \ {Max(T)}]]
  <2>1. CASE T = {}
    <3>1. {} \in SUBSET (1..0) /\ n \in 0..n /\ 0 \in 0..n
      OBVIOUS
    <3>2. g[{}] = G[0][{}]
      BY <1>8, <3>1
    <3> QED
      BY <1>5, <2>1, <3>2 DEF first
  <2>2. CASE T # {}
    <3> DEFINE x == Max(T)
               U == T \ {x}
    <3>1. x \in T /\ (\A i \in T : i <= x)
      BY <2>2, GreatestIs
    <3> HIDE DEF x
    <3>2. /\ x \in 1..n /\ x \in 0..n /\ x - 1 \in 0..n /\ n \in x..n /\ n \in (x - 1)..n
          /\ T \in SUBSET (1..x)
      BY <3>1
    <3>3. U \in SUBSET (1..(x - 1)) /\ U \in SUBSET (1..n)
      BY <3>1
    <3>4. g[T] = G[x][T]
      BY <1>8, <3>2
    <3>5. g[U] = G[x - 1][U]
      BY <1>8, <3>2, <3>3
    <3>6. G[x] = Then(x, G[x - 1])
      BY <1>5, <3>2
    <3>7. G[x][T] = step[x][G[x - 1][U]]
      BY <3>1, <3>6
    <3> QED
      BY <2>2, <3>4, <3>5, <3>7 DEF x
  <2> QED
    BY <2>1, <2>2
<1> QED
  BY <1>9, <1>10 DEF GreatestFirst
==============================================================================
