---------------------------- MODULE LoggingProofs ----------------------------
(***************************************************************************)
(* Proofs about the way of a log line as a whole: what the file gets of a  *)
(* buffer, for every buffer and every stream.                              *)
(***************************************************************************)
EXTENDS Logging, AsyncLoggingProofs

(* What a stream can take is a sum of what its calls take.                 *)
IsSum(f, taken) ==
  /\ f \in [0..MaxCalls -> Nat]
  /\ \A k \in 0..MaxCalls : f[k] = IF k = 0 THEN 0 ELSE f[k - 1] + taken[k]

LEMMA OffersAreSums == ASSUME NEW taken \in Streams PROVE IsSum(Offers(taken), taken)
<1> DEFINE M == MaxCalls
           Def(f) == f = [k \in 0..M |-> IF k = 0 THEN 0 ELSE f[k - 1] + taken[k]]
           sum == CHOOSE f : Def(f)
<1>1. M \in Nat \ {0} /\ taken \in [1..M -> Nat]
  BY AppendAssumption DEF Streams
<1>2. \E f : IsSum(f, taken)
  <2> DEFINE S == Nat
             c == 0
             m == 0
             step == [k \in 0..M |-> [s \in S |-> IF k = 0 THEN 0 ELSE s + taken[k]]]
  <2>1. StepsIn(S, m, M, step)
    BY <1>1 DEF StepsIn
  <2>2. c \in S /\ m \in Int /\ M \in Int
    BY <1>1
  <2> HIDE DEF S, c, m, step, M
  <2>3. PICK f : IsRecursive(f, S, c, m, M, step)
    BY <2>1, <2>2, Recursion
  <2> USE DEF S, c, m, step, M
  <2>4. f \in [0..M -> Nat]
    BY <2>3 DEF IsRecursive
  <2>5. ASSUME NEW k \in 0..M PROVE f[k] = IF k = 0 THEN 0 ELSE f[k - 1] + taken[k]
    <3>1. f[k] = IF k = 0 THEN 0 ELSE step[k][f[k - 1]]
      BY <2>3 DEF IsRecursive
    <3>2. CASE k # 0
      <4>1. k - 1 \in 0..M
        BY <1>1, <3>2
      <4> QED
        BY <2>4, <3>1, <3>2, <4>1
    <3> QED
      BY <3>1, <3>2
  <2> QED
    BY <2>4, <2>5 DEF IsSum
<1>3. \E f : Def(f)
  <2>1. PICK f : IsSum(f, taken)
    BY <1>2
  <2>2. f = [k \in 0..M |-> f[k]]
    BY <2>1 DEF IsSum
  <2> QED
    BY <2>1, <2>2 DEF IsSum
<1>4. Def(sum)
  <2> HIDE DEF Def
  <2> QED
    BY <1>3, Zenon
<1>5. Offers(taken) = sum
  BY DEF Offers
<1> HIDE DEF sum
<1>6. \A k \in 0..M : sum[k] = IF k = 0 THEN 0 ELSE sum[k - 1] + taken[k]
  BY <1>4
<1>7. 0..M \subseteq {k \in 0..M : sum[k] \in Nat}
  <2> DEFINE P == {k \in 0..M : sum[k] \in Nat}
             m == 0
  <2>1. m <= M => m \in P
    BY <1>1, <1>6
  <2>2. ASSUME NEW k \in m..(M - 1), k \in P PROVE k + 1 \in P
    <3>1. k + 1 \in 0..M /\ k + 1 # 0 /\ (k + 1) - 1 = k /\ taken[k + 1] \in Nat
      BY <1>1
    <3>2. sum[k + 1] = sum[k] + taken[k + 1]
      BY <1>6, <3>1
    <3> QED
      BY <2>2, <3>1, <3>2
  <2>3. m \in Int /\ M \in Int
    BY <1>1
  <2> HIDE DEF P, m, M
  <2>4. m..M \subseteq P
    BY <2>1, <2>2, <2>3, Induction
  <2> QED
    BY <2>4 DEF P, m
<1>8. sum \in [0..M -> Nat]
  BY <1>4, <1>7
<1> QED
  BY <1>5, <1>6, <1>8 DEF IsSum

(* The loop of append after its first write, one row for each call.        *)
IsLoop(f, logline, taken) ==
  /\ AppendToFile(logline, taken) =
       Chunk(logline, 0, write(taken, 1, Len(logline))) \o f[2][write(taken, 1, Len(logline))]
  /\ \A i \in 2..(MaxCalls + 1), n \in 0..Len(logline) :
       LET x == write(taken, i, Len(logline) - n)
       IN  f[i][n] = IF x = 0 THEN <<>> ELSE Chunk(logline, n, x) \o f[i + 1][n + x]

(* What a call takes is no more than it is given, and no more than it can. *)
LEMMA WriteTakes ==
  ASSUME NEW taken \in Streams, NEW i \in 1..(MaxCalls + 1), NEW len \in Nat
  PROVE  /\ write(taken, i, len) \in 0..len
         /\ i = MaxCalls + 1 => write(taken, i, len) = 0
         /\ i # MaxCalls + 1 =>
              /\ i \in 1..MaxCalls /\ taken[i] \in Nat
              /\ write(taken, i, len) = IF taken[i] < len THEN taken[i] ELSE len
<1>1. MaxCalls \in Nat \ {0} /\ taken \in [1..MaxCalls -> Nat]
  BY AppendAssumption DEF Streams
<1>2. CASE i = MaxCalls + 1
  BY <1>1, <1>2 DEF write
<1>3. CASE i # MaxCalls + 1
  <2>1. i \in 1..MaxCalls /\ ~(i > MaxCalls) /\ taken[i] \in Nat
    BY <1>1, <1>3
  <2> QED
    BY <1>3, <2>1 DEF write
<1> QED
  BY <1>2, <1>3

LEMMA ChunkType ==
  ASSUME NEW T, NEW logline \in Seq(T), NEW n \in 0..Len(logline), NEW x \in 0..(Len(logline) - n)
  PROVE  Chunk(logline, n, x) \in Seq(T)
<1>1. Len(logline) \in Nat /\ n + 1 \in 1..(Len(logline) + 1) /\ n + x <= Len(logline)
      /\ n + x \in Int
  BY LenProperties
<1> QED
  BY <1>1, SubSeqProperties DEF Chunk

LEMMA LoopExists ==
  ASSUME NEW T, NEW logline \in Seq(T), NEW taken \in Streams
  PROVE  \E f : IsLoop(f, logline, taken)
<1> DEFINE M == MaxCalls
           L == Len(logline)
           Row(i, row) == [n \in 0..L |->
                             LET x == write(taken, i, L - n)
                             IN  IF x = 0 THEN <<>> ELSE Chunk(logline, n, x) \o row[n + x]]
           Def(f) == f = [i \in 2..(M + 1) |-> Row(i, f[i + 1])]
           from == CHOOSE f : Def(f)
<1>1. M \in Nat \ {0} /\ L \in Nat
  BY AppendAssumption, LenProperties
<1>2. \E f : Def(f)
  <2> DEFINE S == [0..L -> Seq(T)]
             c == [n \in 0..L |-> <<>>]
             m == 0
             l == M - 1
             step == [j \in 0..(M - 1) |-> [row \in S |-> Row((M + 1) - j, row)]]
  <2>1. \A i \in 2..(M + 1), row \in S : Row(i, row) \in S
    <3> SUFFICES ASSUME NEW i \in 2..(M + 1), NEW row \in S, NEW n \in 0..L
                 PROVE  Row(i, row)[n] \in Seq(T)
      OBVIOUS
    <3> DEFINE x == write(taken, i, L - n)
    <3>1. L - n \in Nat /\ i \in 1..(M + 1)
      BY <1>1
    <3>2. x \in 0..(L - n)
      BY <3>1, WriteTakes
    <3>3. n + x \in 0..L
      BY <1>1, <3>2
    <3>4. Chunk(logline, n, x) \in Seq(T)
      <4> HIDE DEF x
      <4> QED
        BY <3>2, ChunkType
    <3>5. row[n + x] \in Seq(T)
      BY <3>3
    <3>6. Chunk(logline, n, x) \o row[n + x] \in Seq(T)
      BY <3>4, <3>5, ConcatProperties
    <3>7. Row(i, row)[n] = IF x = 0 THEN <<>> ELSE Chunk(logline, n, x) \o row[n + x]
      OBVIOUS
    <3> HIDE DEF Row, x
    <3> QED
      BY <3>6, <3>7, EmptySeq
  <2>2. c \in S /\ m \in Int /\ l \in Int
    BY <1>1, EmptySeq
  <2>3. StepsIn(S, m, l, step)
    <3> SUFFICES ASSUME NEW j \in 0..(M - 1), NEW row \in S PROVE step[j][row] \in S
      BY DEF StepsIn
    <3>1. (M + 1) - j \in 2..(M + 1)
      BY <1>1
    <3> HIDE DEF Row, S
    <3> QED
      BY <2>1, <3>1
  <2> HIDE DEF S, c, m, l, step
  <2>4. PICK rows : IsRecursive(rows, S, c, m, l, step)
    BY <2>2, <2>3, Recursion
  <2>5. /\ rows[0] = c
        /\ \A j \in 1..(M - 1) : rows[j] = Row((M + 1) - j, rows[j - 1])
    <3>1. rows \in [0..(M - 1) -> S]
      BY <2>4 DEF IsRecursive, m, l
    <3>2. rows[0] = c
      BY <1>1, <2>4 DEF IsRecursive, m, l
    <3>3. ASSUME NEW j \in 1..(M - 1) PROVE rows[j] = Row((M + 1) - j, rows[j - 1])
      <4>1. j \in 0..(M - 1) /\ j # 0 /\ j - 1 \in 0..(M - 1)
        BY <1>1
      <4>2. rows[j] = step[j][rows[j - 1]]
        BY <2>4, <4>1 DEF IsRecursive, m, l
      <4>3. rows[j - 1] \in S
        BY <3>1, <4>1
      <4> HIDE DEF Row
      <4> QED
        BY <4>1, <4>2, <4>3 DEF step
    <3> QED
      BY <3>2, <3>3
  <2> DEFINE g == [i \in 2..(M + 1) |-> rows[(M + 1) - i]]
  <2>6. ASSUME NEW i \in 2..(M + 1) PROVE g[i] = Row(i, g[i + 1])
    <3>1. CASE i = M + 1
      <4>1. g[i] = c
        BY <1>1, <2>5, <3>1
      <4>2. \A n \in 0..L : write(taken, i, L - n) = 0
        <5>1. \A n \in 0..L : L - n \in Nat
          BY <1>1
        <5>2. i \in 1..(MaxCalls + 1)
          BY <1>1
        <5> QED
          BY <3>1, <5>1, <5>2, WriteTakes
      <4> HIDE DEF g
      <4>3. Row(i, g[i + 1]) = [n \in 0..L |-> <<>>]
        BY <4>2
      <4> QED
        BY <4>1, <4>3 DEF c
    <3>2. CASE i # M + 1
      <4> DEFINE j == (M + 1) - i
      <4>1. j \in 1..(M - 1) /\ (M + 1) - j = i /\ i + 1 \in 2..(M + 1) /\ (M + 1) - (i + 1) = j - 1
        BY <1>1, <3>2
      <4>2. g[i] = rows[j] /\ g[i + 1] = rows[j - 1]
        BY <4>1
      <4> HIDE DEF Row, g, j
      <4> QED
        BY <2>5, <4>1, <4>2
    <3> QED
      BY <3>1, <3>2
  <2> HIDE DEF Row
  <2>7. Def(g)
    BY <2>6
  <2> QED
    BY <2>7
<1>3. Def(from)
  <2> HIDE DEF Def
  <2> QED
    BY <1>2, Zenon
<1>4. AppendToFile(logline, taken) = Chunk(logline, 0, write(taken, 1, L)) \o from[2][write(taken, 1, L)]
  BY DEF AppendToFile
<1> HIDE DEF from
<1>5. ASSUME NEW i \in 2..(M + 1), NEW n \in 0..L
      PROVE  LET x == write(taken, i, L - n)
             IN  from[i][n] = IF x = 0 THEN <<>> ELSE Chunk(logline, n, x) \o from[i + 1][n + x]
  <2>1. from[i] = Row(i, from[i + 1])
    <3> HIDE DEF Row
    <3> QED
      BY <1>3
  <2> QED
    BY <2>1
<1> QED
  BY <1>4, <1>5 DEF IsLoop
------------------------------------------------------------------------------
(* Every stream refuses in the end, and refuses whatever it is given.      *)
LEMMA FirstRefusalExists ==
  ASSUME NEW taken \in Streams
  PROVE  \E i \in 2..(MaxCalls + 1) : FirstRefusal(taken, i)
<1> DEFINE R == {i \in 2..(MaxCalls + 1) : Refuses(taken, i)}
<1>1. MaxCalls \in Nat \ {0}
  BY AppendAssumption
<1>2. MaxCalls + 1 \in R
  BY <1>1 DEF Refuses, write
<1>3. R \subseteq Nat /\ R # {}
  BY <1>1, <1>2
<1>4. PICK i \in R : \A j \in R : i <= j
  <2> HIDE DEF R
  <2> QED
    BY <1>3, LeastElement
<1>5. ASSUME NEW j \in 2..(i - 1) PROVE ~Refuses(taken, j)
  <2>1. i \in 2..(MaxCalls + 1)
    BY <1>4
  <2>2. j \in 2..(MaxCalls + 1) /\ ~(i <= j)
    BY <1>1, <2>1
  <2> QED
    BY <1>4, <2>2
<1> QED
  BY <1>4, <1>5 DEF FirstRefusal

LEMMA RefusalIsSilence ==
  ASSUME NEW taken \in Streams, NEW i \in 2..(MaxCalls + 1)
  PROVE  /\ Refuses(taken, i) => \A len \in Nat : write(taken, i, len) = 0
         /\ ~Refuses(taken, i) => /\ i \in 1..MaxCalls
                                 /\ taken[i] \in Nat \ {0}
                                 /\ \A len \in Nat :
                                      write(taken, i, len) = IF taken[i] < len THEN taken[i] ELSE len
<1>1. i \in 1..(MaxCalls + 1) /\ 1 \in Nat
  BY AppendAssumption
<1> QED
  BY <1>1, WriteTakes DEF Refuses

Smaller(a, b) == IF a < b THEN a ELSE b

(* How far the loop gets is the same after a call as before it, also when  *)
(* the call takes the last of the text.                                    *)
AsFar(L, n, x, rest, t) == Smaller(L, (n + x) + (rest - t)) = Smaller(L, n + rest)

LEMMA SmallerAfterCall ==
  ASSUME NEW L \in Nat, NEW n \in 0..L, NEW t \in Nat, NEW rest \in Nat,
         t <= rest, NEW x, x = IF t < L - n THEN t ELSE L - n
  PROVE  AsFar(L, n, x, rest, t) /\ Smaller(L, n + rest) \in (n + x)..L
<1> USE DEF Smaller, AsFar
<1>1. CASE t < L - n
  OBVIOUS
<1>2. CASE ~(t < L - n)
  <2>1. n + x = L
    BY <1>2
  <2>2. ~(n + rest < L)
    BY <1>2
  <2>3. Smaller(L, n + rest) = L
    BY <2>2
  <2>4. Smaller(L, L + (rest - t)) = L
    BY <1>2
  <2> QED
    BY <2>1, <2>3, <2>4
<1> QED
  BY <1>1, <1>2

(* The loop, from its i-th call on, writes what the stream takes in the    *)
(* calls before the first refusal, or the rest of the text.                *)
LEMMA LoopTakes ==
  ASSUME NEW T, NEW logline \in Seq(T), NEW taken \in Streams,
         NEW f, IsLoop(f, logline, taken), NEW sum, IsSum(sum, taken),
         NEW stop \in 2..(MaxCalls + 1), FirstRefusal(taken, stop)
  PROVE  \A i \in 2..stop, n \in 0..Len(logline) :
           /\ sum[i - 1] <= sum[stop - 1]
           /\ f[i][n] = SubSeq(logline, n + 1,
                               Smaller(Len(logline), n + (sum[stop - 1] - sum[i - 1])))
<1> DEFINE M == MaxCalls
           L == Len(logline)
           total == sum[stop - 1]
           Good(i) == /\ sum[i - 1] <= total
                      /\ \A n \in 0..L :
                           f[i][n] = SubSeq(logline, n + 1, Smaller(L, n + (total - sum[i - 1])))
           P == {d \in Nat : Good(stop - d)}
           m == 0
           l == stop - 2
<1>1. M \in Nat \ {0} /\ L \in Nat
  BY AppendAssumption, LenProperties
<1>2. sum \in [0..M -> Nat] /\ total \in Nat
  BY <1>1 DEF IsSum
<1>3. m \in P
  <2>1. stop - m = stop /\ stop \in 2..(M + 1)
    BY <1>1
  <2>2. ASSUME NEW n \in 0..L
        PROVE  f[stop][n] = SubSeq(logline, n + 1, Smaller(L, n + (total - total)))
    <3>1. L - n \in Nat
      BY <1>1
    <3>2. write(taken, stop, L - n) = 0
      BY <3>1, RefusalIsSilence DEF FirstRefusal
    <3>3. f[stop][n] = <<>>
      BY <2>1, <3>2 DEF IsLoop
    <3>4. Smaller(L, n + (total - total)) = n
      BY <1>1, <1>2 DEF Smaller
    <3>5. SubSeq(logline, n + 1, n) = <<>>
      BY SubSeqEmpty
    <3> QED
      BY <3>3, <3>4, <3>5
  <2> QED
    BY <1>2, <2>1, <2>2
<1>4. ASSUME NEW d \in m..(l - 1), d \in P PROVE d + 1 \in P
  <2> DEFINE i == stop - (d + 1)
  <2>1. i \in 2..(stop - 1) /\ i + 1 = stop - d /\ i \in 2..(M + 1) /\ (i + 1) - 1 = i
        /\ d + 1 \in Nat
    BY <1>1
  <2>2. /\ i \in 1..M /\ taken[i] \in Nat \ {0}
        /\ \A len \in Nat : write(taken, i, len) = IF taken[i] < len THEN taken[i] ELSE len
    <3>1. ~Refuses(taken, i)
      BY <2>1 DEF FirstRefusal
    <3> HIDE DEF i
    <3> QED
      BY <2>1, <3>1, RefusalIsSilence
  <2>3. sum[i] = sum[i - 1] + taken[i] /\ sum[i] \in Nat /\ sum[i - 1] \in Nat
    <3>1. i \in 0..M /\ i # 0 /\ i - 1 \in 0..M
      BY <1>1, <2>2
    <3> HIDE DEF i
    <3> QED
      BY <1>2, <3>1 DEF IsSum
  <2>4. Good(i + 1)
    BY <1>4, <2>1
  <2> HIDE DEF i
  <2>5. sum[i] <= total /\ sum[i - 1] <= total
    BY <1>2, <2>1, <2>2, <2>3, <2>4
  <2>6. ASSUME NEW n \in 0..L
        PROVE  f[i][n] = SubSeq(logline, n + 1, Smaller(L, n + (total - sum[i - 1])))
    <3> DEFINE x == write(taken, i, L - n)
               e == Smaller(L, n + (total - sum[i - 1]))
    <3>1. L - n \in Nat
      BY <1>1
    <3>2. x = IF taken[i] < L - n THEN taken[i] ELSE L - n
      BY <2>2, <3>1
    <3>3. f[i][n] = IF x = 0 THEN <<>> ELSE Chunk(logline, n, x) \o f[i + 1][n + x]
      BY <2>1 DEF IsLoop
    <3> HIDE DEF x
    <3>4. CASE x = 0
      <4>1. e = n
        <5> DEFINE t == taken[i]
                   rest == total - sum[i - 1]
        <5>1. t \in Nat \ {0} /\ n = L
          BY <1>1, <2>2, <3>1, <3>2, <3>4
        <5>2. rest \in Nat
          BY <1>2, <2>2, <2>3, <2>5
        <5>3. e = Smaller(L, n + rest)
          OBVIOUS
        <5> HIDE DEF rest, e
        <5> QED
          BY <1>1, <5>1, <5>2, <5>3 DEF Smaller
      <4>2. SubSeq(logline, n + 1, n) = <<>>
        BY SubSeqEmpty
      <4> QED
        BY <3>3, <3>4, <4>1, <4>2
    <3>5. CASE x # 0
      <4>1. n + x \in 0..L /\ x \in Nat
        BY <1>1, <2>2, <3>2
      <4>2. f[i + 1][n + x] =
              SubSeq(logline, (n + x) + 1, Smaller(L, (n + x) + (total - sum[i])))
        BY <2>1, <2>4, <4>1
      <4>3. Smaller(L, (n + x) + (total - sum[i])) = e /\ e \in (n + x)..L
        <5> DEFINE t == taken[i]
                   rest == total - sum[i - 1]
        <5>1. t \in Nat /\ rest \in Nat /\ t <= rest /\ total - sum[i] = rest - t
          BY <1>2, <2>2, <2>3, <2>5, SMTT(20)
        <5>3. x = IF t < L - n THEN t ELSE L - n
          BY <3>2
        <5> HIDE DEF total, t, rest, L
        <5>2. AsFar(L, n, x, rest, t) /\ Smaller(L, n + rest) \in (n + x)..L
          BY <1>1, <5>1, <5>3, SmallerAfterCall
        <5> QED
          BY <5>1, <5>2 DEF AsFar, rest
      <4> HIDE DEF e
      <4>4. SubSeq(logline, n + 1, n + x) \o SubSeq(logline, (n + x) + 1, e) = SubSeq(logline, n + 1, e)
        <5>1. n + 1 \in 1..(Len(logline) + 1) /\ n + x \in ((n + 1) - 1)..Len(logline)
              /\ e \in (n + x)..Len(logline)
          BY <1>1, <4>1, <4>3
        <5> QED
          BY <5>1, ConcatAdjacentSubSeq
      <4> QED
        BY <3>3, <3>5, <4>2, <4>3, <4>4 DEF Chunk, e
    <3> QED
      BY <3>4, <3>5
  <2> QED
    BY <2>1, <2>5, <2>6 DEF i
<1>5. m..l \subseteq P
  <2>1. m \in Int /\ l \in Int
    BY <1>1
  <2> HIDE DEF P, m, l
  <2> QED
    BY <1>3, <1>4, <2>1, Induction
<1> SUFFICES ASSUME NEW i \in 2..stop PROVE Good(i)
  OBVIOUS
<1>6. stop - i \in m..l /\ stop - (stop - i) = i
  BY <1>1
<1> QED
  BY <1>5, <1>6

(* AppendFile::append: whatever the text, and whatever the stream takes in *)
(* each call, the file gets the text from its beginning on, and all of it  *)
(* or as much as the stream takes before its first refusal.                *)
THEOREM AppendIsOrderly ==
  ASSUME NEW T, NEW logline \in Seq(T), NEW taken \in Streams
  PROVE  AppendsInOrder(logline, taken)
<1> DEFINE L == Len(logline)
           sum == Offers(taken)
           first == write(taken, 1, L)
<1>1. MaxCalls \in Nat \ {0} /\ L \in Nat
  BY AppendAssumption, LenProperties
<1>2. PICK f : IsLoop(f, logline, taken)
  BY LoopExists
<1>3. PICK stop \in 2..(MaxCalls + 1) : FirstRefusal(taken, stop)
  BY FirstRefusalExists
<1>4. IsSum(sum, taken)
  BY OffersAreSums
<1> HIDE DEF sum
<1>5. /\ sum[1] = taken[1] /\ taken[1] \in Nat
      /\ sum[stop - 1] \in Nat
  <2>1. 1 \in 0..MaxCalls /\ 0 \in 0..MaxCalls /\ 1 # 0 /\ 1 - 1 = 0 /\ stop - 1 \in 0..MaxCalls
    BY <1>1
  <2>2. taken[1] \in Nat
    BY <1>1, AppendAssumption DEF Streams
  <2>3. sum[0] = 0 /\ sum[1] = sum[0] + taken[1] /\ sum[stop - 1] \in Nat
    BY <1>4, <2>1 DEF IsSum
  <2> QED
    BY <2>2, <2>3
<1>6. first = (IF taken[1] < L THEN taken[1] ELSE L) /\ first \in 0..L
  <2>1. 1 \in 1..(MaxCalls + 1) /\ 1 # MaxCalls + 1
    BY <1>1
  <2> QED
    BY <1>1, <1>5, <2>1, WriteTakes
<1> HIDE DEF first
<1> DEFINE e == Smaller(L, first + (sum[stop - 1] - sum[1]))
<1>7. sum[1] <= sum[stop - 1] /\ f[2][first] = SubSeq(logline, first + 1, e)
  <2>1. 2 \in 2..stop /\ 2 - 1 = 1
    BY <1>1
  <2>2. \A i \in 2..stop, n \in 0..Len(logline) :
           /\ sum[i - 1] <= sum[stop - 1]
           /\ f[i][n] = SubSeq(logline, n + 1,
                               Smaller(Len(logline), n + (sum[stop - 1] - sum[i - 1])))
    BY <1>2, <1>3, <1>4, LoopTakes
  <2> QED
    BY <1>6, <2>1, <2>2
<1>8. e = (IF sum[stop - 1] < L THEN sum[stop - 1] ELSE L) /\ e \in first..L
  <2> DEFINE total == sum[stop - 1]
             t == taken[1]
  <2>1. total \in Nat /\ t \in Nat /\ t <= total /\ sum[1] = t
    BY <1>5, <1>7
  <2> HIDE DEF total, t
  <2>2. CASE t < L
    BY <1>1, <1>6, <2>1, <2>2 DEF Smaller, total, t
  <2>3. CASE ~(t < L)
    BY <1>1, <1>6, <2>1, <2>3 DEF Smaller, total, t
  <2> QED
    BY <2>2, <2>3
<1> HIDE DEF e
<1>9. AppendToFile(logline, taken) = SubSeq(logline, 1, first) \o SubSeq(logline, first + 1, e)
  <2>1. 0 + 1 = 1 /\ 0 + first = first
    BY <1>6
  <2> QED
    BY <1>2, <1>7, <2>1 DEF IsLoop, Chunk, first
<1>10. SubSeq(logline, 1, first) \o SubSeq(logline, first + 1, e) = SubSeq(logline, 1, e)
  <2>1. 1 \in 1..(Len(logline) + 1) /\ first \in (1 - 1)..Len(logline) /\ e \in first..Len(logline)
    BY <1>1, <1>6, <1>8
  <2> QED
    BY <2>1, ConcatAdjacentSubSeq
<1> QED
  BY <1>3, <1>8, <1>9, <1>10 DEF AppendsInOrder, sum

------------------------------------------------------------------------------
(* The text of a buffer is a sequence of bytes.                            *)
LEMMA BytesType ==
  ASSUME NEW lines \in Seq(Nat)
  PROVE  Bytes(lines) \in Seq(Nat \X {"head", "tail"})
<1> DEFINE T == Nat \X {"head", "tail"}
           ss == [i \in DOMAIN lines |-> <<<<lines[i], "head">>, <<lines[i], "tail">>>>]
<1>1. ASSUME NEW n \in Nat PROVE <<<<n, "head">>, <<n, "tail">>>> \in Seq(T)
  <2> DEFINE head == <<n, "head">>
             tail == <<n, "tail">>
  <2>1. head \in T /\ tail \in T
    BY Zenon
  <2> HIDE DEF T, head, tail
  <2>2. <<head, tail>> \in Seq(T)
    BY <2>1
  <2> QED
    BY <2>2 DEF head, tail
<1>2. ss \in Seq(Seq(T))
  <2>1. DOMAIN lines = 1..Len(lines) /\ Len(lines) \in Nat
    BY LenProperties
  <2>2. \A i \in 1..Len(lines) : lines[i] \in Nat
    BY ElementOfSeq
  <2> DEFINE pair(n) == <<<<n, "head">>, <<n, "tail">>>>
  <2>3. \A i \in 1..Len(lines) : pair(lines[i]) \in Seq(T)
    BY <1>1, <2>2
  <2> HIDE DEF T, pair
  <2>4. [i \in 1..Len(lines) |-> pair(lines[i])] \in Seq(Seq(T))
    <3> DEFINE g == [i \in 1..Len(lines) |-> pair(lines[i])]
    <3>1. g \in [1..Len(lines) -> Seq(T)]
      BY <2>3
    <3> HIDE DEF g
    <3>2. g \in Seq(Seq(T))
      BY <2>1, <3>1
    <3> QED
      BY <3>2 DEF g
  <2> QED
    BY <2>1, <2>4 DEF pair
<1> HIDE DEF T, ss
<1>3. FlattenSeq(ss) \in Seq(T)
  BY <1>2, FlattenType
<1> QED
  BY <1>3 DEF Bytes, T, ss

(* Whatever the backend is about to write, and whatever the stream takes   *)
(* in each call, the file gets the buffer in order.                        *)
THEOREM BuffersReachFile == Spec => []FileGetsBuffer
<1>1. IInv => FileGetsBuffer
  <2> SUFFICES ASSUME IInv, backendPc = "write", MoreToWrite, NEW taken \in Streams
               PROVE  AppendsInOrder(Bytes(content[buffersToWrite[written + 1]]), taken)
    BY DEF FileGetsBuffer
  <2>1. buffersToWrite[written + 1] \in Buffers
    BY DEF IInv, TypeOK, MoreToWrite
  <2>2. content[buffersToWrite[written + 1]] \in Seq(Nat)
    BY <2>1 DEF IInv, TypeOK
  <2> QED
    BY <2>2, BytesType, AppendIsOrderly
<1> QED
  BY <1>1, Inductive, PTL

------------------------------------------------------------------------------
(* Converting an integer.                                                  *)

(* The digit characters; Worth is what one stands for.                     *)
Digits == {"0", "1", "2", "3", "4", "5", "6", "7", "8", "9"}
Worth(d) == (CHOOSE k \in zero..Len(digits) : digits[k] = d) - zero

LEMMA DigitOf ==
  ASSUME NEW r \in 0..9
  PROVE  /\ digits[zero + r] \in Digits /\ digits[zero - r] = digits[zero + r]
         /\ r # 0 => digits[zero + r] # "0"
         /\ Worth(digits[zero + r]) = r
<1>1. r = 0 \/ r = 1 \/ r = 2 \/ r = 3 \/ r = 4 \/ r = 5 \/ r = 6 \/ r = 7 \/ r = 8 \/ r = 9
  OBVIOUS
<1>2. digits[zero + r] \in Digits /\ digits[zero - r] = digits[zero + r]
  BY <1>1 DEF digits, zero, Digits
<1>3. r # 0 => digits[zero + r] # "0"
  BY <1>1 DEF digits, zero
<1>4. ASSUME NEW q \in 0..9, digits[zero + q] = digits[zero + r] PROVE q = r
  <2>1. q = 0 \/ q = 1 \/ q = 2 \/ q = 3 \/ q = 4 \/ q = 5 \/ q = 6 \/ q = 7 \/ q = 8 \/ q = 9
    OBVIOUS
  <2> QED
    BY <1>1, <1>4, <2>1 DEF digits, zero
<1>5. Len(digits) = 19 /\ zero = 10
  BY DEF digits, zero
<1> DEFINE k == CHOOSE x \in zero..Len(digits) : digits[x] = digits[zero + r]
<1>6. k \in zero..Len(digits) /\ digits[k] = digits[zero + r]
  <2>1. zero + r \in zero..Len(digits)
    BY <1>5
  <2> QED
    BY <2>1
<1> HIDE DEF k
<1>7. k - zero \in 0..9 /\ zero + (k - zero) = k
  BY <1>5, <1>6
<1>8. k - zero = r
  BY <1>4, <1>6, <1>7
<1>9. Worth(digits[zero + r]) = r
  BY <1>8 DEF Worth, k
<1> QED
  BY <1>2, <1>3, <1>9

(* What C++'s / and % give.                                                *)
LEMMA QuotientIs ==
  ASSUME NEW i \in Int
  PROVE  /\ Quotient(i) \in Int /\ Remainder(i) \in Int
         /\ i = 10 * Quotient(i) + Remainder(i)
         /\ i >= 0 => Remainder(i) \in 0..9 /\ Quotient(i) >= 0 /\ Quotient(i) <= i
         /\ i <= 0 => -Remainder(i) \in 0..9 /\ Quotient(i) <= 0 /\ Quotient(i) >= i
         /\ i # 0 => Quotient(i) # i
  BY DEF Quotient, Remainder

Near(n) == (-n)..n

LEMMA QuotientNearer ==
  ASSUME NEW j \in Int, NEW n \in Nat
  PROVE  /\ j \in Near(n) => Quotient(j) \in Near(n)
         /\ j \in Near(n + 1) /\ Quotient(j) # 0 => Quotient(j) \in Near(n)
         /\ j \in Near(0) => j = 0 /\ Quotient(j) = 0
<1> DEFINE q == Quotient(j)
<1>1. /\ q \in Int /\ (j >= 0 => 0 <= q /\ q <= j) /\ (j <= 0 => q <= 0 /\ j <= q)
      /\ (j # 0 => q # j)
  BY QuotientIs
<1> HIDE DEF q
<1> QED
  BY <1>1 DEF Near, q

LastDigit(j) == digits[zero + Remainder(j)]

LEMMA LastDigitIs ==
  ASSUME NEW j \in Int
  PROVE  /\ LastDigit(j) \in Digits
         /\ j >= 0 => Worth(LastDigit(j)) = Remainder(j)
         /\ j <= 0 => Worth(LastDigit(j)) = -Remainder(j)
         /\ Quotient(j) = 0 /\ j # 0 => LastDigit(j) # "0"
<1>1. CASE j >= 0
  <2>1. Remainder(j) \in 0..9
    BY <1>1, QuotientIs
  <2>2. j = 10 * Quotient(j) + Remainder(j) /\ Quotient(j) \in Int
    BY QuotientIs
  <2>3. j <= 0 => Remainder(j) = 0
    BY <1>1, <2>1, QuotientIs
  <2> QED
    BY <2>1, <2>2, <2>3, DigitOf DEF LastDigit
<1>2. CASE j < 0
  <2>1. -Remainder(j) \in 0..9 /\ Remainder(j) \in Int
    BY <1>2, QuotientIs
  <2>2. j = 10 * Quotient(j) + Remainder(j) /\ Quotient(j) \in Int
    BY QuotientIs
  <2>3. zero + Remainder(j) = zero - (-Remainder(j))
    BY <2>1 DEF zero
  <2> DEFINE r == -Remainder(j)
  <2>4. LastDigit(j) = digits[zero + r] /\ r \in 0..9
    BY <2>1, <2>3, DigitOf DEF LastDigit
  <2>5. Quotient(j) = 0 => r # 0
    BY <1>2, <2>1, <2>2
  <2> HIDE DEF r
  <2>6. /\ digits[zero + r] \in Digits /\ Worth(digits[zero + r]) = r
        /\ r # 0 => digits[zero + r] # "0"
    BY <2>4, DigitOf
  <2> QED
    BY <1>2, <2>4, <2>5, <2>6 DEF r
<1> QED
  BY <1>1, <1>2

LEMMA WrittenIs ==
  /\ Written \in [Int -> Seq(Digits)]
  /\ \A j \in Int : Written[j] = <<LastDigit(j)>>
                      \o (IF Quotient(j) = 0 THEN <<>> ELSE Written[Quotient(j)])
<1> DEFINE S == [Int -> Seq(Digits)]
           After(g) == [j \in Int |-> <<LastDigit(j)>>
                                        \o (IF Quotient(j) = 0 THEN <<>> ELSE g[Quotient(j)])]
           step == [g \in S |-> After(g)]
           c == [j \in Int |-> <<LastDigit(j)>>]
<1>1. ASSUME NEW j \in Int PROVE <<LastDigit(j)>> \in Seq(Digits)
  BY LastDigitIs
<1>2. ASSUME NEW g \in S PROVE After(g) \in S
  <2> SUFFICES ASSUME NEW j \in Int
               PROVE  <<LastDigit(j)>> \o (IF Quotient(j) = 0 THEN <<>> ELSE g[Quotient(j)])
                        \in Seq(Digits)
    OBVIOUS
  <2>1. (IF Quotient(j) = 0 THEN <<>> ELSE g[Quotient(j)]) \in Seq(Digits)
    BY QuotientIs, EmptySeq
  <2> QED
    BY <1>1, <2>1, ConcatProperties
<1>3. c \in S /\ step \in [S -> S]
  <2>1. c \in S
    BY <1>1
  <2> HIDE DEF S, After
  <2> QED
    BY <1>2, <2>1
<1>4. PICK G \in [Nat -> S] : G[0] = c /\ \A n \in Nat : G[n + 1] = After(G[n])
  <2> HIDE DEF S, c, After
  <2>1. PICK f \in [Nat -> S] : f[0] = c /\ \A n \in Nat : f[n + 1] = step[f[n]]
    <3> HIDE DEF step
    <3> QED
      BY <1>3, EndlessRecursion
  <2> QED
    BY <2>1
<1>5. ASSUME NEW n \in Nat, NEW j \in Near(n) PROVE j \in Int
  BY DEF Near
(* Within n of 0 the n-th step has settled the value.                      *)
<1> DEFINE P == {n \in Nat : \A j \in Near(n) : G[n + 1][j] = G[n][j]}
<1>6. ASSUME NEW n \in Nat, NEW j \in Int
      PROVE  G[n + 1][j] = <<LastDigit(j)>>
                             \o (IF Quotient(j) = 0 THEN <<>> ELSE G[n][Quotient(j)])
  BY <1>4
<1>7. ASSUME NEW n \in Nat PROVE n \in P
  <2>1. 0 \in P
    <3>1. ASSUME NEW j \in Near(0) PROVE G[1][j] = G[0][j]
      <4>1. j = 0 /\ j \in Int /\ Quotient(j) = 0
        BY <1>5, QuotientNearer
      <4>2. G[0 + 1][j] = <<LastDigit(j)>> \o <<>>
        BY <1>6, <4>1
      <4>3. G[0][j] = <<LastDigit(j)>>
        BY <1>4, <4>1
      <4>4. <<LastDigit(j)>> \o <<>> = <<LastDigit(j)>>
        BY <1>1, <4>1, ConcatEmptySeq
      <4>5. 0 + 1 = 1
        OBVIOUS
      <4> QED
        BY <4>2, <4>3, <4>4, <4>5
    <3>2. 0 \in Nat /\ 0 + 1 = 1
      OBVIOUS
    <3> QED
      BY <3>1, <3>2
  <2>2. ASSUME NEW k \in 0..(n - 1), k \in P PROVE k + 1 \in P
    <3>1. k \in Nat /\ k + 1 \in Nat
      OBVIOUS
    <3>2. ASSUME NEW j \in Near(k + 1) PROVE G[(k + 1) + 1][j] = G[k + 1][j]
      <4>1. j \in Int
        BY <1>5, <3>1
      <4>2. Quotient(j) # 0 => G[k + 1][Quotient(j)] = G[k][Quotient(j)]
        BY <2>2, <3>1, <4>1, QuotientNearer
      <4> HIDE DEF P
      <4> QED
        BY <1>6, <3>1, <4>1, <4>2
    <3> QED
      BY <3>1, <3>2
  <2>3. 0 \in Int /\ n \in Int
    OBVIOUS
  <2> HIDE DEF P
  <2>4. 0..n \subseteq P
    BY <2>1, <2>2, <2>3, Induction
  <2> QED
    BY <2>4
<1>8. ASSUME NEW m \in Nat, NEW n \in Nat, m <= n, NEW j \in Near(m) PROVE G[n][j] = G[m][j]
  <2> DEFINE R == {k \in m..n : G[k][j] = G[m][j]}
  <2>1. m \in R
    BY <1>8
  <2>2. ASSUME NEW k \in m..(n - 1), k \in R PROVE k + 1 \in R
    <3>1. k \in Nat /\ j \in Near(k) /\ k + 1 \in m..n
      BY DEF Near
    <3>2. G[k + 1][j] = G[k][j]
      BY <1>7, <3>1
    <3> QED
      BY <2>2, <3>1, <3>2
  <2>3. m \in Int /\ n \in Int
    OBVIOUS
  <2> HIDE DEF R
  <2>4. m..n \subseteq R
    BY <2>1, <2>2, <2>3, Induction
  <2>5. n \in m..n
    BY <1>8
  <2> QED
    BY <2>4, <2>5 DEF R
<1> DEFINE abs(j) == IF j < 0 THEN -j ELSE j
           F == [j \in Int |-> G[abs(j)][j]]
<1>9. ASSUME NEW j \in Int PROVE abs(j) \in Nat /\ j \in Near(abs(j)) /\ \A n \in Nat : j \in Near(n) => abs(j) <= n
  BY DEF Near
<1> HIDE DEF P
<1>10. F \in S
  <2>1. \A j \in Int : G[abs(j)] \in S
    <3> HIDE DEF S, abs
    <3> QED
      BY <1>9
  <2> HIDE DEF abs
  <2> QED
    BY <2>1
<1>11. ASSUME NEW j \in Int
       PROVE  F[j] = <<LastDigit(j)>> \o (IF Quotient(j) = 0 THEN <<>> ELSE F[Quotient(j)])
  <2> DEFINE n == abs(j)
             q == Quotient(j)
  <2>1. F[j] = G[n][j] /\ n \in Nat /\ j \in Near(n) /\ n + 1 \in Nat /\ n <= n + 1
    <3> HIDE DEF abs
    <3>1. n \in Nat /\ j \in Near(n)
      BY <1>9
    <3>2. F[j] = G[n][j]
      OBVIOUS
    <3> HIDE DEF F, n
    <3>3. n + 1 \in Nat /\ n <= n + 1
      BY <3>1
    <3> QED
      BY <3>1, <3>2, <3>3
  <2>2. G[n + 1][j] = G[n][j]
    <3> HIDE DEF abs, F
    <3> QED
      BY <1>8, <2>1
  <2>3. q # 0 => F[q] = G[n][q]
    <3> SUFFICES ASSUME q # 0 PROVE F[q] = G[n][q]
      OBVIOUS
    <3>1. q \in Int
      BY QuotientIs
    <3>2. q \in Near(n)
      BY <2>1, QuotientNearer
    <3> HIDE DEF q, abs
    <3>3. F[q] = G[abs(q)][q]
      BY <3>1
    <3>4. abs(q) \in Nat /\ q \in Near(abs(q)) /\ abs(q) <= n
      BY <1>9, <2>1, <3>1, <3>2
    <3> HIDE DEF F
    <3> QED
      BY <1>8, <2>1, <3>3, <3>4
  <2> HIDE DEF F, abs
  <2>4. G[n + 1][j] = <<LastDigit(j)>> \o (IF q = 0 THEN <<>> ELSE G[n][q])
    BY <1>6, <2>1
  <2> HIDE DEF n
  <2> QED
    BY <2>1, <2>2, <2>3, <2>4
<1> DEFINE Def(f) == f = [j \in Int |-> <<digits[zero + Remainder(j)]>>
                                          \o (IF Quotient(j) = 0 THEN <<>> ELSE f[Quotient(j)])]
           from == CHOOSE f : Def(f)
<1> HIDE DEF F
<1>12. F = [j \in Int |-> <<LastDigit(j)>> \o (IF Quotient(j) = 0 THEN <<>> ELSE F[Quotient(j)])]
  BY <1>10, <1>11
<1>13. Def(F)
  BY <1>12 DEF LastDigit
<1>14. Def(from)
  <2> HIDE DEF Def
  <2> QED
    BY <1>13
<1>15. Written = [i \in Int |-> from[i]]
  BY DEF Written
<1> HIDE DEF from
<1>16. from = [j \in Int |-> <<LastDigit(j)>> \o (IF Quotient(j) = 0 THEN <<>> ELSE from[Quotient(j)])]
  BY <1>14 DEF LastDigit
<1>17. ASSUME NEW j \in Int
       PROVE  from[j] = <<LastDigit(j)>> \o (IF Quotient(j) = 0 THEN <<>> ELSE from[Quotient(j)])
  BY <1>16
<1>18. ASSUME NEW n \in Nat PROVE \A j \in Near(n) : from[j] \in Seq(Digits)
  <2> DEFINE R == {k \in 0..n : \A j \in Near(k) : from[j] \in Seq(Digits)}
  <2>1. 0 \in R
    <3>1. ASSUME NEW j \in Near(0) PROVE from[j] \in Seq(Digits)
      <4>1. j \in Int /\ Quotient(j) = 0
        BY <1>5, QuotientNearer
      <4>2. from[j] = <<LastDigit(j)>> \o <<>>
        BY <1>17, <4>1
      <4> QED
        BY <1>1, <4>1, <4>2, ConcatEmptySeq
    <3> QED
      BY <3>1
  <2>2. ASSUME NEW k \in 0..(n - 1), k \in R PROVE k + 1 \in R
    <3>1. k \in Nat /\ k + 1 \in 0..n
      OBVIOUS
    <3>2. ASSUME NEW j \in Near(k + 1) PROVE from[j] \in Seq(Digits)
      <4>1. j \in Int
        BY <1>5, <3>1
      <4>2. (IF Quotient(j) = 0 THEN <<>> ELSE from[Quotient(j)]) \in Seq(Digits)
        BY <2>2, <3>1, <4>1, QuotientNearer, EmptySeq
      <4>3. from[j] = <<LastDigit(j)>> \o (IF Quotient(j) = 0 THEN <<>> ELSE from[Quotient(j)])
        BY <1>17, <4>1
      <4> QED
        BY <1>1, <4>1, <4>2, <4>3, ConcatProperties
    <3> QED
      BY <3>1, <3>2
  <2>3. 0 \in Int /\ n \in Int
    OBVIOUS
  <2> HIDE DEF R
  <2>4. 0..n \subseteq R
    BY <2>1, <2>2, <2>3, Induction
  <2>5. n \in 0..n
    OBVIOUS
  <2> QED
    BY <2>4, <2>5 DEF R
<1>19. \A j \in Int : from[j] \in Seq(Digits)
  <2> HIDE DEF abs
  <2> QED
    BY <1>9, <1>18
<1>20. Written \in [Int -> Seq(Digits)] /\ \A j \in Int : Written[j] = from[j]
  BY <1>15, <1>19
<1> QED
  BY <1>17, <1>20, QuotientIs

(* The numbers up to k, as a fold takes them.                              *)
LEMMA UpTo ==
  ASSUME NEW n \in Nat
  PROVE  /\ {} \in SUBSET (1..n) /\ 1..0 = {} /\ 1..n \in SUBSET (1..n)
         /\ \A k \in 1..n : /\ 1..k \in SUBSET (1..n) /\ 1..k # {} /\ Max(1..k) = k
                           /\ (1..k) \ {k} = 1..(k - 1)
<1>1. ASSUME NEW k \in 1..n PROVE Max(1..k) = k
  <2>1. 1..k \in SUBSET (1..n) /\ k \in 1..k
    OBVIOUS
  <2>2. Max(1..k) \in 1..k /\ \A i \in 1..k : i <= Max(1..k)
    BY <2>1, GreatestIs
  <2>3. k <= Max(1..k)
    BY <2>1, <2>2
  <2> QED
    BY <2>2, <2>3
<1>2. /\ {} \in SUBSET (1..n) /\ 1..0 = {} /\ 1..n \in SUBSET (1..n)
      /\ \A k \in 1..n : 1..k \in SUBSET (1..n) /\ 1..k # {} /\ (1..k) \ {k} = 1..(k - 1)
  OBVIOUS
<1> QED
  BY <1>1, <1>2

(* What a text of digits reads as, sign s.                                 *)
Reads(s, u) == FoldLeft(LAMBDA v, d : 10 * v + s * Worth(d), 0, u)

IsReading(r, s, u) ==
  /\ r \in [0..Len(u) -> Int]
  /\ r[0] = 0
  /\ \A k \in 1..Len(u) : r[k] = 10 * r[k - 1] + s * Worth(u[k])

LEMMA WorthIs == \A d \in Digits : Worth(d) \in Int
<1> SUFFICES ASSUME NEW d \in Digits PROVE Worth(d) \in Int
  OBVIOUS
<1>1. \E r \in 0..9 : d = digits[zero + r]
  <2>1. /\ digits[10] = "0" /\ digits[11] = "1" /\ digits[12] = "2" /\ digits[13] = "3"
        /\ digits[14] = "4" /\ digits[15] = "5" /\ digits[16] = "6" /\ digits[17] = "7"
        /\ digits[18] = "8" /\ digits[19] = "9"
    BY DEF digits
  <2>2. \A r \in 0..9 : zero + r = 10 + r
    BY DEF zero
  <2> QED
    BY <2>1, <2>2 DEF Digits
<1> QED
  BY <1>1, DigitOf

LEMMA ReadsUnfolds ==
  ASSUME NEW s \in Int, NEW u \in Seq(Digits)
  PROVE  \E r : IsReading(r, s, u) /\ Reads(s, u) = r[Len(u)]
<1> DEFINE n == Len(u)
           Turn(T, f) == IF T = {} THEN 0 ELSE 10 * f[T \ {Max(T)}] + s * Worth(u[Max(T)])
           Def(f) == f = [T \in SUBSET DOMAIN u |-> Turn(T, f)]
           it == CHOOSE f : Def(f)
           step == [i \in 1..n |-> [v \in Int |-> 10 * v + s * Worth(u[i])]]
<1>1. n \in Nat /\ DOMAIN u = 1..n /\ \A i \in 1..n : u[i] \in Digits
  BY LenProperties
<1>2. ASSUME NEW i \in 1..n, NEW v \in Int PROVE step[i][v] \in Int /\ step[i][v] = 10 * v + s * Worth(u[i])
  BY <1>1, WorthIs
<1>3. PICK g : GreatestFirst(g, n, Int, 0, step)
  <2>1. 0 \in Int
    OBVIOUS
  <2> HIDE DEF step, n
  <2> QED
    BY <1>1, <1>2, <2>1, SetRecursion
<1> HIDE DEF step
<1>4. ASSUME NEW T \in SUBSET DOMAIN u PROVE g[T] = Turn(T, g)
  <2>1. T \in SUBSET (1..n)
    BY <1>1
  <2>2. CASE T = {}
    BY <2>1, <2>2, <1>3 DEF GreatestFirst
  <2>3. CASE T # {}
    <3> DEFINE m == Max(T)
    <3>1. m \in T
      BY <1>1, <2>1, <2>3, GreatestIs
    <3> HIDE DEF m
    <3>2. m \in 1..n /\ T \ {m} \in SUBSET (1..n)
      BY <2>1, <3>1
    <3>3. g[T \ {m}] \in Int /\ g[T] = step[m][g[T \ {m}]]
      BY <1>3, <2>1, <2>3, <3>2 DEF GreatestFirst, m
    <3> QED
      BY <1>2, <2>3, <3>2, <3>3 DEF m
  <2> QED
    BY <2>2, <2>3
<1>5. Def(g)
  <2> HIDE DEF Turn
  <2>1. g = [T \in SUBSET (1..n) |-> g[T]]
    BY <1>3 DEF GreatestFirst
  <2> QED
    BY <1>1, <1>4, <2>1
<1>6. Def(it)
  <2> HIDE DEF Def
  <2> QED
    BY <1>5
<1>7. Reads(s, u) = it[DOMAIN u]
  BY DEF Reads, FoldLeft, MapThenFoldSet
<1> HIDE DEF it
<1>8. ASSUME NEW T \in SUBSET (1..n) PROVE it[T] = Turn(T, it)
  <2> HIDE DEF Turn
  <2> QED
    BY <1>1, <1>6
<1> DEFINE r == [k \in 0..n |-> it[1..k]]
<1>9. r[0] = 0
  <2>1. it[{}] = 0
    BY <1>1, <1>8, UpTo
  <2>2. 0 \in 0..n /\ 1..0 = {}
    BY <1>1
  <2> QED
    BY <2>1, <2>2
<1>10. ASSUME NEW k \in 1..n PROVE r[k] = 10 * r[k - 1] + s * Worth(u[k])
  <2>1. /\ 1..k \in SUBSET (1..n) /\ 1..k # {} /\ Max(1..k) = k
        /\ (1..k) \ {k} = 1..(k - 1)
    BY <1>1, UpTo
  <2>2. it[1..k] = 10 * it[1..(k - 1)] + s * Worth(u[k])
    BY <1>8, <2>1
  <2>3. k \in 0..n /\ k - 1 \in 0..n
    BY <1>1
  <2> QED
    BY <2>2, <2>3
<1>11. \A k \in 0..n : r[k] \in Int
  <2> DEFINE P == {k \in 0..n : r[k] \in Int}
  <2>1. 0 \in P
    BY <1>1, <1>9
  <2>2. ASSUME NEW k \in 0..(n - 1), k \in P PROVE k + 1 \in P
    <3>1. k + 1 \in 1..n /\ (k + 1) - 1 = k /\ k + 1 \in 0..n
      BY <1>1
    <3> HIDE DEF r
    <3>2. r[k + 1] = 10 * r[k] + s * Worth(u[k + 1])
      BY <1>10, <3>1
    <3>3. Worth(u[k + 1]) \in Int /\ r[k] \in Int
      BY <1>1, <2>2, <3>1, WorthIs
    <3>4. r[k + 1] \in Int
      BY <3>2, <3>3
    <3> QED
      BY <3>1, <3>4
  <2>3. 0 \in Int /\ n \in Int
    BY <1>1
  <2> HIDE DEF P
  <2>4. 0..n \subseteq P
    BY <2>1, <2>2, <2>3, Induction
  <2> QED
    BY <2>4 DEF P
<1>12. r \in [0..n -> Int]
  BY <1>11
<1>13. Reads(s, u) = r[n]
  <2>1. n \in 0..n
    BY <1>1
  <2> QED
    BY <1>1, <1>7, <2>1
<1> HIDE DEF r
<1>14. IsReading(r, s, u)
  BY <1>9, <1>10, <1>12 DEF IsReading
<1> QED
  BY <1>13, <1>14

LEMMA ReadsStep ==
  ASSUME NEW s \in Int, NEW u \in Seq(Digits), NEW d \in Digits
  PROVE  /\ Reads(s, <<>>) = 0 /\ Reads(s, u) \in Int
         /\ Reads(s, Append(u, d)) = 10 * Reads(s, u) + s * Worth(d)
<1> DEFINE n == Len(u)
           w == Append(u, d)
<1>1. n \in Nat /\ w \in Seq(Digits) /\ Len(w) = n + 1 /\ (\A i \in 1..n : w[i] = u[i]) /\ w[n + 1] = d
  BY LenProperties, AppendProperties
<1>2. PICK r : IsReading(r, s, u) /\ Reads(s, u) = r[n]
  BY ReadsUnfolds
<1> HIDE DEF w, n
<1>3. PICK t : IsReading(t, s, w) /\ Reads(s, w) = t[n + 1]
  BY <1>1, ReadsUnfolds
<1>4. r \in [0..n -> Int] /\ r[0] = 0 /\ \A k \in 1..n : r[k] = 10 * r[k - 1] + s * Worth(u[k])
  BY <1>2 DEF IsReading, n
<1>5. t \in [0..(n + 1) -> Int] /\ t[0] = 0
      /\ \A k \in 1..(n + 1) : t[k] = 10 * t[k - 1] + s * Worth(w[k])
  BY <1>1, <1>3 DEF IsReading
<1> DEFINE P == {k \in 0..n : t[k] = r[k]}
<1>6. 0..n \subseteq P
  <2>1. 0 \in P
    BY <1>1, <1>4, <1>5
  <2>2. ASSUME NEW k \in 0..(n - 1), k \in P PROVE k + 1 \in P
    <3>1. k + 1 \in 1..n /\ k + 1 \in 1..(n + 1) /\ (k + 1) - 1 = k /\ k + 1 \in 0..n
      BY <1>1
    <3>2. t[k + 1] = 10 * t[k] + s * Worth(w[k + 1])
      BY <1>5, <3>1
    <3>3. r[k + 1] = 10 * r[k] + s * Worth(u[k + 1])
      BY <1>4, <3>1
    <3>4. w[k + 1] = u[k + 1] /\ t[k] = r[k]
      BY <1>1, <2>2, <3>1
    <3> QED
      BY <3>1, <3>2, <3>3, <3>4
  <2>3. 0 \in Int /\ n \in Int
    BY <1>1
  <2> HIDE DEF P
  <2> QED
    BY <2>1, <2>2, <2>3, Induction
<1>7. t[n] = r[n] /\ r[n] \in Int
  <2>1. n \in 0..n
    BY <1>1
  <2> QED
    BY <1>4, <1>6, <2>1
<1>8. t[n + 1] = 10 * t[n] + s * Worth(d)
  <2>1. n + 1 \in 1..(n + 1) /\ (n + 1) - 1 = n
    BY <1>1
  <2> QED
    BY <1>1, <1>5, <2>1
<1>9. Reads(s, <<>>) = 0
  <2>1. <<>> \in Seq(Digits) /\ Len(<<>>) = 0
    BY EmptySeq
  <2>2. PICK e : IsReading(e, s, <<>>) /\ Reads(s, <<>>) = e[Len(<<>>)]
    BY <2>1, ReadsUnfolds
  <2> QED
    BY <2>1, <2>2 DEF IsReading
<1> QED
  BY <1>2, <1>3, <1>7, <1>8, <1>9 DEF w, n

LEMMA ValueReads ==
  ASSUME NEW text
  PROVE  ValueOf(text) = Reads(IF Head(text) = "-" THEN -1 ELSE 1, Unsigned(text))
  BY DEF ValueOf, Reads, Worth

(* Turning a text round.                                                   *)
LEMMA ReverseIs ==
  ASSUME NEW S, NEW w \in Seq(S), NEW d \in S
  PROVE  /\ Reverse(w) \in Seq(S) /\ Len(Reverse(w)) = Len(w)
         /\ Len(w) > 0 => Reverse(w)[1] = w[Len(w)]
         /\ Reverse(<<d>> \o w) = Append(Reverse(w), d)
<1> DEFINE n == Len(w)
           x == <<d>> \o w
<1>1. n \in Nat /\ \A i \in 1..n : w[i] \in S
  BY LenProperties
<1>2. /\ x \in Seq(S) /\ Len(x) = n + 1 /\ x[1] = d
      /\ \A i \in 2..(n + 1) : x[i] = w[i - 1]
  BY ConcatProperties
<1>3. \A i \in 1..n : (n - i) + 1 \in 1..n
  BY <1>1
<1>4. Reverse(w) = [i \in 1..n |-> w[(n - i) + 1]]
  BY DEF Reverse
<1>5. Reverse(w) \in Seq(S) /\ Len(Reverse(w)) = n
  BY <1>1, <1>3, <1>4
<1>6. n > 0 => Reverse(w)[1] = w[n]
  BY <1>1, <1>4
<1> HIDE DEF x
<1>7. Reverse(x) = [i \in 1..(n + 1) |-> x[((n + 1) - i) + 1]]
  BY <1>2 DEF Reverse
<1>8. Reverse(x) = Append(Reverse(w), d)
  <2> DEFINE a == Append(Reverse(w), d)
  <2>1. /\ a \in Seq(S) /\ Len(a) = n + 1 /\ a[n + 1] = d
        /\ \A i \in 1..n : a[i] = Reverse(w)[i]
    BY <1>5, AppendProperties
  <2> HIDE DEF a
  <2>2. a = [i \in 1..(n + 1) |-> a[i]]
    BY <1>1, <2>1
  <2>3. ASSUME NEW i \in 1..(n + 1) PROVE x[((n + 1) - i) + 1] = a[i]
    <3>1. CASE i = n + 1
      BY <1>1, <1>2, <2>1, <3>1
    <3>2. CASE i # n + 1
      <4>1. /\ i \in 1..n /\ ((n + 1) - i) + 1 \in 2..(n + 1)
            /\ (((n + 1) - i) + 1) - 1 = (n - i) + 1
        BY <1>1, <3>2
      <4> QED
        BY <1>2, <1>4, <2>1, <4>1
    <3> QED
      BY <3>1, <3>2
  <2> QED
    BY <1>7, <2>2, <2>3 DEF a
<1> QED
  BY <1>5, <1>6, <1>8 DEF x

(* The digits of j are at least one, begin with 0 in 0 only, and read as j.*)
ReadsAs(j) ==
  /\ Len(Written[j]) > 0
  /\ Reverse(Written[j])[1] = "0" => j = 0
  /\ j >= 0 => Reads(1, Reverse(Written[j])) = j
  /\ j <= 0 => Reads(-1, Reverse(Written[j])) = j

LEMMA SignedReads ==
  ASSUME NEW u \in Seq(Digits), NEW d \in Digits
  PROVE  /\ Reads(1, <<>>) = 0 /\ Reads(-1, <<>>) = 0
         /\ Reads(1, Append(u, d)) = 10 * Reads(1, u) + Worth(d)
         /\ Reads(-1, Append(u, d)) = 10 * Reads(-1, u) - Worth(d)
         /\ Reads(1, u) \in Int /\ Reads(-1, u) \in Int
<1> DEFINE minus == -1
<1>1. 1 \in Int /\ minus \in Int /\ Worth(d) \in Int
  BY WorthIs
<1>2. /\ Reads(1, <<>>) = 0 /\ Reads(1, u) \in Int
      /\ Reads(1, Append(u, d)) = 10 * Reads(1, u) + 1 * Worth(d)
  BY <1>1, ReadsStep
<1>3. /\ Reads(minus, <<>>) = 0 /\ Reads(minus, u) \in Int
      /\ Reads(minus, Append(u, d)) = 10 * Reads(minus, u) + minus * Worth(d)
  <2> HIDE DEF minus
  <2> QED
    BY <1>1, ReadsStep
<1>4. minus * Worth(d) = -Worth(d)
  BY <1>1
<1> QED
  BY <1>1, <1>2, <1>3, <1>4

LEMMA OneDigitMore ==
  ASSUME NEW j \in Int, Quotient(j) # 0 => ReadsAs(Quotient(j))
  PROVE  ReadsAs(j)
<1> DEFINE q == Quotient(j)
           d == LastDigit(j)
           w == IF q = 0 THEN <<>> ELSE Written[q]
           u == Reverse(w)
<1>1. q \in Int /\ d \in Digits /\ Remainder(j) \in Int /\ j = 10 * q + Remainder(j)
  BY QuotientIs, LastDigitIs
<1>2. w \in Seq(Digits)
  <2>1. q # 0 => Written[q] \in Seq(Digits)
    BY <1>1, WrittenIs
  <2> QED
    BY <2>1, EmptySeq
<1>3. Written[j] = <<d>> \o w
  BY WrittenIs
<1>4. /\ u \in Seq(Digits) /\ Len(u) = Len(w) /\ (Len(w) > 0 => u[1] = w[Len(w)])
      /\ Reverse(Written[j]) = Append(u, d)
  <2> HIDE DEF w, d
  <2> QED
    BY <1>1, <1>2, <1>3, ReverseIs
<1>5. Len(Written[j]) > 0
  <2> HIDE DEF w, d
  <2>1. <<d>> \in Seq(Digits) /\ Len(<<d>>) = 1 /\ Len(w) \in Nat
    BY <1>1, <1>2
  <2> QED
    BY <1>2, <1>3, <2>1, ConcatProperties
<1>6. Append(u, d)[1] = "0" => j = 0
  <2>1. CASE q = 0
    <3>1. w = <<>>
      BY <2>1
    <3> HIDE DEF w, u, d
    <3>2. u = <<>>
      BY <1>4, <3>1, EmptySeq
    <3>3. Append(u, d)[1] = d
      BY <1>1, <3>2
    <3> QED
      BY <2>1, <3>3, LastDigitIs DEF d
  <2>2. CASE q # 0
    <3>1. w = Written[q] /\ Len(w) > 0 /\ (u[1] = "0" => q = 0)
      BY <2>2 DEF ReadsAs
    <3> HIDE DEF w, u, d
    <3>2. Append(u, d)[1] = u[1]
      BY <1>2, <1>4, <3>1, AppendProperties
    <3> QED
      BY <2>2, <3>1, <3>2
  <2> QED
    BY <2>1, <2>2
<1>7. /\ (q >= 0 => Reads(1, u) = q) /\ (q <= 0 => Reads(-1, u) = q)
  <2>1. CASE q = 0
    <3>1. w = <<>>
      BY <2>1
    <3> HIDE DEF w, u
    <3>2. u = <<>>
      BY <1>4, <3>1, EmptySeq
    <3> QED
      BY <1>1, <1>4, <2>1, <3>2, SignedReads
  <2>2. CASE q # 0
    BY <2>2 DEF ReadsAs
  <2> QED
    BY <2>1, <2>2
<1>8. /\ Reads(1, Append(u, d)) = 10 * Reads(1, u) + Worth(d)
      /\ Reads(-1, Append(u, d)) = 10 * Reads(-1, u) - Worth(d)
  <2> HIDE DEF u, d
  <2> QED
    BY <1>1, <1>4, SignedReads
<1>9. /\ j >= 0 => q >= 0 /\ Worth(d) = Remainder(j)
      /\ j <= 0 => q <= 0 /\ Worth(d) = -Remainder(j)
  BY QuotientIs, LastDigitIs
<1> HIDE DEF u, d, q, w
<1>10. (j >= 0 => Reads(1, Append(u, d)) = j) /\ (j <= 0 => Reads(-1, Append(u, d)) = j)
  BY <1>1, <1>7, <1>8, <1>9
<1> QED
  BY <1>4, <1>5, <1>6, <1>10 DEF ReadsAs

LEMMA EveryNumberReads ==
  ASSUME NEW v \in Int
  PROVE  ReadsAs(v)
<1>1. ASSUME NEW n \in Nat PROVE \A j \in Near(n) : ReadsAs(j)
  <2> DEFINE P == {k \in 0..n : \A j \in Near(k) : ReadsAs(j)}
  <2>1. 0 \in P
    <3>1. ASSUME NEW j \in Near(0) PROVE ReadsAs(j)
      <4>1. j \in Int /\ Quotient(j) = 0
        BY QuotientNearer DEF Near
      <4> QED
        BY <4>1, OneDigitMore
    <3> QED
      BY <3>1
  <2>2. ASSUME NEW k \in 0..(n - 1), k \in P PROVE k + 1 \in P
    <3>1. k \in Nat /\ k + 1 \in 0..n
      OBVIOUS
    <3>2. ASSUME NEW j \in Near(k + 1) PROVE ReadsAs(j)
      <4>1. j \in Int
        BY DEF Near
      <4>2. Quotient(j) # 0 => ReadsAs(Quotient(j))
        BY <2>2, <3>1, <4>1, QuotientNearer
      <4> QED
        BY <4>1, <4>2, OneDigitMore
    <3> QED
      BY <3>1, <3>2
  <2>3. 0 \in Int /\ n \in Int /\ n \in 0..n
    OBVIOUS
  <2> HIDE DEF P
  <2>4. 0..n \subseteq P
    BY <2>1, <2>2, <2>3, Induction
  <2> QED
    BY <2>3, <2>4 DEF P
<1>2. \E n \in Nat : v \in Near(n)
  <2>1. CASE v >= 0
    <3>1. v \in Nat /\ v \in Near(v)
      BY <2>1 DEF Near
    <3> QED
      BY <3>1
  <2>2. CASE v < 0
    <3>1. -v \in Nat /\ v \in Near(-v)
      BY <2>2 DEF Near
    <3> QED
      BY <3>1
  <2> QED
    BY <2>1, <2>2
<1> QED
  BY <1>1, <1>2

(* A number of at most n digits is written in at most n.                   *)
LEMMA DigitsBound ==
  ASSUME NEW v \in Int, NEW n \in Nat \ {0}, HasDigits(v, n)
  PROVE  Len(Written[v]) <= n
<1> DEFINE Def(f) == f = [k \in 0..n |-> IF k = 0 THEN v ELSE Quotient(f[k - 1])]
           rest == CHOOSE f : Def(f)
           step == [k \in 0..n |-> [i \in Int |-> Quotient(i)]]
<1>1. \E f : Def(f)
  <2>1. StepsIn(Int, 0, n, step)
    BY QuotientIs DEF StepsIn
  <2>2. 0 \in Int /\ n \in Int
    OBVIOUS
  <2> HIDE DEF step
  <2>3. PICK f : IsRecursive(f, Int, v, 0, n, step)
    BY <2>1, <2>2, Recursion
  <2>4. f \in [0..n -> Int] /\ \A k \in 0..n : f[k] = IF k = 0 THEN v ELSE step[k][f[k - 1]]
    BY <2>3 DEF IsRecursive
  <2>5. ASSUME NEW k \in 0..n PROVE f[k] = IF k = 0 THEN v ELSE Quotient(f[k - 1])
    <3>1. k # 0 => k - 1 \in 0..n
      OBVIOUS
    <3>2. k # 0 => f[k - 1] \in Int
      BY <2>4, <3>1
    <3> QED
      BY <2>4, <3>2 DEF step
  <2>6. Def(f)
    BY <2>4, <2>5
  <2> QED
    BY <2>6
<1>2. Def(rest)
  <2> HIDE DEF Def
  <2> QED
    BY <1>1, Zenon
<1>3. rest[n] = 0
  BY DEF HasDigits
<1> HIDE DEF rest
<1>4. \A k \in 0..n : rest[k] = IF k = 0 THEN v ELSE Quotient(rest[k - 1])
  BY <1>2
<1>5. \A k \in 0..n : rest[k] \in Int
  <2> DEFINE P == {k \in 0..n : rest[k] \in Int}
  <2>1. 0 \in P
    BY <1>4
  <2>2. ASSUME NEW k \in 0..(n - 1), k \in P PROVE k + 1 \in P
    <3>1. k + 1 \in 0..n /\ k + 1 # 0 /\ (k + 1) - 1 = k
      OBVIOUS
    <3>2. rest[k + 1] = Quotient(rest[k])
      BY <1>4, <3>1
    <3> QED
      BY <2>2, <3>1, <3>2, QuotientIs
  <2>3. 0 \in Int /\ n \in Int
    OBVIOUS
  <2> HIDE DEF P
  <2>4. 0..n \subseteq P
    BY <2>1, <2>2, <2>3, Induction
  <2> QED
    BY <2>4 DEF P
<1>6. ASSUME NEW i \in Int, NEW k \in Nat, Quotient(i) # 0 => Len(Written[Quotient(i)]) <= k
      PROVE  Len(Written[i]) <= k + 1
  <2> DEFINE w == IF Quotient(i) = 0 THEN <<>> ELSE Written[Quotient(i)]
             d == LastDigit(i)
  <2>1. w \in Seq(Digits) /\ Len(w) <= k /\ d \in Digits /\ Written[i] = <<d>> \o w
    <3>1. d \in Digits /\ Written[i] = <<d>> \o w
      BY WrittenIs, LastDigitIs
    <3>2. CASE Quotient(i) = 0
      <4>1. w = <<>> /\ Len(<<>>) = 0
        BY <3>2
      <4> HIDE DEF w, d
      <4> QED
        BY <3>1, <4>1, EmptySeq
    <3>3. CASE Quotient(i) # 0
      <4>1. w = Written[Quotient(i)] /\ w \in Seq(Digits)
        BY <3>3, WrittenIs, QuotientIs
      <4> HIDE DEF w, d
      <4> QED
        BY <1>6, <3>1, <3>3, <4>1
    <3> QED
      BY <3>2, <3>3
  <2> HIDE DEF w, d
  <2>2. <<d>> \in Seq(Digits) /\ Len(<<d>>) = 1 /\ Len(w) \in Nat
    BY <2>1
  <2>3. Len(<<d>> \o w) = 1 + Len(w)
    BY <2>1, <2>2, ConcatProperties
  <2> QED
    BY <2>1, <2>2, <2>3
<1> DEFINE P == {k \in 1..n : Len(Written[rest[n - k]]) <= k}
<1>7. 1 \in P
  <2>1. n - 1 \in 0..n /\ n \in 0..n /\ n # 0 /\ 1 \in 1..n
    OBVIOUS
  <2>2. Quotient(rest[n - 1]) = 0 /\ rest[n - 1] \in Int
    BY <1>3, <1>4, <1>5, <2>1
  <2>3. Len(Written[rest[n - 1]]) <= 0 + 1
    BY <1>6, <2>2
  <2> QED
    BY <2>1, <2>3
<1>8. ASSUME NEW k \in 1..(n - 1), k \in P PROVE k + 1 \in P
  <2>1. /\ n - k \in 0..n /\ n - k # 0 /\ (n - k) - 1 = n - (k + 1) /\ n - (k + 1) \in 0..n
        /\ k \in Nat /\ k + 1 \in 1..n
    OBVIOUS
  <2>2. rest[n - k] = Quotient(rest[n - (k + 1)]) /\ rest[n - (k + 1)] \in Int
    BY <1>4, <1>5, <2>1
  <2>3. Len(Written[rest[n - k]]) <= k
    BY <1>8
  <2>4. Len(Written[rest[n - (k + 1)]]) <= k + 1
    BY <1>6, <2>1, <2>2, <2>3
  <2> QED
    BY <2>1, <2>4
<1>9. 1 \in Int /\ n \in Int /\ n \in 1..n /\ n - n = 0 /\ 0 \in 0..n
  OBVIOUS
<1>10. 1..n \subseteq P
  <2> HIDE DEF P
  <2> QED
    BY <1>7, <1>8, <1>9, Induction
<1> QED
  BY <1>4, <1>9, <1>10

LEMMA ReverseMark ==
  ASSUME NEW S, NEW w \in Seq(S), NEW d \in S
  PROVE  Reverse(w \o <<d>>) = <<d>> \o Reverse(w)
<1> DEFINE n == Len(w)
           x == w \o <<d>>
           y == <<d>> \o Reverse(w)
<1>1. n \in Nat /\ Reverse(w) \in Seq(S) /\ Len(Reverse(w)) = n
  BY LenProperties, ReverseIs
<1>2. x \in Seq(S) /\ Len(x) = n + 1 /\ x[n + 1] = d /\ \A i \in 1..n : x[i] = w[i]
  BY ConcatProperties
<1>3. y \in Seq(S) /\ Len(y) = n + 1 /\ y[1] = d /\ \A i \in 2..(n + 1) : y[i] = Reverse(w)[i - 1]
  <2> DEFINE u == Reverse(w)
  <2> HIDE DEF u
  <2>1. u \in Seq(S) /\ Len(u) = n
    BY <1>1 DEF u
  <2>2. /\ <<d>> \o u \in Seq(S) /\ Len(<<d>> \o u) = n + 1 /\ (<<d>> \o u)[1] = d
        /\ \A i \in 2..(n + 1) : (<<d>> \o u)[i] = u[i - 1]
    BY <2>1, ConcatProperties
  <2> QED
    BY <2>2 DEF u
<1> HIDE DEF x, y
<1>4. Reverse(x) = [i \in 1..(n + 1) |-> x[((n + 1) - i) + 1]]
  BY <1>2 DEF Reverse
<1>5. y = [i \in 1..(n + 1) |-> y[i]]
  BY <1>1, <1>3
<1>6. ASSUME NEW i \in 1..(n + 1) PROVE x[((n + 1) - i) + 1] = y[i]
  <2>1. CASE i = 1
    <3>1. ((n + 1) - i) + 1 = n + 1
      BY <1>1, <2>1
    <3> QED
      BY <1>2, <1>3, <2>1, <3>1
  <2>2. CASE i # 1
    <3>1. /\ i \in 2..(n + 1) /\ i - 1 \in 1..n /\ ((n + 1) - i) + 1 \in 1..n
          /\ (n - (i - 1)) + 1 = ((n + 1) - i) + 1
      BY <1>1, <2>2
    <3>2. Reverse(w)[i - 1] = w[(n - (i - 1)) + 1]
      BY <3>1 DEF Reverse
    <3> QED
      BY <1>2, <1>3, <3>1, <3>2
  <2> QED
    BY <2>1, <2>2
<1> QED
  BY <1>4, <1>5, <1>6 DEF x, y

(* What a line is made of.                                                 *)
Tokens == Digits \cup {"-", "time", "tid", " --", "file", ":", "\n"}
            \cup UNION {Range(t) : t \in Texts}

(* What convert makes of a number: its digits, behind a sign if it is      *)
(* negative.                                                               *)
LEMMA ConvertIs ==
  ASSUME NEW v \in Int
  PROVE  /\ Reverse(Written[v]) \in Seq(Digits) /\ Reverse(Written[v]) # <<>>
         /\ Len(Reverse(Written[v])) = Len(Written[v])
         /\ convert(v) = IF v < 0 THEN <<"-">> \o Reverse(Written[v]) ELSE Reverse(Written[v])
         /\ convert(v) \in Seq(Tokens)
<1> DEFINE w == Written[v]
           u == Reverse(w)
<1>1. w \in Seq(Digits) /\ Len(w) > 0
  BY WrittenIs, EveryNumberReads DEF ReadsAs
<1>2. u \in Seq(Digits) /\ Len(u) = Len(w)
  <2>1. "0" \in Digits
    BY DEF Digits
  <2> HIDE DEF w
  <2> QED
    BY <1>1, <2>1, ReverseIs
<1>3. u # <<>>
  <2> HIDE DEF u, w
  <2> QED
    BY <1>1, <1>2
<1>4. w \in Seq(Tokens) /\ u \in Seq(Tokens) /\ "-" \in Tokens
  <2>1. Digits \subseteq Tokens /\ "-" \in Tokens
    BY DEF Tokens
  <2> HIDE DEF u, w
  <2> QED
    BY <1>1, <1>2, <2>1
<1>5. convert(v) = Reverse(w \o (IF v < 0 THEN <<"-">> ELSE <<>>))
  BY DEF convert
<1>6. CASE v < 0
  <2>1. convert(v) = Reverse(w \o <<"-">>)
    BY <1>5, <1>6
  <2> HIDE DEF w
  <2>2. convert(v) = <<"-">> \o u
    BY <1>4, <2>1, ReverseMark
  <2> HIDE DEF u
  <2>3. <<"-">> \o u \in Seq(Tokens)
    BY <1>4, ConcatProperties
  <2> QED
    BY <1>2, <1>3, <1>6, <2>2, <2>3 DEF u, w
<1>7. CASE ~(v < 0)
  <2>1. convert(v) = Reverse(w \o <<>>)
    BY <1>5, <1>7
  <2> HIDE DEF w
  <2>2. w \o <<>> = w
    BY <1>1, ConcatEmptySeq
  <2>3. convert(v) = u
    BY <2>1, <2>2
  <2> HIDE DEF u
  <2> QED
    BY <1>2, <1>3, <1>4, <1>7, <2>3 DEF u, w
<1> QED
  BY <1>6, <1>7

LEMMA ConvertFits ==
  ASSUME NEW v \in Numbers \cup Logged
  PROVE  v \in Int /\ Len(convert(v)) < MaxNumericSize
<1> DEFINE w == Written[v]
           u == Reverse(w)
           n == MaxNumericSize - 2
<1>1. v \in Int /\ MaxNumericSize \in Nat /\ n \in Nat \ {0} /\ n + 2 = MaxNumericSize /\ HasDigits(v, n)
  BY LineAssumption
<1>2. /\ u \in Seq(Digits) /\ Len(u) = Len(w) /\ u # <<>>
      /\ convert(v) = IF v < 0 THEN <<"-">> \o u ELSE u
  BY <1>1, ConvertIs
<1>5. Len(w) \in Nat
  BY <1>1, WrittenIs
<1>3. Len(convert(v)) <= Len(w) + 1
  <2> HIDE DEF u, w
  <2>1. Len(u) \in Nat /\ u \in Seq(Digits \cup {"-"}) /\ <<"-">> \in Seq(Digits \cup {"-"})
    BY <1>2
  <2>2. Len(<<"-">> \o u) = 1 + Len(u)
    BY <2>1, ConcatProperties
  <2> QED
    BY <1>2, <1>5, <2>1, <2>2
<1>4. Len(w) <= n /\ Len(w) \in Nat
  <2>1. Len(w) \in Nat
    BY <1>1, WrittenIs
  <2> HIDE DEF n, w
  <2>2. n \in Nat \ {0} /\ HasDigits(v, n)
    BY <1>1
  <2> QED
    BY <1>1, <2>1, <2>2, DigitsBound DEF w
<1>6. Len(convert(v)) \in Nat
  <2>1. convert(v) \in Seq(Tokens)
    BY <1>1, ConvertIs
  <2> QED
    BY <2>1
<1> QED
  BY <1>1, <1>3, <1>4, <1>6

LEMMA MarkedText ==
  ASSUME NEW S, NEW u \in Seq(S), NEW d \in S
  PROVE  Head(<<d>> \o u) = d /\ Tail(<<d>> \o u) = u
<1> DEFINE x == <<d>> \o u
<1>1. x \in Seq(S) /\ Len(x) = 1 + Len(u) /\ x[1] = d /\ \A i \in 1..Len(u) : x[1 + i] = u[i]
  BY ConcatProperties
<1>2. Len(u) \in Nat
  OBVIOUS
<1> HIDE DEF x
<1>3. Head(x) = d
  BY <1>1, <1>2
<1>4. Tail(x) \in Seq(S) /\ Len(Tail(x)) = Len(u) /\ \A i \in 1..Len(u) : Tail(x)[i] = u[i]
  BY <1>1, <1>2, HeadTailProperties
<1> QED
  BY <1>2, <1>3, <1>4 DEF x

LEMMA NumbersReadBack ==
  ASSUME NEW v \in Numbers
  PROVE  ReadsBack(v)
<1> DEFINE u == Reverse(Written[v])
           c == convert(v)
<1>1. v \in Int /\ Len(c) < MaxNumericSize
  BY ConvertFits
<1>2. u \in Seq(Digits) /\ u # <<>> /\ c = IF v < 0 THEN <<"-">> \o u ELSE u
  BY <1>1, ConvertIs
<1>3. /\ u[1] = "0" => v = 0
      /\ v >= 0 => Reads(1, u) = v
      /\ v <= 0 => Reads(-1, u) = v
  BY <1>1, EveryNumberReads DEF ReadsAs
<1> HIDE DEF u, c
<1>4. Head(u) = u[1] /\ Head(u) \in Digits
  BY <1>2
<1>5. "-" \notin Digits
  BY DEF Digits
<1>6. CASE v < 0
  <2>1. c = <<"-">> \o u
    BY <1>2, <1>6
  <2>2. Head(c) = "-" /\ Tail(c) = u
    <3>1. u \in Seq(Digits \cup {"-"}) /\ "-" \in Digits \cup {"-"}
      BY <1>2
    <3> QED
      BY <2>1, <3>1, MarkedText
  <2>3. Unsigned(c) = u
    BY <2>2 DEF Unsigned
  <2>4. ValueOf(c) = Reads(-1, u)
    BY <2>2, <2>3, ValueReads
  <2> QED
    BY <1>1, <1>3, <1>4, <1>6, <2>3, <2>4 DEF ReadsBack, c
<1>7. CASE ~(v < 0)
  <2>1. c = u /\ v >= 0
    BY <1>1, <1>2, <1>7
  <2>2. Unsigned(c) = u /\ Head(c) # "-"
    BY <1>4, <1>5, <2>1 DEF Unsigned
  <2>3. ValueOf(c) = Reads(1, u)
    BY <2>2, ValueReads
  <2> QED
    BY <1>1, <1>3, <1>4, <2>1, <2>2, <2>3 DEF ReadsBack, c
<1> QED
  BY <1>6, <1>7

(* What is put into a line: spelled with tokens, a number in less than     *)
(* what room there must be for it.                                         *)
IsPiece(p) ==
  /\ p.kind \in {"text", "int", "real"}
  /\ Spelled(p) \in Seq(Tokens)
  /\ p.kind # "text" => Len(Spelled(p)) < MaxNumericSize

LEMMA PiecesAre ==
  ASSUME NEW user \in Users, NEW line \in Logged
  PROVE  \E S : Pieces(user, line) \in Seq(S) /\ \A p \in S : IsPiece(p)
<1> DEFINE S == {p \in UserPieces \cup {Text(<<"time">>), Text(<<"tid">>), Text(<<" --">>), Text(<<"file">>),
                                        Text(<<":">>), Number(line), Text(<<"\n">>)} : IsPiece(p)}
<1>1. ASSUME NEW t \in Seq(Tokens) PROVE IsPiece(Text(t))
  BY DEF IsPiece, Text, Spelled
<1>2. ASSUME NEW v \in Logged PROVE IsPiece(Number(v))
  <2>1. v \in Int /\ Len(convert(v)) < MaxNumericSize /\ convert(v) \in Seq(Tokens)
    BY ConvertFits, ConvertIs
  <2> QED
    BY <2>1 DEF IsPiece, Number, Spelled
<1>3. ASSUME NEW t \in Texts PROVE t \in Seq(Tokens)
  <2>1. t \in Seq(Range(t)) /\ Range(t) \subseteq Tokens
    BY LineAssumption DEF Tokens
  <2> QED
    BY <2>1
<1>4. ASSUME NEW t \in RealTexts PROVE IsPiece(Real(t))
  <2>1. t \in Seq(Tokens) /\ Len(t) < MaxNumericSize
    BY <1>3 DEF RealTexts
  <2> QED
    BY <2>1 DEF IsPiece, Real, Spelled
<1>5. UserPieces \subseteq S
  BY <1>1, <1>2, <1>3, <1>4 DEF UserPieces
<1>6. user \in Seq(S)
  <2> HIDE DEF S
  <2>1. \A p, q \in S : <<>> \in Seq(S) /\ <<p>> \in Seq(S) /\ <<p, q>> \in Seq(S)
    OBVIOUS
  <2>2. <<>> \in Seq(S)
    OBVIOUS
  <2>3. \/ user = <<>>
        \/ \E p \in UserPieces : user = <<p>>
        \/ \E p, q \in UserPieces : user = <<p, q>>
    BY DEF Users
  <2> QED
    BY <1>5, <2>1, <2>2, <2>3
<1>7. /\ Text(<<"time">>) \in S /\ Text(<<"tid">>) \in S /\ Text(<<" --">>) \in S
      /\ Text(<<"file">>) \in S /\ Text(<<":">>) \in S /\ Text(<<"\n">>) \in S /\ Number(line) \in S
  <2>1. /\ <<"time">> \in Seq(Tokens) /\ <<"tid">> \in Seq(Tokens) /\ <<" --">> \in Seq(Tokens)
        /\ <<"file">> \in Seq(Tokens) /\ <<":">> \in Seq(Tokens) /\ <<"\n">> \in Seq(Tokens)
    BY DEF Tokens
  <2> QED
    BY <1>1, <1>2, <2>1
<1>8. Pieces(user, line) \in Seq(S)
  <2> HIDE DEF S
  <2> DEFINE a == Text(<<"time">>)
             b == Text(<<"tid">>)
             c == Text(<<" --">>)
             d == Text(<<"file">>)
             e == Text(<<":">>)
             f == Number(line)
             g == Text(<<"\n">>)
  <2>1. a \in S /\ b \in S /\ c \in S /\ d \in S /\ e \in S /\ f \in S /\ g \in S
    BY <1>7
  <2>2. Pieces(user, line) = <<a, b>> \o user \o <<c, d, e, f, g>>
    BY DEF Pieces
  <2> HIDE DEF a, b, c, d, e, f, g
  <2>3. <<a, b>> \in Seq(S) /\ <<c, d, e, f, g>> \in Seq(S)
    BY <2>1
  <2>4. <<a, b>> \o user \in Seq(S)
    BY <1>6, <2>3, ConcatProperties
  <2>5. (<<a, b>> \o user) \o <<c, d, e, f, g>> \in Seq(S)
    BY <2>3, <2>4, ConcatProperties
  <2> QED
    BY <2>2, <2>5
<1>9. \A p \in S : IsPiece(p)
  OBVIOUS
<1> HIDE DEF S
<1> QED
  BY <1>8, <1>9

(* Putting one piece: all of it or nothing, inside the buffer, and all of  *)
(* it while there is room for a number besides.                            *)
LEMMA PutIs ==
  ASSUME NEW buf \in Seq(Tokens), Len(buf) < SmallBuffer, NEW p, IsPiece(p)
  PROVE  /\ Put(buf, p) \in Seq(Tokens) /\ Len(Put(buf, p)) < SmallBuffer
         /\ \/ Put(buf, p) = buf \o Spelled(p)
            \/ /\ Put(buf, p) = buf
               /\ ~(Len(buf) + Len(Spelled(p)) + MaxNumericSize < SmallBuffer)
<1> DEFINE t == Spelled(p)
           b == buf \o t
<1>1. /\ SmallBuffer \in Nat /\ MaxNumericSize \in Nat /\ Len(buf) \in Nat /\ Len(t) \in Nat
      /\ t \in Seq(Tokens) /\ p.kind \in {"text", "int", "real"}
      /\ p.kind # "text" => Len(t) < MaxNumericSize
  BY LineAssumption, LenProperties DEF IsPiece
<1>2. b \in Seq(Tokens) /\ Len(b) = Len(buf) + Len(t)
  <2> HIDE DEF t
  <2> QED
    BY <1>1, ConcatProperties
<1>3. CASE p.kind = "text"
  <2>1. Put(buf, p) = IF SmallBuffer - Len(buf) > Len(t) THEN b ELSE buf
    BY <1>3 DEF Put, append, avail, Spelled
  <2> HIDE DEF t, b
  <2> QED
    BY <1>1, <1>2, <2>1 DEF t, b
<1>4. CASE p.kind = "int"
  <2>1. Put(buf, p) = IF SmallBuffer - Len(buf) >= MaxNumericSize THEN b ELSE buf
    BY <1>4 DEF Put, RoomForInteger, avail, Spelled
  <2> HIDE DEF t, b
  <2> QED
    BY <1>1, <1>2, <1>4, <2>1 DEF t, b
<1>5. CASE p.kind = "real"
  <2>1. Put(buf, p) = IF SmallBuffer - Len(buf) > MaxNumericSize THEN b ELSE buf
    BY <1>5 DEF Put, avail, Spelled
  <2> HIDE DEF t, b
  <2> QED
    BY <1>1, <1>2, <1>5, <2>1 DEF t, b
<1> QED
  BY <1>1, <1>3, <1>4, <1>5

(* The buffer after each of the pieces.                                    *)
IsFilling(r, ps) ==
  /\ r \in [0..Len(ps) -> {buf \in Seq(Tokens) : Len(buf) < SmallBuffer}]
  /\ r[0] = <<>>
  /\ \A k \in 1..Len(ps) : r[k] = Put(r[k - 1], ps[k])

LEMMA LineFills ==
  ASSUME NEW S, \A p \in S : IsPiece(p), NEW ps \in Seq(S)
  PROVE  \E r : IsFilling(r, ps) /\ FoldLeft(Put, <<>>, ps) = r[Len(ps)]
<1> DEFINE n == Len(ps)
           B == {buf \in Seq(Tokens) : Len(buf) < SmallBuffer}
           Turn(T, f) == IF T = {} THEN <<>> ELSE Put(f[T \ {Max(T)}], ps[Max(T)])
           Def(f) == f = [T \in SUBSET DOMAIN ps |-> Turn(T, f)]
           it == CHOOSE f : Def(f)
           step == [i \in 1..n |-> [b \in B |-> Put(b, ps[i])]]
<1>1. n \in Nat /\ DOMAIN ps = 1..n /\ \A i \in 1..n : IsPiece(ps[i])
  BY LenProperties
<1>2. ASSUME NEW i \in 1..n, NEW b \in B PROVE step[i][b] \in B /\ step[i][b] = Put(b, ps[i])
  <2>1. IsPiece(ps[i]) /\ b \in Seq(Tokens) /\ Len(b) < SmallBuffer
    BY <1>1
  <2>2. Put(b, ps[i]) \in B
    BY <2>1, PutIs
  <2> QED
    BY <2>2
<1>3. <<>> \in B
  BY LineAssumption
<1>4. PICK g : GreatestFirst(g, n, B, <<>>, step)
  <2> HIDE DEF step, n, B
  <2> QED
    BY <1>1, <1>2, <1>3, SetRecursion
<1> HIDE DEF step
<1>5. ASSUME NEW T \in SUBSET DOMAIN ps PROVE g[T] = Turn(T, g)
  <2>1. T \in SUBSET (1..n)
    BY <1>1
  <2>2. CASE T = {}
    <3> HIDE DEF B
    <3> QED
      BY <2>1, <2>2, <1>4 DEF GreatestFirst
  <2>3. CASE T # {}
    <3> DEFINE m == Max(T)
    <3>1. m \in T
      BY <1>1, <2>1, <2>3, GreatestIs
    <3> HIDE DEF m, B
    <3>2. m \in 1..n /\ T \ {m} \in SUBSET (1..n)
      BY <2>1, <3>1
    <3>3. g[T \ {m}] \in B /\ g[T] = step[m][g[T \ {m}]]
      BY <1>4, <2>1, <2>3, <3>2 DEF GreatestFirst, m
    <3> QED
      BY <1>2, <2>3, <3>2, <3>3 DEF m
  <2> QED
    BY <2>2, <2>3
<1>6. Def(g)
  <2> HIDE DEF Turn, B
  <2>1. g = [T \in SUBSET (1..n) |-> g[T]]
    BY <1>4 DEF GreatestFirst
  <2> QED
    BY <1>1, <1>5, <2>1
<1>7. Def(it)
  <2> HIDE DEF Def
  <2> QED
    BY <1>6
<1>8. FoldLeft(Put, <<>>, ps) = it[DOMAIN ps]
  BY DEF FoldLeft, MapThenFoldSet
<1> HIDE DEF it
<1>9. ASSUME NEW T \in SUBSET (1..n) PROVE it[T] = Turn(T, it)
  <2> HIDE DEF Turn
  <2> QED
    BY <1>1, <1>7
<1> DEFINE r == [k \in 0..n |-> it[1..k]]
<1>10. r[0] = <<>>
  <2>1. it[{}] = <<>>
    BY <1>1, <1>9, UpTo
  <2>2. 0 \in 0..n /\ 1..0 = {}
    BY <1>1
  <2> QED
    BY <2>1, <2>2
<1>11. ASSUME NEW k \in 1..n PROVE r[k] = Put(r[k - 1], ps[k])
  <2>1. /\ 1..k \in SUBSET (1..n) /\ 1..k # {} /\ Max(1..k) = k
        /\ (1..k) \ {k} = 1..(k - 1)
    BY <1>1, UpTo
  <2>2. it[1..k] = Put(it[1..(k - 1)], ps[k])
    BY <1>9, <2>1
  <2>3. k \in 0..n /\ k - 1 \in 0..n
    BY <1>1
  <2> QED
    BY <2>2, <2>3
<1>12. \A k \in 0..n : r[k] \in B
  <2> DEFINE P == {k \in 0..n : r[k] \in B}
  <2>1. 0 \in P
    <3>1. 0 \in 0..n
      BY <1>1
    <3> HIDE DEF r, B
    <3> QED
      BY <1>3, <1>10, <3>1
  <2>2. ASSUME NEW k \in 0..(n - 1), k \in P PROVE k + 1 \in P
    <3>1. k + 1 \in 1..n /\ (k + 1) - 1 = k /\ k + 1 \in 0..n
      BY <1>1
    <3> HIDE DEF r
    <3>2. r[k + 1] = Put(r[k], ps[k + 1])
      BY <1>11, <3>1
    <3>3. r[k] \in Seq(Tokens) /\ Len(r[k]) < SmallBuffer /\ IsPiece(ps[k + 1])
      BY <1>1, <2>2, <3>1
    <3>4. r[k + 1] \in B
      BY <3>2, <3>3, PutIs
    <3> QED
      BY <3>1, <3>4
  <2>3. 0 \in Int /\ n \in Int
    BY <1>1
  <2> HIDE DEF P
  <2>4. 0..n \subseteq P
    BY <2>1, <2>2, <2>3, Induction
  <2> QED
    BY <2>4 DEF P
<1>13. r \in [0..n -> B]
  BY <1>12
<1>14. FoldLeft(Put, <<>>, ps) = r[n]
  <2>1. n \in 0..n
    BY <1>1
  <2> QED
    BY <1>1, <1>8, <2>1
<1> HIDE DEF r
<1>15. IsFilling(r, ps)
  BY <1>10, <1>11, <1>13 DEF IsFilling
<1> QED
  BY <1>14, <1>15

(* The text of those of the first k pieces that are in kept.               *)
FirstOnly(ps, kept, k) == FlattenSeq([i \in 1..k |-> IF i \in kept THEN Spelled(ps[i]) ELSE <<>>])

LEMMA FirstOnlyStep ==
  ASSUME NEW S, NEW ps \in Seq(S), NEW k \in Nat, NEW kept,
         \A p \in S : IsPiece(p), k + 1 <= Len(ps)
  PROVE  /\ FirstOnly(ps, kept, 0) = <<>>
         /\ FirstOnly(ps, kept, k) \in Seq(Tokens)
         /\ FirstOnly(ps, kept, k + 1) =
              FirstOnly(ps, kept, k) \o (IF k + 1 \in kept THEN Spelled(ps[k + 1]) ELSE <<>>)
<1> DEFINE t(i) == IF i \in kept THEN Spelled(ps[i]) ELSE <<>>
           ss == [i \in 1..k |-> t(i)]
           tt == [i \in 1..(k + 1) |-> t(i)]
<1>1. ASSUME NEW i \in 1..(k + 1) PROVE t(i) \in Seq(Tokens)
  <2>1. Len(ps) \in Nat /\ i \in 1..Len(ps)
    BY LenProperties
  <2>2. IsPiece(ps[i])
    BY <2>1, LenProperties
  <2> QED
    BY <2>2, EmptySeq DEF IsPiece
<1>2. k + 1 \in 1..(k + 1) /\ 1..k \subseteq 1..(k + 1) /\ k + 1 \in Nat
  OBVIOUS
<1> HIDE DEF t
<1>3. ss \in Seq(Seq(Tokens)) /\ Len(ss) = k /\ \A i \in 1..k : ss[i] = t(i)
  BY <1>1, <1>2
<1>4. tt = Append(ss, t(k + 1))
  <2>1. /\ Append(ss, t(k + 1)) \in Seq(Seq(Tokens)) /\ Len(Append(ss, t(k + 1))) = k + 1
        /\ \A i \in 1..k : Append(ss, t(k + 1))[i] = t(i)
        /\ Append(ss, t(k + 1))[k + 1] = t(k + 1)
    <3> HIDE DEF ss
    <3> QED
      BY <1>1, <1>2, <1>3, AppendProperties
  <2> DEFINE a == Append(ss, t(k + 1))
  <2> HIDE DEF a
  <2>2. a = [i \in 1..(k + 1) |-> a[i]]
    BY <1>2, <2>1 DEF a
  <2>3. \A i \in 1..(k + 1) : a[i] = t(i)
    BY <2>1 DEF a
  <2> QED
    BY <2>2, <2>3 DEF a
<1> HIDE DEF ss, tt
<1>5. FlattenSeq(ss) \in Seq(Tokens) /\ FlattenSeq(tt) = FlattenSeq(ss) \o t(k + 1)
  BY <1>1, <1>2, <1>3, <1>4, FlattenType, FlattenAppend
<1>6. FirstOnly(ps, kept, 0) = <<>>
  <2>1. [i \in 1..0 |-> IF i \in kept THEN Spelled(ps[i]) ELSE <<>>] = <<>>
    OBVIOUS
  <2> QED
    BY <2>1, FlattenEmpty DEF FirstOnly
<1> QED
  BY <1>5, <1>6 DEF FirstOnly, ss, tt, t

LEMMA FirstOnlyAgrees ==
  ASSUME NEW ps, NEW k, NEW kept, NEW others, \A i \in 1..k : i \in kept <=> i \in others
  PROVE  FirstOnly(ps, kept, k) = FirstOnly(ps, others, k)
<1>1. [i \in 1..k |-> IF i \in kept THEN Spelled(ps[i]) ELSE <<>>]
        = [i \in 1..k |-> IF i \in others THEN Spelled(ps[i]) ELSE <<>>]
  OBVIOUS
<1> QED
  BY <1>1 DEF FirstOnly

LEMMA LinesAreMade ==
  ASSUME NEW user \in Users, NEW line \in Logged
  PROVE  Whole(user, line)
<1> DEFINE ps == Pieces(user, line)
           n == Len(ps)
           text == LogLine(user, line)
           all(k) == FirstOnly(ps, 1..n, k)
<1>1. PICK S : ps \in Seq(S) /\ \A p \in S : IsPiece(p)
  BY PiecesAre
<1> HIDE DEF ps
<1>2. n \in Nat /\ DOMAIN ps = 1..n /\ \A i \in 1..n : IsPiece(ps[i])
  BY <1>1, LenProperties
<1>3. PICK r : IsFilling(r, ps) /\ text = r[n]
  <2>1. \E r : IsFilling(r, ps) /\ FoldLeft(Put, <<>>, ps) = r[Len(ps)]
    BY <1>1, LineFills
  <2> QED
    BY <2>1 DEF LogLine, ps
<1>4. /\ \A k \in 0..n : r[k] \in Seq(Tokens) /\ Len(r[k]) < SmallBuffer
      /\ r[0] = <<>>
      /\ \A k \in 1..n : r[k] = Put(r[k - 1], ps[k])
  BY <1>3 DEF IsFilling
<1> HIDE DEF text
<1> DEFINE Keeps(kept, k) ==
             /\ r[k] = FirstOnly(ps, kept, k)
             /\ Len(all(k)) + MaxNumericSize < SmallBuffer => 1..k \subseteq kept
           P == {k \in 0..n : \E kept \in SUBSET (1..n) : Keeps(kept, k)}
<1> HIDE DEF n
<1>5. 0 \in P
  <2>1. FirstOnly(ps, {}, 0) = <<>>
    <3>1. [i \in 1..0 |-> IF i \in {} THEN Spelled(ps[i]) ELSE <<>>] = <<>>
      OBVIOUS
    <3> QED
      BY <3>1, FlattenEmpty DEF FirstOnly
  <2>2. Keeps({}, 0) /\ {} \in SUBSET (1..n) /\ 0 \in 0..n
    BY <1>2, <1>4, <2>1
  <2> QED
    BY <2>2
<1>6. ASSUME NEW k \in 0..(n - 1), k \in P PROVE k + 1 \in P
  <2>1. PICK kept \in SUBSET (1..n) : Keeps(kept, k)
    BY <1>6
  <2>2. /\ k \in Nat /\ k + 1 \in 1..n /\ k + 1 \in 0..n /\ k \in 0..n /\ (k + 1) - 1 = k
        /\ k + 1 <= n
    BY <1>2
  <2> DEFINE p == ps[k + 1]
  <2>3. /\ r[k] \in Seq(Tokens) /\ Len(r[k]) < SmallBuffer /\ IsPiece(p)
        /\ r[k + 1] = Put(r[k], p)
    BY <1>2, <1>4, <2>2
  <2>4. \/ r[k + 1] = r[k] \o Spelled(p)
        \/ /\ r[k + 1] = r[k]
           /\ ~(Len(r[k]) + Len(Spelled(p)) + MaxNumericSize < SmallBuffer)
    BY <2>3, PutIs
  <2>11. ASSUME NEW some
         PROVE  FirstOnly(ps, some, k + 1) =
                  FirstOnly(ps, some, k) \o (IF k + 1 \in some THEN Spelled(ps[k + 1]) ELSE <<>>)
    <3>1. k \in Nat /\ k + 1 <= Len(ps)
      BY <2>2 DEF n
    <3> QED
      BY <1>1, <3>1, FirstOnlyStep
  <2>5. /\ all(k) \in Seq(Tokens) /\ all(k + 1) = all(k) \o Spelled(p)
    <3>1. /\ FirstOnly(ps, 1..n, k) \in Seq(Tokens)
          /\ FirstOnly(ps, 1..n, k + 1) =
               FirstOnly(ps, 1..n, k) \o (IF k + 1 \in 1..n THEN Spelled(ps[k + 1]) ELSE <<>>)
      BY <1>1, <2>2, FirstOnlyStep DEF n
    <3> QED
      BY <2>2, <3>1
  <2>6. Spelled(p) \in Seq(Tokens) /\ Len(Spelled(p)) \in Nat
    BY <2>3 DEF IsPiece
  <2>7. Len(all(k)) \in Nat /\ Len(all(k + 1)) = Len(all(k)) + Len(Spelled(p))
    <3> HIDE DEF all, p
    <3> QED
      BY <2>5, <2>6, ConcatProperties
  <2>8. MaxNumericSize \in Nat /\ SmallBuffer \in Nat
    BY LineAssumption
  <2>9. CASE r[k + 1] = r[k] \o Spelled(p)
    <3> DEFINE more == kept \cup {k + 1}
    <3>1. more \in SUBSET (1..n) /\ k + 1 \in more
      BY <2>2
    <3>2. FirstOnly(ps, more, k) = FirstOnly(ps, kept, k)
      <4>1. \A i \in 1..k : i \in more <=> i \in kept
        BY <2>2
      <4> HIDE DEF more
      <4> QED
        BY <4>1, FirstOnlyAgrees
    <3>3. FirstOnly(ps, more, k + 1) = r[k] \o Spelled(p)
      <4> HIDE DEF more
      <4>1. FirstOnly(ps, more, k + 1) =
              FirstOnly(ps, more, k) \o (IF k + 1 \in more THEN Spelled(ps[k + 1]) ELSE <<>>)
        BY <2>11
      <4> QED
        BY <2>1, <3>1, <3>2, <4>1
    <3>4. Len(all(k + 1)) + MaxNumericSize < SmallBuffer => 1..(k + 1) \subseteq more
      <4>1. Len(all(k + 1)) + MaxNumericSize < SmallBuffer => Len(all(k)) + MaxNumericSize < SmallBuffer
        <5> HIDE DEF all, p
        <5> QED
          BY <2>6, <2>7, <2>8
      <4>2. 1..k \subseteq kept => 1..(k + 1) \subseteq more
        BY <2>2
      <4> HIDE DEF all, more
      <4> QED
        BY <2>1, <4>1, <4>2
    <3>5. Keeps(more, k + 1)
      <4> HIDE DEF all, more, p
      <4> QED
        BY <2>9, <3>3, <3>4
    <3> HIDE DEF Keeps, more
    <3> QED
      BY <2>2, <3>1, <3>5
  <2>10. CASE /\ r[k + 1] = r[k]
              /\ ~(Len(r[k]) + Len(Spelled(p)) + MaxNumericSize < SmallBuffer)
    <3> DEFINE fewer == kept \ {k + 1}
    <3>1. fewer \in SUBSET (1..n) /\ k + 1 \notin fewer
      OBVIOUS
    <3>2. FirstOnly(ps, fewer, k) = FirstOnly(ps, kept, k)
      <4>1. \A i \in 1..k : i \in fewer <=> i \in kept
        BY <2>2
      <4> HIDE DEF fewer
      <4> QED
        BY <4>1, FirstOnlyAgrees
    <3>3. FirstOnly(ps, fewer, k + 1) = r[k]
      <4> HIDE DEF fewer
      <4>1. FirstOnly(ps, fewer, k + 1) =
              FirstOnly(ps, fewer, k) \o (IF k + 1 \in fewer THEN Spelled(ps[k + 1]) ELSE <<>>)
        BY <2>11
      <4>2. FirstOnly(ps, fewer, k + 1) = r[k] \o <<>>
        BY <2>1, <3>1, <3>2, <4>1
      <4> QED
        BY <2>3, <4>2, ConcatEmptySeq
    <3>4. ~(Len(all(k + 1)) + MaxNumericSize < SmallBuffer)
      <4> SUFFICES ASSUME Len(all(k + 1)) + MaxNumericSize < SmallBuffer PROVE FALSE
        OBVIOUS
      <4>1. Len(all(k)) + MaxNumericSize < SmallBuffer
        <5> HIDE DEF all, p
        <5> QED
          BY <2>6, <2>7, <2>8
      <4>2. 1..k \subseteq kept
        <5> HIDE DEF all
        <5> QED
          BY <2>1, <4>1
      <4>3. FirstOnly(ps, kept, k) = all(k)
        <5>1. \A i \in 1..k : i \in kept <=> i \in 1..n
          BY <4>2
        <5> QED
          BY <5>1, FirstOnlyAgrees
      <4>4. Len(r[k]) = Len(all(k))
        <5> HIDE DEF all
        <5> QED
          BY <2>1, <4>3
      <4> HIDE DEF all, p
      <4> QED
        BY <2>6, <2>7, <2>8, <2>10, <4>4
    <3>5. Keeps(fewer, k + 1)
      <4> HIDE DEF all, fewer, p
      <4> QED
        BY <2>10, <3>3, <3>4
    <3> HIDE DEF Keeps, fewer
    <3> QED
      BY <2>2, <3>1, <3>5
  <2> QED
    BY <2>4, <2>9, <2>10
<1>7. 0..n \subseteq P
  <2>1. 0 \in Int /\ n \in Int
    BY <1>2
  <2> HIDE DEF P
  <2> QED
    BY <1>5, <1>6, <2>1, Induction
<1>8. PICK kept \in SUBSET (1..n) : Keeps(kept, n)
  <2>1. n \in 0..n
    BY <1>2
  <2> HIDE DEF Keeps
  <2> QED
    BY <1>7, <2>1
<1>9. \A some : FirstOnly(ps, some, n) = Only(ps, some)
  BY <1>2 DEF FirstOnly, Only
<1>10. /\ Len(text) < SmallBuffer
       /\ text = Only(ps, kept)
       /\ Len(Only(ps, DOMAIN ps)) + MaxNumericSize < SmallBuffer => kept = DOMAIN ps
  <2>1. n \in 0..n
    BY <1>2
  <2>2. text = Only(ps, kept) /\ Len(text) < SmallBuffer
    BY <1>3, <1>4, <1>8, <1>9, <2>1
  <2>3. all(n) = Only(ps, DOMAIN ps)
    BY <1>2, <1>9
  <2> QED
    BY <1>2, <1>8, <2>2, <2>3
<1> QED
  BY <1>2, <1>10 DEF Whole, ps, text

(* Every line is made of whole pieces in their order, inside its buffer,   *)
(* without a loss while there is room for a number more, and every number  *)
(* reads back: whatever the numbers, the texts and the sizes (Logger,      *)
(* LogStream's operators, convert, FixedBuffer::append).                   *)
THEOREM LinesAreWhole == Spec => []LinesWhole
<1>1. LinesWhole
  BY NumbersReadBack, LinesAreMade DEF LinesWhole, EveryLineWhole
<1> QED
  BY <1>1, PTL

==============================================================================
