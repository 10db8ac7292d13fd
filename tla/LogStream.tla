------------------------------ MODULE LogStream ------------------------------
(***************************************************************************)
(* base/LogStream.{h,cpp} with Logger's use of it: the text of a log line, *)
(* put together in a buffer of fixed size, as functions.                   *)
(*                                                                         *)
(* A FixedBuffer is the text between data_ and cur_, as a sequence.  What  *)
(* convert() writes is spelled out; any other text is a few tokens.        *)
(***************************************************************************)
EXTENDS Integers, Sequences, SequencesExt

CONSTANTS
  SmallBuffer,      \* kSmallBuffer
  MaxNumericSize,   \* kMaxNumericSize
  Numbers,          \* ints to be converted
  Logged, Texts     \* ints and other things to be logged together

------------------------------------------------------------------------------
(* convert<int>.  digits[] is symmetric about its 0, for the remainder of  *)
(* a negative number is negative.                                          *)
digits == <<"9", "8", "7", "6", "5", "4", "3", "2", "1", "0",
            "1", "2", "3", "4", "5", "6", "7", "8", "9">>
zero == 10

(* i / 10 and i % 10 of C++, which round towards zero.                     *)
Quotient(i) == (i \div 10) + (IF i < 0 /\ i % 10 # 0 THEN 1 ELSE 0)
Remainder(i) == i - 10 * Quotient(i)

(* The digits in the order the loop writes them, the last one first.       *)
Written == [i \in Int |->
              LET from[j \in Int] ==
                    <<digits[zero + Remainder(j)]>>
                      \o (IF Quotient(j) = 0 THEN <<>> ELSE from[Quotient(j)])
              IN  from[i]]

convert(value) == Reverse(Written[value] \o (IF value < 0 THEN <<"-">> ELSE <<>>))

(* v has at most n digits.                                                 *)
HasDigits(v, n) ==
  LET rest[k \in 0..n] == IF k = 0 THEN v ELSE Quotient(rest[k - 1])
  IN  rest[n] = 0

(* The widest integer, its sign and a NUL fit into kMaxNumericSize.        *)
ASSUME LineAssumption ==
  /\ SmallBuffer \in Nat \ {0}
  /\ MaxNumericSize \in Nat /\ MaxNumericSize > 2
  /\ Numbers \cup Logged \subseteq Int
  /\ \A v \in Numbers \cup Logged : HasDigits(v, MaxNumericSize - 2)
  /\ \A t \in Texts : t \in Seq(Range(t))

------------------------------------------------------------------------------
(* FixedBuffer::avail and append.  One byte is always left.                *)
avail(buf) == SmallBuffer - Len(buf)

append(buf, text) == IF avail(buf) > Len(text) THEN buf \o text ELSE buf

(* formateInteger needs room for the longest number, and for its NUL; one  *)
(* that only looks for a free byte overruns the buffer.                    *)
NoRoomNeeded(buf) == avail(buf) > 0
RoomForInteger(buf) == avail(buf) >= MaxNumericSize

(* The operators <<: text (char*, string, char, bool, T), any of the       *)
(* integers, and the floating-point numbers, whose text snprintf makes.    *)
Put(buf, piece) ==
  CASE piece.kind = "text" -> append(buf, piece.text)
    [] piece.kind = "int"  -> IF RoomForInteger(buf) THEN buf \o convert(piece.value) ELSE buf
    [] piece.kind = "real" -> IF avail(buf) > MaxNumericSize THEN buf \o piece.text ELSE buf

Text(t) == [kind |-> "text", text |-> t]
Number(v) == [kind |-> "int", value |-> v]
Real(t) == [kind |-> "real", text |-> t]

(* What a Logger puts into its stream: Impl's constructor, the user, and   *)
(* the destructor.                                                         *)
Pieces(user, line) ==
  <<Text(<<"time">>), Text(<<"tid">>)>> \o user
    \o <<Text(<<" --">>), Text(<<"file">>), Text(<<":">>), Number(line), Text(<<"\n">>)>>

(* The buffer the destructor hands to output().                            *)
LogLine(user, line) == FoldLeft(Put, <<>>, Pieces(user, line))

------------------------------------------------------------------------------
(* What is right about a line.                                             *)

Unsigned(text) == IF Head(text) = "-" THEN Tail(text) ELSE text

ValueOf(text) ==
  LET sign == IF Head(text) = "-" THEN -1 ELSE 1
      Digit(d) == (CHOOSE k \in zero..Len(digits) : digits[k] = d) - zero
  IN  FoldLeft(LAMBDA v, d : 10 * v + sign * Digit(d), 0, Unsigned(text))

(* A number is written so that it reads back as itself, without leading    *)
(* zeros, and with room for the NUL behind it (convert).                   *)
ReadsBack(v) ==
  /\ Len(convert(v)) < MaxNumericSize
  /\ ValueOf(convert(v)) = v
  /\ Head(Unsigned(convert(v))) = "0" => v = 0

(* What snprintf makes of a floating-point number is as short.             *)
RealTexts == {t \in Texts : Len(t) < MaxNumericSize}

UserPieces == {Text(t) : t \in Texts} \cup {Real(t) : t \in RealTexts} \cup {Number(v) : v \in Logged}
Users == {<<>>} \cup {<<p>> : p \in UserPieces} \cup {<<p, q>> : p, q \in UserPieces}

Spelled(p) == IF p.kind = "int" THEN convert(p.value) ELSE p.text

(* The text of those of the pieces that are in kept.                       *)
Only(ps, kept) ==
  FlattenSeq([i \in DOMAIN ps |-> IF i \in kept THEN Spelled(ps[i]) ELSE <<>>])

(* A line is made of whole pieces in their order, stays inside its buffer, *)
(* and loses none while there is room for a number more.                   *)
Whole(user, line) ==
  \E ps \in {Pieces(user, line)}, text \in {LogLine(user, line)} :
    /\ Len(text) < SmallBuffer
    /\ \E kept \in SUBSET DOMAIN ps :
         /\ text = Only(ps, kept)
         /\ Len(Only(ps, DOMAIN ps)) + MaxNumericSize < SmallBuffer => kept = DOMAIN ps

EveryLineWhole ==
  /\ \A v \in Numbers : ReadsBack(v)
  /\ \A user \in Users, line \in Logged : Whole(user, line)
==============================================================================
