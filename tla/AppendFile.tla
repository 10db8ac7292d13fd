----------------------------- MODULE AppendFile ------------------------------
(***************************************************************************)
(* base/FileUtil.cpp: AppendFile::append, which writes a line to a stream  *)
(* that may take it in parts or not at all, as a function.                 *)
(***************************************************************************)
EXTENDS Naturals, Sequences, SequencesExt

CONSTANTS
  MaxCalls,     \* bound: after so many calls of fwrite the stream takes nothing
  MaxTaken      \* bound: the most the stream takes at a time

ASSUME AppendAssumption == MaxCalls \in Nat \ {0} /\ MaxTaken \in Nat

(* taken[i] is what the stream would take in the i-th call.                *)
Streams == [1..MaxCalls -> 0..MaxTaken]

(* fwrite_unlocked's result.                                               *)
write(taken, i, len) ==
  IF i > MaxCalls THEN 0
  ELSE IF taken[i] < len THEN taken[i] ELSE len

(* What goes out of logline + n; and from logline itself.                  *)
ChunkOfWhole(logline, n, x) == SubSeq(logline, 1, x)
Chunk(logline, n, x) == SubSeq(logline, n + 1, n + x)

(* The first write is made before the loop, and may fail without an end;   *)
(* from[i][n] is the loop from its i-th write on, n bytes being written.   *)
(* The write after the last call takes nothing and ends it.                *)
AppendToFile(logline, taken) ==
  LET from[i \in 2..(MaxCalls + 1)] ==
        [n \in 0..Len(logline) |->
           LET x == write(taken, i, Len(logline) - n)
           IN  IF x = 0 THEN <<>> ELSE Chunk(logline, n, x) \o from[i + 1][n + x]]
      first == write(taken, 1, Len(logline))
  IN  Chunk(logline, 0, first) \o from[2][first]

------------------------------------------------------------------------------
(* What is right about the file.                                           *)

(* The i-th call is the first after call 1 in which the stream takes       *)
(* nothing, though it is given something.                                  *)
Refuses(taken, i) == write(taken, i, 1) = 0
FirstRefusal(taken, i) == Refuses(taken, i) /\ \A j \in 2..(i - 1) : ~Refuses(taken, j)

(* How much a stream can take in its first k calls.                        *)
Offers(taken) ==
  LET sum[k \in 0..MaxCalls] == IF k = 0 THEN 0 ELSE sum[k - 1] + taken[k]
  IN  sum

(* The file gets a text from its beginning on, nothing twice and nothing   *)
(* out of order: all of it, or as much as the stream takes before the      *)
(* first call after call 1 in which it takes nothing.                      *)
AppendsInOrder(logline, taken) ==
  \E i \in 2..(MaxCalls + 1) :
    /\ FirstRefusal(taken, i)
    /\ AppendToFile(logline, taken) =
         SubSeq(logline, 1, LET offered == Offers(taken)[i - 1]
                            IN  IF offered < Len(logline) THEN offered ELSE Len(logline))
==============================================================================
