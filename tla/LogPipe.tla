------------------------------- MODULE LogPipe -------------------------------
(***************************************************************************)
(* What AsyncLogging promises to the threads that log: a pipe that may     *)
(* leak.  Lines leave the pipe in the order they entered it, none comes    *)
(* out twice, and a line that was never logged does not come out.  Lines   *)
(* are numbered in the order of append.                                    *)
(***************************************************************************)
EXTENDS Naturals, Sequences, Functions

CONSTANT Lines      \* the numbers lines may have

VARIABLES pending,  \* lines accepted and not yet written, oldest first
          file      \* lines written, in order

vars == <<pending, file>>

(* t is what is left of s when some of its lines have leaked: the others   *)
(* keep their order, and none is doubled.                                  *)
LeftOf(t, s) ==
  /\ Range(t) \subseteq Range(s)
  /\ \A i, j \in DOMAIN t : i < j =>
       \A k, l \in DOMAIN s : t[i] = s[k] /\ t[j] = s[l] => k < l

Init == /\ pending = <<>>
        /\ file = <<>>

(* The newest line enters behind all the others, some of which may leak.   *)
Accept(n) ==
  /\ \A m \in Range(pending) \cup Range(file) : m < n
  /\ \E rest \in {SubSeq(pending', 1, Len(pending') - 1)} :
       LeftOf(rest, pending) /\ pending' = Append(rest, n)
  /\ UNCHANGED file

Write(k) ==
  /\ k \in 1..Len(pending)
  /\ file' = file \o SubSeq(pending, 1, k)
  /\ pending' = SubSeq(pending, k + 1, Len(pending))

Leak ==
  /\ pending' \in Seq(Lines)
  /\ LeftOf(pending', pending)
  /\ UNCHANGED file

Next == \/ \E n \in Lines : Accept(n)
        \/ \E k \in 1..Len(pending) : Write(k)
        \/ Leak

Spec == Init /\ [][Next]_vars
==============================================================================
