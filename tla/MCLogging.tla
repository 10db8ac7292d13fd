------------------------------ MODULE MCLogging ------------------------------
(* Model values for Logging: a heap of a few buffers, numbers and texts.   *)
EXTENDS Logging, MCAsyncLogging

(* Around the rounding of / and %, and the ends of a 32-bit int.           *)
MCNumbers == (-12..12) \cup {-1000, -101, 100, 999, 2147483647, -2147483647 - 1}
MCLogged == {7, -2147483647 - 1}

(* Nothing, a word, and a text that fills most of a Logger's buffer.       *)
MCTexts == {<<>>, <<"word">>, [i \in 1..14 |-> "long"]}
==============================================================================
