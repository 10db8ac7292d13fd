---------------------------- MODULE MCAsyncLogging ----------------------------
(* Model values for AsyncLogging: a heap of a few buffers.                 *)
EXTENDS AsyncLogging

CONSTANTS b1, b2, b3, b4, b5, b6, b7, b8, b9

MCBuffers == {b1, b2, b3, b4, b5, b6, b7, b8, b9}
==============================================================================
