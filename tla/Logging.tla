------------------------------- MODULE Logging -------------------------------
(***************************************************************************)
(* The way of a log line: from the Logger that spells it (LogStream),      *)
(* through the buffers (AsyncLogging), to the stream of a file that may    *)
(* take a buffer in parts (AppendFile).                                    *)
(***************************************************************************)
EXTENDS AsyncLogging, LogStream, AppendFile

(* A line in a buffer has two bytes, so that a write can stop within it.   *)
Bytes(lines) ==
  FlattenSeq([i \in DOMAIN lines |-> <<<<lines[i], "head">>, <<lines[i], "tail">>>>])

------------------------------------------------------------------------------
(* Properties.                                                             *)

(* Whatever ~Logger can hand to output() is made of whole pieces in their  *)
(* order, inside its buffer, and every number in it reads back (Logger,    *)
(* LogStream's operators, convert, FixedBuffer::append).                   *)
LinesWhole == CanAppend => EveryLineWhole

(* The file gets the buffer the backend is about to write from its         *)
(* beginning, nothing twice and nothing out of order, and all of it unless *)
(* the stream takes nothing in a call after the first, and then as much as *)
(* the stream has taken (AppendFile::append).                              *)
FileGetsBuffer ==
  backendPc = "write" /\ MoreToWrite =>
    \A taken \in Streams :
      AppendsInOrder(Bytes(content[buffersToWrite[written + 1]]), taken)
==============================================================================
