----------------------------- MODULE HttpParser ------------------------------
(***************************************************************************)
(* HttpData's parser: parseURI, parseHeaders and analysisRequest, as       *)
(* operators from the members they read to the members they write.         *)
(*                                                                         *)
(* Text is a sequence of tokens.  The characters the parser looks for are  *)
(* tokens of their own; a word is a token as well, for the parser treats   *)
(* all its characters but the first alike.  "long" stands for a run of     *)
(* more than 255 characters.  Positions count from 0, as in the code, and  *)
(* -1 is "not set".                                                        *)
(***************************************************************************)
EXTENDS Integers, Sequences, SequencesExt

SingleCharacters == {"CR", "LF", " ", ":", "/", "?"}

(* What is left of a text that loses its first character.                  *)
WithoutFirst(str) ==
  IF Head(str) \in SingleCharacters THEN Tail(str)
  ELSE <<"rest">> \o Tail(str)

(* The position of the first c in str from position "from" on, in TLA+'s   *)
(* counting from 1; 0 if there is none.                                    *)
Find(str, c, from) == SelectInSubSeq(str, from, Len(str), LAMBDA x : x = c)

------------------------------------------------------------------------------
(* parseURI.                                                               *)

CutQuery(name) ==
  LET mark == Find(name, "?", 1)
  IN  IF mark = 0 THEN name ELSE SubSeq(name, 1, mark - 1)

(* Takes the first line off str, whether or not it is well-formed.  An     *)
(* incomplete line is left alone.  method and file are the members before  *)
(* the call; an ill-formed line may change them all the same.              *)
ParseURI(str, method, file) ==
  LET cr    == Find(str, "CR", 1)
      line  == SubSeq(str, 1, cr - 1)
      get   == Find(line, "GET", 1)
      verb  == IF get # 0 THEN get ELSE Find(line, "HEAD", 1)
      slash == Find(line, "/", verb)
      space == Find(line, " ", slash)
      name  == SubSeq(line, slash + 1, space - 1)
      slash2 == Find(line, "/", space)
      goodVersion == \E i \in DOMAIN line :
                       slash2 # 0 /\ i = slash2 + 1 /\ line[i] \in {"1.0", "1.1"}
      parsed(result, m, f) ==
        [result |-> result, rest |-> SubSeq(str, cr + 1, Len(str)), method |-> m, file |-> f]
      index == <<"index.html">>
  IN  IF cr = 0 THEN [result |-> "AGAIN", rest |-> str, method |-> method, file |-> file]
      ELSE IF verb = 0 THEN parsed("ERROR", method, file)
      ELSE IF slash = 0 THEN parsed("SUCCESS", line[verb], index)
      ELSE IF space = 0 THEN parsed("ERROR", line[verb], file)
      ELSE parsed(IF goodVersion THEN "SUCCESS" ELSE "ERROR", line[verb],
                  IF name = <<>> THEN index ELSE CutQuery(name))

------------------------------------------------------------------------------
(* parseHeaders: a machine that is fed one token at a time.  hState and    *)
(* headers are members and survive from call to call; the positions are    *)
(* locals and do not.                                                      *)

(* The string between two positions.  A start of -1 is one character in    *)
(* front of the text: the result begins with the byte that happens to be   *)
(* there, in every build a zero of a size field, never a letter.           *)
Between(str, from, to) ==
  IF from >= 0 THEN SubSeq(str, from + 1, to)
  ELSE IF to > from THEN <<"garbage">> \o SubSeq(str, 1, to)
  ELSE <<>>

(* headers[key] = value.                                                   *)
WithHeader(headers, key, value) ==
  [k \in DOMAIN headers \cup {key} |-> IF k = key THEN value ELSE headers[k]]

(* One turn of the loop, i its counter.                                    *)
Step(str, p, c) ==
  LET i == p.i
      q == [p EXCEPT !.i = i + 1]
      goTo(s) == [q EXCEPT !.hState = s]
      fail == [q EXCEPT !.verdict = "ERROR"]
      startKey == [goTo("H_KEY") EXCEPT !.keyStart = i]
  IN  CASE p.hState = "H_START" ->
             IF c \in {"CR", "LF"} THEN q ELSE [startKey EXCEPT !.lineBegin = i]
        [] p.hState = "H_KEY" ->
             IF c \in {"CR", "LF"} \/ (c = ":" /\ i <= p.keyStart) THEN fail
             ELSE IF c = ":" THEN [goTo("H_COLON") EXCEPT !.keyEnd = i] ELSE q
        [] p.hState = "H_COLON" ->
             IF c = " " THEN goTo("H_SPACES_AFTER_COLON") ELSE fail
        [] p.hState = "H_SPACES_AFTER_COLON" ->
             IF c = "long" THEN fail ELSE [goTo("H_VALUE") EXCEPT !.valueStart = i]
        [] p.hState = "H_VALUE" ->
             IF c = "long" \/ (c = "CR" /\ i <= p.valueStart) THEN fail
             ELSE IF c = "CR" THEN [goTo("H_CR") EXCEPT !.valueEnd = i] ELSE q
        [] p.hState = "H_CR" ->
             IF c # "LF" THEN fail
             ELSE [goTo("H_LF") EXCEPT
                     !.lineBegin = i,
                     !.headers = WithHeader(@, Between(str, p.keyStart, p.keyEnd),
                                               Between(str, p.valueStart, p.valueEnd))]
        [] p.hState = "H_LF" ->
             IF c = "CR" THEN goTo("H_BLANK_LINE_CR") ELSE startKey
        [] p.hState = "H_BLANK_LINE_CR" ->
             IF c = "LF" THEN goTo("H_BLANK_LINE_LF") ELSE fail
        [] p.hState = "H_BLANK_LINE_LF" ->
             [q EXCEPT !.verdict = "SUCCESS"]

(* The turn that ends the loop without an error has consumed the first     *)
(* character behind the blank line.  A text that ends with the blank line  *)
(* is parsed as well.  An incomplete one is cut down to where its last     *)
(* line begins.                                                            *)
ParseHeaders(str, hState, headers) ==
  LET begin == [hState |-> hState, headers |-> headers, i |-> 0, lineBegin |-> 0,
                keyStart |-> -1, keyEnd |-> -1, valueStart |-> -1, valueEnd |-> -1,
                verdict |-> "AGAIN"]
      run[k \in 0..Len(str)] ==
        IF k = 0 THEN begin
        ELSE LET q == run[k - 1]
             IN  IF q.verdict = "AGAIN" THEN Step(str, q, str[k]) ELSE q
      p == run[Len(str)]
      parsed(result, rest) ==
        [result |-> result, rest |-> rest, hState |-> p.hState, headers |-> p.headers]
      from(k) == SubSeq(str, k + 1, Len(str))
  IN  IF p.verdict = "ERROR" THEN parsed("ERROR", str)
      ELSE IF p.verdict = "SUCCESS" THEN parsed("SUCCESS", WithoutFirst(from(p.i - 1)))
      ELSE IF p.hState = "H_BLANK_LINE_LF" THEN parsed("SUCCESS", <<>>)
      ELSE parsed("AGAIN", from(p.lineBegin))

------------------------------------------------------------------------------
(* analysisRequest.                                                        *)

(* The directory: files that can be read, one that cannot be opened, one   *)
(* of length zero, which mmap refuses; no other name can be found.         *)
Readable == {<<"index.html">>, <<"p1">>, <<"p2">>}
Unopenable == {<<"locked">>, <<"empty">>}

(* Two units of output for every answer, so that a write can stop between. *)
Header(file) == [file |-> file, part |-> "header"]
Body(file) == [file |-> file, part |-> "body"]

(* Faulty: any header will do.                                             *)
HasHeaders(headers) == DOMAIN headers # {}

AsksKeepAlive(headers) ==
  /\ <<"Connection">> \in DOMAIN headers
  /\ headers[<<"Connection">>] \in {<<"Keep-Alive">>, <<"Keep-alive">>}

(* favicon.ico comes from memory, whatever the method.  A file that cannot *)
(* be read after all takes back everything in outBuffer_ ("out").          *)
AnalysisRequest(method, file, out) ==
  LET whole == <<Header(file), Body(file)>>
      done(answer) == [result |-> "SUCCESS", out |-> out \o answer]
  IN  CASE file = <<"favicon.ico">> -> done(whole)
        [] file \in Readable \cup Unopenable /\ method = "HEAD" -> done(<<Header(file)>>)
        [] file \in Readable /\ method = "GET" -> done(whole)
        [] file \in Unopenable /\ method = "GET" -> [result |-> "ERROR", out |-> <<>>]
        [] OTHER -> [result |-> "ERROR", out |-> out]
==============================================================================
