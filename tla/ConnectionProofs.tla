-------------------------- MODULE ConnectionProofs ---------------------------
(***************************************************************************)
(* Proofs about Connection for every peer, socket size and way to cut the  *)
(* requests: a connection is watched for what it waits for, and every      *)
(* variable keeps its type.                                                *)
(*                                                                         *)
(* The first result needs little of the parser: each stage keeps the       *)
(* connection state, never takes back an error, and adds units of output   *)
(* or drops them.  The second needs all of it, the loop over the           *)
(* characters of the headers included.                                     *)
(***************************************************************************)
EXTENDS Connection, SequenceLemmas, TLAPS

Files == Readable \cup Unopenable \cup {<<"favicon.ico">>}
Unit == [file : Files \cup {<<>>}, part : {"header", "body", "400", "404"}]

Fields == {"in", "out", "error", "connectionState", "method", "file", "state",
           "hState", "keepAlive", "headers", "complaint"}

HttpShape(h) ==
  /\ DOMAIN h = Fields
  /\ h.out \in Seq(Unit)
  /\ h.error \in BOOLEAN
  /\ h.connectionState \in {"CONNECTED", "DISCONNECTING", "DISCONNECTED"}
  /\ h.complaint \in {"none", "400", "404"}

(* What a stage of the parser does to the members.                         *)
Follows(h, g) ==
  /\ HttpShape(g)
  /\ g.connectionState = h.connectionState
  /\ h.error => g.error

------------------------------------------------------------------------------
(* The parser.                                                             *)

LEMMA UnitsOfOutput ==
  /\ \A f \in Files : Header(f) \in Unit /\ Body(f) \in Unit
  /\ \A code \in {"400", "404"} : Complaint(code) \in Unit
  BY DEF Unit, Header, Body, Complaint

LEMMA HeaderResults ==
  ASSUME NEW str, NEW hState, NEW headers
  PROVE  ParseHeaders(str, hState, headers).result \in {"SUCCESS", "AGAIN", "ERROR"}
  BY DEF ParseHeaders

LEMMA AnalysisOutput ==
  ASSUME NEW method, NEW file, NEW out \in Seq(Unit)
  PROVE  AnalysisRequest(method, file, out).out \in Seq(Unit)
<1>1. ASSUME NEW f \in Files
      PROVE  /\ out \o <<Header(f)>> \in Seq(Unit)
             /\ out \o <<Header(f), Body(f)>> \in Seq(Unit)
  <2>1. Header(f) \in Unit /\ Body(f) \in Unit
    BY UnitsOfOutput
  <2>2. <<Header(f)>> \in Seq(Unit) /\ <<Header(f), Body(f)>> \in Seq(Unit)
    BY <2>1
  <2> QED
    BY <2>2, ConcatProperties
<1>2. <<>> \in Seq(Unit)
  BY EmptySeq
<1>3. CASE file \in Files
  <2>1. /\ out \o <<Header(file)>> \in Seq(Unit)
        /\ out \o <<Header(file), Body(file)>> \in Seq(Unit)
    BY <1>1, <1>3
  <2> HIDE DEF Files
  <2> QED
    BY <1>2, <2>1 DEF AnalysisRequest
<1>4. CASE file \notin Files
  BY <1>4 DEF AnalysisRequest, Files
<1> QED
  BY <1>3, <1>4

LEMMA LineFollows == ASSUME NEW h, HttpShape(h) PROVE Follows(h, LineStage(h))
  BY DEF HttpShape, Follows, Fields, LineStage, AfterLine

LEMMA AfterHeadersFollows ==
  ASSUME NEW h, HttpShape(h), NEW p, p.result \in {"SUCCESS", "AGAIN", "ERROR"}
  PROVE  Follows(h, AfterHeaders(h, p))
<1> DEFINE parsed == [h EXCEPT !.in = p.rest, !.hState = p.hState, !.headers = p.headers]
<1>1. Follows(h, parsed)
  BY DEF HttpShape, Follows, Fields
<1>2. Follows(h, [parsed EXCEPT !.state = "ANALYSIS"])
  BY <1>1 DEF HttpShape, Follows, Fields
<1>3. Follows(h, [parsed EXCEPT !.error = TRUE, !.complaint = "400"])
  BY <1>1 DEF HttpShape, Follows, Fields
<1> HIDE DEF parsed
<1>4. AfterHeaders(h, p) = CASE p.result = "SUCCESS" -> [parsed EXCEPT !.state = "ANALYSIS"]
                             [] p.result = "AGAIN"   -> parsed
                             [] p.result = "ERROR"   ->
                                  [parsed EXCEPT !.error = TRUE, !.complaint = "400"]
  BY DEF AfterHeaders, parsed
<1>5. CASE p.result = "SUCCESS"
  BY <1>2, <1>4, <1>5
<1>6. CASE p.result = "AGAIN"
  BY <1>1, <1>4, <1>6
<1>7. CASE p.result = "ERROR"
  BY <1>3, <1>4, <1>7
<1> QED
  BY <1>5, <1>6, <1>7

LEMMA HeadersFollow == ASSUME NEW h, HttpShape(h) PROVE Follows(h, HeaderStage(h))
<1>1. Follows(h, AfterHeaders(h, ParseHeaders(h.in, h.hState, h.headers)))
  BY HeaderResults, AfterHeadersFollows
<1>2. Follows(h, h)
  BY DEF Follows
<1> QED
  BY <1>1, <1>2 DEF HeaderStage

LEMMA AnalysisFollows == ASSUME NEW h, HttpShape(h) PROVE Follows(h, AnalysisStage(h))
  BY AnalysisOutput DEF HttpShape, Follows, Fields, AnalysisStage

LEMMA ParseFollows == ASSUME NEW h, HttpShape(h) PROVE Follows(h, Parse(h))
<1>1. Follows(h, LineStage(h))
  BY LineFollows
<1>2. Follows(LineStage(h), HeaderStage(LineStage(h)))
  BY <1>1, HeadersFollow DEF Follows
<1>3. Follows(HeaderStage(LineStage(h)), AnalysisStage(HeaderStage(LineStage(h))))
  BY <1>2, AnalysisFollows DEF Follows
<1> QED
  BY <1>1, <1>2, <1>3 DEF Parse, Follows

(* handleRead: a connection that goes on had neither an error nor the end  *)
(* of its input.                                                           *)
LEMMA ReadnFollows ==
  ASSUME NEW h, HttpShape(h), NEW data, NEW zero \in BOOLEAN, NEW failed \in BOOLEAN,
         NEW r, r = AfterReadn(h, data, zero, failed)
  PROVE  /\ HttpShape(r)
         /\ r.connectionState \in {h.connectionState, "DISCONNECTING"}
         /\ h.error => r.error
         /\ r.connectionState = "CONNECTED" /\ ~r.error =>
              h.connectionState = "CONNECTED" /\ ~zero /\ ~failed
<1> DEFINE filled == [h EXCEPT !.in = @ \o data,
                               !.connectionState = IF zero THEN "DISCONNECTING" ELSE @]
           emptied == [h EXCEPT !.in = <<>>]
           refused == [h EXCEPT !.error = TRUE, !.complaint = "400"]
<1>1. /\ HttpShape(filled) /\ filled.error = h.error
      /\ filled.connectionState = IF zero THEN "DISCONNECTING" ELSE h.connectionState
  BY DEF HttpShape, Fields
<1>2. HttpShape(emptied) /\ emptied.error = h.error /\ emptied.connectionState = h.connectionState
  BY DEF HttpShape, Fields
<1>3. HttpShape(refused) /\ refused.error /\ refused.connectionState = h.connectionState
  BY DEF HttpShape, Fields
<1>4. Follows(filled, Parse(filled))
  BY <1>1, ParseFollows
<1>5. r = IF h.connectionState = "DISCONNECTING" THEN emptied
          ELSE IF failed THEN refused
          ELSE IF zero /\ data = <<>> THEN filled
          ELSE Parse(filled)
  BY DEF AfterReadn
<1> HIDE DEF filled, emptied, refused
<1> QED
  BY <1>1, <1>2, <1>3, <1>4, <1>5 DEF Follows

------------------------------------------------------------------------------
(* The socket.                                                             *)

OutboxOK == outbox \in Seq(Unit) /\ Len(outbox) <= SndCap

LEMMA WrittenBounds ==
  ASSUME NEW h, HttpShape(h), OutboxOK
  PROVE  /\ Written(h) \in 0..Len(h.out) /\ Len(h.out) \in Nat
         /\ Len(outbox) \in Nat /\ Len(outbox) + Written(h) <= SndCap
         /\ ~h.error /\ peer # "reset" /\ Written(h) < Len(h.out) =>
              Len(outbox) + Written(h) = SndCap
<1>1. Len(h.out) \in Nat /\ Len(outbox) \in Nat /\ Len(outbox) <= SndCap
  BY DEF HttpShape, OutboxOK
<1> QED
  BY <1>1, ConnectionAssumption DEF Written

(* handleWrite: a connection that goes on with output left has filled the  *)
(* socket.                                                                 *)
LEMMA WriteFollows ==
  ASSUME NEW h, HttpShape(h), OutboxOK, NEW w, w = HandleWrite(h)
  PROVE  /\ Follows(h, w)
         /\ OutboxAfterWrite(h) \in Seq(Unit)
         /\ Len(outbox) <= Len(OutboxAfterWrite(h)) /\ Len(OutboxAfterWrite(h)) <= SndCap
         /\ ~w.error /\ w.out # <<>> =>
              peer # "reset" /\ Len(OutboxAfterWrite(h)) = SndCap
<1> DEFINE n == Written(h)
<1>1. /\ n \in 0..Len(h.out) /\ Len(h.out) \in Nat
      /\ Len(outbox) \in Nat /\ Len(outbox) + n <= SndCap
      /\ ~h.error /\ peer # "reset" /\ n < Len(h.out) => Len(outbox) + n = SndCap
  BY WrittenBounds
<1>2. h.out \in Seq(Unit) /\ outbox \in Seq(Unit)
  BY DEF HttpShape, OutboxOK
<1> HIDE DEF n
<1>3. SubSeq(h.out, 1, n) \in Seq(Unit) /\ Len(SubSeq(h.out, 1, n)) = n
  BY <1>1, <1>2, PrefixProperties
<1>4. /\ SubSeq(h.out, n + 1, Len(h.out)) \in Seq(Unit)
      /\ n = Len(h.out) => SubSeq(h.out, n + 1, Len(h.out)) = <<>>
  <2>1. \A i \in (n + 1)..Len(h.out) : h.out[i] \in Unit
    BY <1>1, <1>2
  <2> QED
    BY <1>1, <2>1, SubSeqProperties, SubSeqEmpty
<1>5. /\ w.out = SubSeq(h.out, n + 1, Len(h.out))
      /\ w.error = (h.error \/ WriteFails(h))
      /\ w.connectionState = h.connectionState /\ w.complaint = h.complaint
      /\ DOMAIN w = Fields
  BY DEF HandleWrite, HttpShape, Fields, n
<1>6. WriteFails(h) \in BOOLEAN
  BY DEF WriteFails, HttpShape
<1>7. Follows(h, w)
  BY <1>4, <1>5, <1>6 DEF Follows, HttpShape
<1>8. /\ OutboxAfterWrite(h) \in Seq(Unit)
      /\ Len(OutboxAfterWrite(h)) = Len(outbox) + n
  BY <1>2, <1>3, ConcatProperties DEF OutboxAfterWrite, n
<1>9. ASSUME ~w.error, w.out # <<>> PROVE peer # "reset" /\ Len(outbox) + n = SndCap
  <2>1. n # Len(h.out) /\ ~h.error /\ ~WriteFails(h)
    BY <1>4, <1>5, <1>9
  <2>2. h.out # <<>>
    BY <1>1, <2>1, EmptySeq
  <2>3. peer # "reset"
    BY <2>1, <2>2 DEF WriteFails
  <2> QED
    BY <1>1, <2>1, <2>3
<1>10. Len(outbox) <= Len(OutboxAfterWrite(h)) /\ Len(OutboxAfterWrite(h)) <= SndCap
  BY <1>1, <1>8
<1>11. ~w.error /\ w.out # <<>> => peer # "reset" /\ Len(OutboxAfterWrite(h)) = SndCap
  BY <1>8, <1>9
<1> QED
  BY <1>7, <1>8, <1>10, <1>11

LEMMA ErrorAnswer ==
  ASSUME OutboxOK, NEW code \in {"400", "404"}
  PROVE  /\ HandleError(code) \in Seq(Unit)
         /\ Len(outbox) <= Len(HandleError(code)) /\ Len(HandleError(code)) <= SndCap
<1>1. outbox \in Seq(Unit) /\ Len(outbox) \in Nat /\ Len(outbox) <= SndCap
  BY DEF OutboxOK
<1>2. Complaint(code) \in Unit
  BY UnitsOfOutput
<1>3. /\ Append(outbox, Complaint(code)) \in Seq(Unit)
      /\ Len(Append(outbox, Complaint(code))) = Len(outbox) + 1
  BY <1>1, <1>2, AppendProperties
<1> QED
  BY <1>1, <1>3, ConnectionAssumption DEF HandleError
------------------------------------------------------------------------------
(* The invariant.  Once a peer has finished, or all is over, a connection  *)
(* never becomes CONNECTED again; what follows is about one that is.       *)

Connected == http.connectionState = "CONNECTED"
Busy == {"read", "flush", "write", "conn"}

ShapeInv ==
  /\ HttpShape(http)
  /\ OutboxOK
  /\ pc \in Places
  /\ peer \in {"open", "finished", "reset"}
  /\ edge \in BOOLEAN
  /\ http.connectionState = "DISCONNECTED" <=> pc = "closed"

(* The descriptor is registered for one of three masks, the one Channel    *)
(* remembers, except that a one-shot entry is spent while a handler runs;  *)
(* and the handlers start from an empty mask of their own.                 *)
Masks == {DEFAULT_EVENT, {"IN", "ET"}, {"OUT", "ET"}}

MaskInv ==
  Connected =>
    /\ lastEvents \in Masks
    /\ interest = IF pc # "idle" /\ lastEvents = DEFAULT_EVENT THEN {} ELSE lastEvents
    /\ pc # "idle" => events \subseteq {"IN", "OUT"}

(* What the connection is watched for and is there already is on the ready *)
(* list: while the loop sleeps ...                                         *)
IdleInv ==
  Connected /\ pc = "idle" =>
    /\ ~http.error
    /\ http.out # <<>> => "OUT" \in interest
    /\ Reportable(interest) # {} =>
         edge \/ (peer = "reset" /\ interest = {"OUT", "ET"})

(* ... and while a handler runs, unless that handler is about to drain the *)
(* socket or to fill it up.                                                *)
BusyInv ==
  Connected /\ ~http.error =>
    /\ pc \in {"flush", "write", "conn"} /\ "IN" \in interest /\ InputReady => edge
    /\ pc \in Busy /\ {"OUT"} \subseteq interest \cap events /\ OutputReady => edge
    /\ pc = "conn" /\ http.out # <<>> => "OUT" \in events

CInv == ShapeInv /\ MaskInv /\ IdleInv /\ BusyInv

------------------------------------------------------------------------------
(* Which flags are in which mask.                                          *)
LEMMA MaskFacts ==
  /\ "IN" \in DEFAULT_EVENT /\ "OUT" \notin DEFAULT_EVENT /\ "ONESHOT" \in DEFAULT_EVENT
  /\ DEFAULT_EVENT # {"IN", "ET"} /\ DEFAULT_EVENT # {"OUT", "ET"}
  /\ {"IN", "ET"} # {"OUT", "ET"}
  /\ \A m \in Masks : "ONESHOT" \in m <=> m = DEFAULT_EVENT
  /\ \A m \in Masks : "IN" \in m \/ m = {"OUT", "ET"}
  BY DEF Masks, DEFAULT_EVENT

LEMMA WantedFacts ==
  ASSUME NEW ev, ev \subseteq {"IN", "OUT"}
  PROVE  Wanted(ev) = IF "OUT" \in ev THEN {"OUT", "ET"} ELSE {"IN", "ET"}
<1>1. CASE ev = {}
  BY <1>1 DEF Wanted
<1>2. CASE ev = {"IN"}
  BY <1>2 DEF Wanted
<1>3. CASE ev = {"OUT"}
  BY <1>3 DEF Wanted
<1>4. CASE ev = {"IN", "OUT"}
  BY <1>4 DEF Wanted
<1>5. ev = {} \/ ev = {"IN"} \/ ev = {"OUT"} \/ ev = {"IN", "OUT"}
  <2>1. CASE "IN" \in ev /\ "OUT" \in ev
    BY <2>1
  <2>2. CASE "IN" \in ev /\ "OUT" \notin ev
    BY <2>2
  <2>3. CASE "IN" \notin ev
    BY <2>3
  <2> QED
    BY <2>1, <2>2, <2>3
<1> QED
  BY <1>1, <1>2, <1>3, <1>4, <1>5

(* What there is to report of a mask.                                      *)
LEMMA ReportFacts ==
  ASSUME NEW m, "HUP" \notin m
  PROVE  /\ "IN" \in Reportable(m) <=> "IN" \in m /\ InputReady
         /\ "OUT" \in Reportable(m) <=> "OUT" \in m /\ OutputReady
         /\ Reportable(m) # {} =>
              \/ "IN" \in m /\ InputReady
              \/ "OUT" \in m /\ OutputReady
              \/ peer = "reset"
         /\ "HUP" \in Reportable(m) <=> peer = "reset" /\ m # {}
  BY DEF Reportable

LEMMA ResetIsReady == peer = "reset" => InputReady /\ OutputReady
  BY DEF InputReady, OutputReady

(* What a step leaves alone is as ready as it was.                         *)
LEMMA SameReport ==
  ASSUME UNCHANGED <<inbox, outbox, peer>>
  PROVE  InputReady' = InputReady /\ OutputReady' = OutputReady
  BY DEF InputReady, OutputReady
------------------------------------------------------------------------------
LEMMA InitCInv == Init => CInv
<1> SUFFICES ASSUME Init PROVE CInv
  OBVIOUS
<1>1. HttpShape(http) /\ http.connectionState = "CONNECTED" /\ http.out = <<>> /\ ~http.error
  BY EmptySeq DEF Init, HttpShape, Fields
<1>2. OutboxOK
  BY EmptySeq, ConnectionAssumption DEF Init, OutboxOK
<1>3. ShapeInv
  <2>1. pc = "idle" /\ edge = FALSE /\ peer = "open"
    BY DEF Init
  <2> QED
    BY <1>1, <1>2, <2>1 DEF ShapeInv, Places
<1>4. MaskInv
  BY DEF Init, MaskInv, Masks
<1>5. ~InputReady /\ peer # "reset" /\ interest = DEFAULT_EVENT
  BY DEF Init, InputReady
<1>6. Reportable(interest) = {}
  BY <1>5, MaskFacts, ReportFacts DEF DEFAULT_EVENT
<1>7. IdleInv
  BY <1>1, <1>6 DEF IdleInv
<1>8. BusyInv
  BY DEF Init, BusyInv, Busy
<1> QED
  BY <1>3, <1>4, <1>7, <1>8 DEF CInv

(* What the steps of handleEvent do to the record and the socket.          *)
LEMMA ReadEffect ==
  ASSUME ShapeInv, Read
  PROVE  /\ HttpShape(http') /\ OutboxOK'
         /\ http'.connectionState \in {http.connectionState, "DISCONNECTING"}
         /\ http.error => http'.error
         /\ Connected' /\ ~http'.error => Connected /\ peer = "open"
         /\ Len(outbox) <= Len(outbox')
<1>1. PICK h \in {AfterReadn(http, inbox, peer = "finished", peer = "reset")} :
        /\ http' = h
        /\ outbox' = IF h.complaint = "none" THEN outbox ELSE HandleError(h.complaint)
  BY DEF Read
<1>2. /\ HttpShape(h)
      /\ h.connectionState \in {http.connectionState, "DISCONNECTING"}
      /\ http.error => h.error
      /\ h.connectionState = "CONNECTED" /\ ~h.error =>
           http.connectionState = "CONNECTED" /\ ~(peer = "finished") /\ ~(peer = "reset")
  <2> DEFINE zero == peer = "finished"
             failed == peer = "reset"
  <2>1. zero \in BOOLEAN /\ failed \in BOOLEAN
    OBVIOUS
  <2>2. h = AfterReadn(http, inbox, zero, failed)
    BY <1>1
  <2>3. HttpShape(http)
    BY DEF ShapeInv
  <2> HIDE DEF zero, failed
  <2>4. /\ HttpShape(h)
        /\ h.connectionState \in {http.connectionState, "DISCONNECTING"}
        /\ http.error => h.error
        /\ h.connectionState = "CONNECTED" /\ ~h.error =>
             http.connectionState = "CONNECTED" /\ ~zero /\ ~failed
    BY <2>1, <2>2, <2>3, ReadnFollows
  <2> QED
    BY <2>4 DEF zero, failed
<1>3. h.complaint # "none" =>
        /\ HandleError(h.complaint) \in Seq(Unit)
        /\ Len(outbox) <= Len(HandleError(h.complaint))
        /\ Len(HandleError(h.complaint)) <= SndCap
  <2>1. h.complaint \in {"none", "400", "404"}
    BY <1>2 DEF HttpShape
  <2> QED
    BY <2>1, ErrorAnswer DEF ShapeInv
<1>4. /\ outbox' \in Seq(Unit) /\ Len(outbox') <= SndCap /\ Len(outbox) <= Len(outbox')
  <2>1. outbox \in Seq(Unit) /\ Len(outbox) \in Nat /\ Len(outbox) <= SndCap
    BY DEF ShapeInv, OutboxOK
  <2> QED
    BY <1>1, <1>3, <2>1
<1>5. OutboxOK'
  BY <1>4 DEF OutboxOK
<1> QED
  BY <1>1, <1>2, <1>4, <1>5 DEF Connected, ShapeInv

LEMMA ResetRequestShape ==
  ASSUME NEW h, HttpShape(h)
  PROVE  Follows(h, ResetRequest(h)) /\ ResetRequest(h).out = h.out /\ ResetRequest(h).error = h.error
  BY DEF HttpShape, Fields, Follows, ResetRequest

LEMMA WriteEffect ==
  ASSUME ShapeInv, Flush \/ Write
  PROVE  /\ Follows(http, http') /\ OutboxOK'
         /\ Len(outbox) <= Len(outbox')
         /\ ~http'.error /\ http'.out # <<>> => peer # "reset" /\ Len(outbox') = SndCap
         /\ http'.out = HandleWrite(http).out
<1> DEFINE w == HandleWrite(http)
<1>1. /\ Follows(http, w)
      /\ OutboxAfterWrite(http) \in Seq(Unit)
      /\ Len(outbox) <= Len(OutboxAfterWrite(http))
      /\ Len(OutboxAfterWrite(http)) <= SndCap
      /\ ~w.error /\ w.out # <<>> =>
           peer # "reset" /\ Len(OutboxAfterWrite(http)) = SndCap
  BY WriteFollows DEF ShapeInv
<1>2. outbox' = OutboxAfterWrite(http) /\ (http' = w \/ http' = ResetRequest(w))
  BY DEF Flush, Write
<1>3. Follows(w, ResetRequest(w)) /\ ResetRequest(w).out = w.out /\ ResetRequest(w).error = w.error
  BY <1>1, ResetRequestShape DEF Follows
<1> HIDE DEF w
<1>4. Follows(http, http') /\ http'.out = w.out /\ http'.error = w.error
  BY <1>1, <1>2, <1>3 DEF Follows
<1> QED
  BY <1>1, <1>2, <1>4 DEF OutboxOK, w

LEMMA ReceiveEffect ==
  ASSUME OutboxOK, Receive
  PROVE  OutboxOK'
<1>1. outbox \in Seq(Unit) /\ outbox # <<>> /\ outbox' = Tail(outbox) /\ Len(outbox) <= SndCap
  BY DEF OutboxOK, Receive
<1>2. outbox' \in Seq(Unit) /\ Len(outbox') = Len(outbox) - 1 /\ Len(outbox) \in Nat
  BY <1>1, HeadTailProperties
<1>3. Len(outbox') <= SndCap
  BY <1>1, <1>2, ConnectionAssumption
<1> QED
  BY <1>2, <1>3 DEF OutboxOK

LEMMA CloseEffect ==
  ASSUME HttpShape(http), Close
  PROVE  HttpShape(http') /\ http'.connectionState = "DISCONNECTED"
  BY DEF HttpShape, Fields, Close

LEMMA ShapeStep == CInv /\ [Next]_vars => ShapeInv'
<1> SUFFICES ASSUME CInv, [Next]_vars PROVE ShapeInv'
  OBVIOUS
<1>1. ShapeInv
  BY DEF CInv
<1>2. CASE Poll
  <2>1. UNCHANGED <<http, outbox, peer>> /\ pc = "idle" /\ edge' = FALSE
    BY <1>2 DEF Poll, peerVars
  <2>2. pc' \in Places \ {"closed"}
    BY <1>2 DEF Poll, FirstHandler, AfterRead, Places
  <2> QED
    BY <1>1, <2>1, <2>2 DEF ShapeInv, OutboxOK
<1>3. CASE Read
  <2>1. UNCHANGED <<peer, edge>> /\ pc = "read" /\ pc' = "flush"
    BY <1>3 DEF Read, peerVars
  <2> QED
    BY <1>1, <1>3, <2>1, ReadEffect DEF ShapeInv, HttpShape, Places
<1>4. CASE Flush \/ Write
  <2>1. UNCHANGED <<peer, edge>> /\ pc # "closed"
    BY <1>4 DEF Flush, Write, peerVars
  <2>2. pc' \in Places \ {"closed"}
    BY <1>4 DEF Flush, Write, AfterRead, Places
  <2> QED
    BY <1>1, <1>4, <2>1, <2>2, WriteEffect DEF ShapeInv, Follows
<1>5. CASE GoOn
  <2>1. UNCHANGED <<http, outbox, peer>> /\ pc = "conn" /\ pc' = "idle"
    BY <1>5 DEF GoOn, peerVars
  <2>2. edge' \in BOOLEAN
    BY <1>1, <1>5 DEF GoOn, EpollMod, ShapeInv
  <2> QED
    BY <1>1, <2>1, <2>2 DEF ShapeInv, OutboxOK, Places
<1>6. CASE AwaitOutput
  BY <1>1, <1>6 DEF AwaitOutput, peerVars, ShapeInv, OutboxOK, Places
<1>7. CASE Close
  <2>1. UNCHANGED <<outbox, peer>> /\ pc' = "closed" /\ edge' = FALSE
    BY <1>7 DEF Close, peerVars
  <2> QED
    BY <1>1, <1>7, <2>1, CloseEffect DEF ShapeInv, OutboxOK, Places
<1>8. CASE Send \/ Finish
  <2>1. UNCHANGED <<http, outbox, pc>> /\ peer' \in {"open", "finished", "reset"}
    BY <1>1, <1>8 DEF Send, Finish, ShapeInv
  <2>2. edge' \in BOOLEAN
    BY <1>8 DEF Send, Finish
  <2> QED
    BY <1>1, <2>1, <2>2 DEF ShapeInv, OutboxOK
<1>9. CASE Reset
  <2>1. UNCHANGED <<http, pc>> /\ peer' = "reset" /\ outbox' = <<>> /\ edge' \in BOOLEAN
    BY <1>9 DEF Reset
  <2>2. OutboxOK'
    BY <2>1, EmptySeq, ConnectionAssumption DEF OutboxOK
  <2> QED
    BY <1>1, <2>1, <2>2 DEF ShapeInv
<1>10. CASE Receive
  <2>1. UNCHANGED <<http, peer, pc>> /\ edge' \in BOOLEAN
    BY <1>10 DEF Receive
  <2> QED
    BY <1>1, <1>10, <2>1, ReceiveEffect DEF ShapeInv
<1>11. CASE UNCHANGED vars
  BY <1>1, <1>11 DEF vars, ShapeInv, OutboxOK
<1> QED
  BY <1>2, <1>3, <1>4, <1>5, <1>6, <1>7, <1>8, <1>9, <1>10, <1>11 DEF Next, ServerStep
(* What a report does: the only handlers a healthy connection enters with  *)
(* nothing read are those of a descriptor watched for output.              *)
LEMMA PollEffect ==
  ASSUME CInv, Poll, Connected
  PROVE  /\ lastEvents' = lastEvents /\ UNCHANGED <<http, inbox, outbox, peer>>
         /\ \/ /\ pc' = "idle" /\ interest' = interest
               /\ Reportable(interest) # {} => peer = "reset" /\ interest = {"OUT", "ET"}
            \/ /\ pc' \in {"read", "write"} /\ events' = {}
               /\ pc' = "write" => "IN" \notin interest
               /\ interest' = IF lastEvents = DEFAULT_EVENT THEN {} ELSE interest
<1>1. /\ pc = "idle" /\ lastEvents \in Masks /\ interest = lastEvents
      /\ lastEvents' = lastEvents /\ UNCHANGED <<http, inbox, outbox, peer>>
  BY DEF CInv, MaskInv, Poll, peerVars
<1>2. "HUP" \notin interest
  BY <1>1 DEF Masks, DEFAULT_EVENT
<1>3. ("ONESHOT" \in interest) <=> (lastEvents = DEFAULT_EVENT)
  BY <1>1, MaskFacts
<1>4. "IN" \in interest \/ interest = {"OUT", "ET"}
  BY <1>1, MaskFacts
<1> DEFINE reported == Reportable(interest)
<1>5. /\ "IN" \in reported <=> "IN" \in interest /\ InputReady
      /\ "OUT" \in reported <=> "OUT" \in interest /\ OutputReady
      /\ reported # {} =>
           \/ "IN" \in interest /\ InputReady
           \/ "OUT" \in interest /\ OutputReady
           \/ peer = "reset"
      /\ "HUP" \in reported <=> peer = "reset" /\ interest # {}
  BY <1>2, ReportFacts
<1>6. IF reported = {} THEN UNCHANGED <<interest, events, revents, pc>>
      ELSE /\ interest' = IF "ONESHOT" \in interest THEN {} ELSE interest
           /\ events' = {}
           /\ pc' = IF Ignored(reported) THEN "idle" ELSE FirstHandler(reported)
  BY DEF Poll
<1> HIDE DEF reported
<1>7. CASE reported = {}
  BY <1>1, <1>6, <1>7 DEF reported
<1>8. CASE reported # {} /\ Ignored(reported)
  <2>1. "IN" \notin interest /\ peer = "reset"
    BY <1>5, <1>8, ResetIsReady DEF Ignored
  <2> QED
    BY <1>1, <1>3, <1>4, <1>6, <1>8, <2>1, MaskFacts
<1>9. CASE reported # {} /\ ~Ignored(reported)
  <2>1. "IN" \in reported \/ "OUT" \in reported
    BY <1>4, <1>5, <1>9 DEF Ignored
  <2>2. "IN" \in interest => "IN" \in reported
    BY <1>1, <1>5, <1>9, <2>1, MaskFacts DEF Masks, DEFAULT_EVENT
  <2> QED
    BY <1>1, <1>3, <1>6, <1>9, <2>1, <2>2 DEF FirstHandler, AfterRead
<1> QED
  BY <1>7, <1>8, <1>9

LEMMA MaskStep == CInv /\ [Next]_vars => MaskInv'
<1> SUFFICES ASSUME CInv, [Next]_vars, Connected' PROVE MaskInv'
  BY DEF MaskInv
<1>1. ShapeInv /\ MaskInv
  BY DEF CInv
<1>2. CASE Poll
  <2>1. Connected
    BY <1>2 DEF Poll, Connected
  <2>2. pc = "idle" /\ lastEvents \in Masks /\ interest = lastEvents
    BY <1>1, <1>2, <2>1 DEF Poll, MaskInv
  <2>3. lastEvents' = lastEvents
    BY <1>2 DEF Poll
  <2>4. \/ pc' = "idle" /\ interest' = interest
        \/ /\ pc' \in {"read", "write"} /\ events' = {}
           /\ interest' = IF lastEvents = DEFAULT_EVENT THEN {} ELSE interest
    BY <1>2, <2>1, PollEffect
  <2>5. CASE pc' = "idle" /\ interest' = interest
    BY <2>2, <2>3, <2>5 DEF MaskInv
  <2>6. CASE /\ pc' \in {"read", "write"} /\ events' = {}
             /\ interest' = IF lastEvents = DEFAULT_EVENT THEN {} ELSE interest
    BY <2>2, <2>3, <2>6 DEF MaskInv
  <2> QED
    BY <2>4, <2>5, <2>6
<1>3. CASE Read
  <2>1. Connected
    BY <1>1, <1>3, ReadEffect DEF Connected
  <2>2. pc = "read" /\ pc' = "flush" /\ UNCHANGED <<interest, lastEvents, events>>
    BY <1>3 DEF Read, channelVars
  <2> QED
    BY <1>1, <2>1, <2>2 DEF MaskInv
<1>4. CASE Flush \/ Write
  <2>1. Connected
    BY <1>1, <1>4, WriteEffect DEF Connected, Follows
  <2>2. pc \in {"flush", "write"} /\ pc' # "idle" /\ UNCHANGED <<interest, lastEvents>>
    BY <1>4 DEF Flush, Write, AfterRead
  <2>3. events \subseteq {"IN", "OUT"}
    BY <1>1, <2>1, <2>2 DEF MaskInv
  <2>4. EventsAfterWrite(http, events) \subseteq {"IN", "OUT"}
    BY <2>3 DEF EventsAfterWrite
  <2>5. events' \subseteq {"IN", "OUT"}
    BY <1>4, <2>4 DEF Flush, Write
  <2> QED
    BY <1>1, <2>1, <2>2, <2>5 DEF MaskInv
<1>5. CASE GoOn
  <2>1. Connected /\ pc = "conn" /\ pc' = "idle"
    BY <1>5 DEF GoOn, Connected
  <2>2. events \subseteq {"IN", "OUT"}
    BY <1>1, <2>1 DEF MaskInv
  <2>3. Wanted(events) \in {{"IN", "ET"}, {"OUT", "ET"}}
    BY <2>2, WantedFacts
  <2>4. /\ lastEvents' = Wanted(events)
        /\ interest' = IF lastEvents = Wanted(events) THEN interest ELSE Wanted(events)
    BY <1>5 DEF GoOn, EpollMod, EqualLastEvents
  <2>5. lastEvents = Wanted(events) => interest = lastEvents
    BY <1>1, <2>1, <2>3, MaskFacts DEF MaskInv
  <2> QED
    BY <2>1, <2>3, <2>4, <2>5 DEF MaskInv, Masks
<1>6. CASE AwaitOutput \/ Close
  BY <1>1, <1>6, CloseEffect DEF AwaitOutput, OwesOutput, ShapeInv, Connected
<1>7. CASE Send \/ Finish \/ Reset \/ Receive \/ UNCHANGED vars
  <2>1. UNCHANGED <<http, pc, interest, lastEvents, events>>
    BY <1>7 DEF Send, Finish, Reset, Receive, channelVars, vars
  <2> QED
    BY <1>1, <2>1 DEF MaskInv, Connected
<1> QED
  BY <1>2, <1>3, <1>4, <1>5, <1>6, <1>7 DEF Next, ServerStep
(* What can be reported of a registered mask after a step.                 *)
LEMMA ReportNext ==
  ASSUME MaskInv', Connected', pc' = "idle"
  PROVE  /\ interest' \in Masks
         /\ Reportable(interest)' # {} =>
              \/ "IN" \in interest' /\ InputReady'
              \/ "OUT" \in interest' /\ OutputReady'
              \/ peer' = "reset"
<1>1. interest' \in Masks
  BY DEF MaskInv
<1> QED
  BY <1>1 DEF Reportable

LEMMA ReportNow ==
  ASSUME MaskInv, Connected, pc = "idle"
  PROVE  /\ interest \in Masks
         /\ \/ "IN" \in interest /\ InputReady
            \/ "OUT" \in interest /\ OutputReady
            \/ peer = "reset"
            => Reportable(interest) # {}
<1>1. interest \in Masks
  BY DEF MaskInv
<1>2. "HUP" \notin interest /\ interest # {}
  BY <1>1 DEF Masks, DEFAULT_EVENT
<1> QED
  BY <1>1, <1>2, ReportFacts

(* A connection comes to rest by a report that is not handled, or by       *)
(* handleConn, and is disturbed by the peer alone.                         *)
LEMMA IdleStep == CInv /\ [Next]_vars => IdleInv'
<1> SUFFICES ASSUME CInv, [Next]_vars, Connected', pc' = "idle" PROVE IdleInv'
  BY DEF IdleInv
<1>1. ShapeInv /\ MaskInv /\ IdleInv /\ BusyInv
  BY DEF CInv
<1>2. /\ interest' \in Masks
      /\ Reportable(interest)' # {} =>
           \/ "IN" \in interest' /\ InputReady'
           \/ "OUT" \in interest' /\ OutputReady'
           \/ peer' = "reset"
  BY MaskStep, ReportNext
<1>3. ASSUME Connected, pc = "idle"
      PROVE  /\ interest \in Masks
             /\ \/ "IN" \in interest /\ InputReady
                \/ "OUT" \in interest /\ OutputReady
                \/ peer = "reset"
                => edge \/ (peer = "reset" /\ interest = {"OUT", "ET"})
             /\ ~http.error
             /\ http.out # <<>> => "OUT" \in interest
  BY <1>1, <1>3, ReportNow DEF IdleInv
<1>4. CASE Poll
  <2>1. Connected /\ pc = "idle" /\ UNCHANGED <<http, peer>>
    BY <1>4 DEF Poll, Connected, peerVars
  <2>2. /\ interest' = interest /\ UNCHANGED <<inbox, outbox, peer>>
        /\ Reportable(interest) # {} => peer = "reset" /\ interest = {"OUT", "ET"}
    BY <1>4, <2>1, PollEffect
  <2>3. InputReady' = InputReady /\ OutputReady' = OutputReady
    BY <2>2, SameReport
  <2>4. Reportable(interest)' # {} => Reportable(interest) # {}
    BY <1>1, <1>2, <2>1, <2>2, <2>3, ReportNow
  <2> QED
    BY <1>3, <2>1, <2>2, <2>4 DEF IdleInv
<1>5. CASE Read \/ Flush \/ Write
  BY <1>5 DEF Read, Flush, Write, AfterRead
<1>6. CASE GoOn
  <2>1. /\ Connected /\ ~http.error /\ pc = "conn"
        /\ UNCHANGED <<http, inbox, outbox, peer>>
    BY <1>6 DEF GoOn, Connected, peerVars
  <2>2. InputReady' = InputReady /\ OutputReady' = OutputReady
    BY <2>1, SameReport
  <2>3. events \subseteq {"IN", "OUT"} /\ (http.out # <<>> => "OUT" \in events)
    BY <1>1, <2>1 DEF MaskInv, BusyInv
  <2>4. Wanted(events) = IF "OUT" \in events THEN {"OUT", "ET"} ELSE {"IN", "ET"}
    BY <2>3, WantedFacts
  <2>5. IF lastEvents = Wanted(events) THEN UNCHANGED <<interest, edge>>
        ELSE /\ interest' = Wanted(events)
             /\ edge' = (edge \/ Reportable(Wanted(events)) # {})
    BY <1>6 DEF GoOn, EpollMod, EqualLastEvents
  <2>6. lastEvents = Wanted(events) => interest = Wanted(events)
    BY <1>1, <2>1, <2>4, MaskFacts DEF MaskInv
  <2>7. interest' = Wanted(events)
    BY <2>5, <2>6
  <2>8. Reportable(interest)' # {} => edge'
    <3> SUFFICES ASSUME Reportable(interest)' # {} PROVE edge'
      OBVIOUS
    <3>1. \/ "IN" \in Wanted(events) /\ InputReady
          \/ "OUT" \in Wanted(events) /\ OutputReady
          \/ peer = "reset"
      BY <1>2, <2>1, <2>2, <2>7
    <3>2. CASE lastEvents = Wanted(events)
      <4>1. interest = Wanted(events) /\ edge' = edge
        BY <2>5, <2>6, <3>2
      <4>2. CASE "OUT" \in events
        BY <1>1, <2>1, <2>4, <3>1, <4>1, <4>2, ResetIsReady DEF BusyInv, Busy
      <4>3. CASE "OUT" \notin events
        BY <1>1, <2>1, <2>4, <3>1, <4>1, <4>3, ResetIsReady DEF BusyInv
      <4> QED
        BY <4>2, <4>3
    <3>3. CASE lastEvents # Wanted(events)
      <4>1. "HUP" \notin Wanted(events) /\ Wanted(events) # {}
        BY <2>4
      <4>2. Reportable(Wanted(events)) # {}
        BY <3>1, <4>1, ReportFacts
      <4> QED
        BY <2>5, <3>3, <4>2
    <3> QED
      BY <3>2, <3>3
  <2>9. http'.out # <<>> => "OUT" \in interest'
    BY <2>1, <2>3, <2>4, <2>7
  <2> QED
    BY <2>1, <2>8, <2>9 DEF IdleInv
<1>7. CASE AwaitOutput \/ Close
  BY <1>1, <1>7, CloseEffect DEF AwaitOutput, OwesOutput, ShapeInv, Connected
<1>8. CASE Send \/ Finish
  <2>1. /\ Connected /\ pc = "idle" /\ UNCHANGED <<http, outbox, interest>>
        /\ peer = "open" /\ peer' # "reset" /\ edge' = (edge \/ "IN" \in interest)
    BY <1>8 DEF Send, Finish, Connected
  <2>2. OutputReady' => OutputReady
    BY <2>1 DEF OutputReady
  <2> QED
    BY <1>2, <1>3, <2>1, <2>2 DEF IdleInv
<1>9. CASE Reset
  <2>1. /\ Connected /\ pc = "idle" /\ UNCHANGED <<http, interest>>
        /\ edge' = (edge \/ interest # {})
    BY <1>9 DEF Reset, Connected
  <2>2. interest # {}
    BY <1>3, <2>1, MaskFacts
  <2> QED
    BY <1>3, <2>1, <2>2 DEF IdleInv
<1>10. CASE Receive
  <2>1. /\ Connected /\ pc = "idle" /\ UNCHANGED <<http, interest, inbox, peer>>
        /\ edge' = (edge \/ "OUT" \in interest)
    BY <1>10 DEF Receive, Connected
  <2>2. InputReady' = InputReady
    BY <2>1 DEF InputReady
  <2> QED
    BY <1>2, <1>3, <2>1, <2>2 DEF IdleInv
<1>11. CASE UNCHANGED vars
  <2>1. /\ Connected /\ pc = "idle" /\ UNCHANGED <<http, interest, inbox, outbox, peer, edge>>
    BY <1>11 DEF vars, Connected
  <2>2. InputReady' = InputReady /\ OutputReady' = OutputReady
    BY <2>1, SameReport
  <2> QED
    BY <1>2, <1>3, <2>1, <2>2 DEF IdleInv
<1> QED
  BY <1>4, <1>5, <1>6, <1>7, <1>8, <1>9, <1>10, <1>11 DEF Next, ServerStep
(* While a handler runs: reading drains the socket, and output is left     *)
(* over only when writing has filled it.                                   *)
LEMMA BusyStep == CInv /\ [Next]_vars => BusyInv'
<1> SUFFICES ASSUME CInv, [Next]_vars, Connected', ~http'.error PROVE BusyInv'
  BY DEF BusyInv
<1>1. ShapeInv /\ MaskInv /\ BusyInv
  BY DEF CInv
<1>2. CASE Poll
  <2>1. Connected
    BY <1>2 DEF Poll, Connected
  <2>2. \/ pc' = "idle"
        \/ /\ pc' \in {"read", "write"} /\ events' = {}
           /\ pc' = "write" => "IN" \notin interest
           /\ interest' \in {{}, interest}
    BY <1>2, <2>1, PollEffect
  <2> QED
    BY <2>2 DEF BusyInv, Busy
<1>3. CASE Read
  <2>1. /\ Connected /\ ~http.error /\ peer = "open"
    BY <1>1, <1>3, ReadEffect
  <2>2. /\ pc = "read" /\ pc' = "flush" /\ inbox' = <<>>
        /\ UNCHANGED <<interest, edge, events, peer>>
    BY <1>3 DEF Read, channelVars, peerVars
  <2>3. ~InputReady'
    BY <2>1, <2>2 DEF InputReady
  <2>4. OutputReady' => OutputReady
    <3>1. Len(outbox) <= Len(outbox') /\ Len(outbox) \in Nat /\ Len(outbox') \in Nat
      BY <1>1, <1>3, ReadEffect DEF ShapeInv, OutboxOK
    <3> QED
      BY <2>1, <2>2, <3>1, ConnectionAssumption DEF OutputReady
  <2> QED
    BY <1>1, <2>1, <2>2, <2>3, <2>4 DEF BusyInv, Busy
<1>4. CASE Flush \/ Write
  <2>1. /\ Follows(http, http') /\ OutboxOK' /\ Len(outbox) <= Len(outbox')
        /\ http'.out # <<>> => peer # "reset" /\ Len(outbox') = SndCap
        /\ http'.out = HandleWrite(http).out
    BY <1>1, <1>4, WriteEffect
  <2>2. Connected /\ ~http.error
    BY <1>1, <2>1 DEF Follows, Connected, ShapeInv, HttpShape
  <2>3. /\ pc \in {"flush", "write"} /\ UNCHANGED <<interest, edge, inbox, peer>>
        /\ pc' \in {"read", "write", "conn"}
    BY <1>4 DEF Flush, Write, AfterRead, peerVars
  <2>4. "OUT" \in events' <=> "OUT" \in EventsAfterWrite(http, events)
    BY <1>4 DEF Flush, Write
  <2>5. http'.out # <<>> => "OUT" \in events'
    BY <2>1, <2>2, <2>4 DEF EventsAfterWrite
  <2>6. "OUT" \in events' => "OUT" \in events \/ http'.out # <<>>
    BY <2>1, <2>4 DEF EventsAfterWrite
  <2>7. InputReady' = InputReady
    BY <2>3 DEF InputReady
  <2>8. /\ OutputReady' => OutputReady
        /\ http'.out # <<>> => ~OutputReady'
    <3>1. Len(outbox) \in Nat /\ Len(outbox') \in Nat
      BY <1>1, <2>1 DEF ShapeInv, OutboxOK
    <3> QED
      BY <2>1, <2>3, <3>1, ConnectionAssumption DEF OutputReady
  <2> QED
    BY <1>1, <2>2, <2>3, <2>5, <2>6, <2>7, <2>8 DEF BusyInv, Busy
<1>5. CASE GoOn
  BY <1>5 DEF GoOn, BusyInv, Busy
<1>6. CASE AwaitOutput \/ Close
  BY <1>1, <1>6, CloseEffect DEF AwaitOutput, OwesOutput, ShapeInv, Connected
<1>7. CASE Send \/ Finish
  <2>1. /\ UNCHANGED <<http, pc, interest, outbox, events>>
        /\ peer = "open" /\ peer' # "reset" /\ edge' = (edge \/ "IN" \in interest)
    BY <1>7 DEF Send, Finish, channelVars
  <2>2. OutputReady' => OutputReady
    BY <2>1 DEF OutputReady
  <2> QED
    BY <1>1, <2>1, <2>2 DEF BusyInv, Connected
<1>8. CASE Reset
  <2>1. UNCHANGED <<http, pc, interest, events>> /\ edge' = (edge \/ interest # {})
    BY <1>8 DEF Reset, channelVars
  <2> QED
    BY <1>1, <2>1 DEF BusyInv, Connected
<1>9. CASE Receive
  <2>1. /\ UNCHANGED <<http, pc, interest, events, inbox, peer>>
        /\ edge' = (edge \/ "OUT" \in interest)
    BY <1>9 DEF Receive, channelVars
  <2>2. InputReady' = InputReady
    BY <2>1 DEF InputReady
  <2> QED
    BY <1>1, <2>1, <2>2 DEF BusyInv, Connected
<1>10. CASE UNCHANGED vars
  <2>1. UNCHANGED <<http, pc, interest, events, inbox, outbox, peer, edge>>
    BY <1>10 DEF vars
  <2>2. InputReady' = InputReady /\ OutputReady' = OutputReady
    BY <2>1, SameReport
  <2> QED
    BY <1>1, <2>1, <2>2 DEF BusyInv, Connected
<1> QED
  BY <1>2, <1>3, <1>4, <1>5, <1>6, <1>7, <1>8, <1>9, <1>10 DEF Next, ServerStep

------------------------------------------------------------------------------
(* The registration, the ready list and the state of a healthy connection  *)
(* stay in step with each other, between the turns of the loop and inside  *)
(* handleEvent (Poll, handleRead, handleWrite, handleConn, epoll_mod).     *)
THEOREM CInductive == Spec => []CInv
<1>1. CInv /\ [Next]_vars => CInv'
  BY ShapeStep, MaskStep, IdleStep, BusyStep DEF CInv
<1> QED
  BY InitCInv, <1>1, PTL DEF Spec

(* Between two turns of the loop a connection that is not forgotten is     *)
(* without error and watched, for output if there is some, and the loop is *)
(* going to be told of whatever it is watched for and is there already     *)
(* (handleRead, handleWrite, handleConn, epoll_mod).                       *)
THEOREM WatchedForRightThing == Spec => []WaitsForRightThing
<1>1. ASSUME CInv PROVE WaitsForRightThing
  <2> SUFFICES ASSUME pc = "idle", ~Forgotten
               PROVE  /\ ~http.error
                      /\ interest \cap {"IN", "OUT"} # {}
                      /\ http.out # <<>> => "OUT" \in interest
                      /\ Reportable(interest) # {} => edge
    BY DEF WaitsForRightThing
  <2>1. Connected
    BY <1>1 DEF CInv, ShapeInv, HttpShape, Forgotten, ForgottenOutput, Connected
  <2>2. interest \in Masks
    BY <1>1, <2>1 DEF CInv, MaskInv
  <2>3. interest \cap {"IN", "OUT"} # {}
    BY <2>2, MaskFacts
  <2> QED
    BY <1>1, <2>1, <2>3 DEF CInv, IdleInv, Forgotten, ForgottenHangup
<1> QED
  BY <1>1, CInductive, PTL

------------------------------------------------------------------------------
(* The types of the parser's members.                                      *)

Verbs == {"GET", "HEAD"}

(* Tokens, and texts made of them.                                         *)
Token == STRING \cup Verbs \cup {"CR", "LF", " ", ":", "/", "?", "rest", "garbage"}
                \cup {"HTTP", "1.1", "Connection", "Keep-Alive", "Host", "host"}
Text == Seq(Token)

HStates == {"H_START", "H_KEY", "H_COLON", "H_SPACES_AFTER_COLON", "H_VALUE",
            "H_CR", "H_LF", "H_BLANK_LINE_CR", "H_BLANK_LINE_LF"}

Headers == UNION {[D -> Text] : D \in SUBSET Text}

(* Where the header loop can be in a text of a length.                     *)
Runs(length) ==
  [hState : HStates, headers : Headers, i : 0..length, lineBegin : 0..length,
   keyStart : -1..length, keyEnd : -1..length, valueStart : -1..length,
   valueEnd : -1..length, verdict : {"AGAIN", "SUCCESS", "ERROR"}]

(* Find stops at the first place from "from" on that holds what it is      *)
(* looking for.                                                            *)
LEMMA FindStops ==
  ASSUME NEW T, NEW str \in Seq(T), NEW c, NEW from \in Nat \ {0}
  PROVE  /\ Find(str, c, from) \in 0..Len(str)
         /\ Find(str, c, from) # 0 => str[Find(str, c, from)] = c
<1> DEFINE I == {i \in from..Len(str) : str[i] = c}
<1>1. Find(str, c, from) = IF I # {} THEN Min(I) ELSE 0
  BY DEF Find, SelectInSubSeq
<1>2. Len(str) \in Nat
  BY LenProperties
<1>3. I # {} => Min(I) \in I
  <2>1. I \subseteq Nat
    BY <1>2
  <2> HIDE DEF I
  <2>2. I # {} => \E x \in I : \A y \in I : x <= y
    BY <2>1, LeastElement
  <2> QED
    BY <2>2 DEF Min
<1> QED
  BY <1>1, <1>2, <1>3

(* A part of a text is a text.                                             *)
LEMMA PartOfText ==
  ASSUME NEW str \in Text, NEW from \in Nat \ {0}, NEW to \in Int, to <= Len(str)
  PROVE  SubSeq(str, from, to) \in Text
<1>1. Len(str) \in Nat /\ str \in [1..Len(str) -> Token]
  BY LenProperties DEF Text
<1>2. \A i \in from..to : str[i] \in Token
  BY <1>1
<1> HIDE DEF Token
<1> QED
  BY <1>1, <1>2, SubSeqProperties DEF Text

(* parseURI leaves a text behind and knows two methods.                    *)
LEMMA LineTypes ==
  ASSUME NEW str \in Text, NEW method \in Verbs, NEW file
  PROVE  /\ ParseURI(str, method, file).rest \in Text
         /\ ParseURI(str, method, file).method \in Verbs
<1> DEFINE cr   == Find(str, "CR", 1)
           line == SubSeq(str, 1, cr - 1)
           get  == Find(line, "GET", 1)
           head == Find(line, "HEAD", 1)
           verb == IF get # 0 THEN get ELSE head
           rest == SubSeq(str, cr + 1, Len(str))
<1>1. cr \in 0..Len(str) /\ Len(str) \in Nat
  BY FindStops, LenProperties DEF Text
<1>2. line \in Text
  BY <1>1, PartOfText
<1>3. rest \in Text
  BY <1>1, PartOfText
<1> HIDE DEF cr, line, rest
<1>4. verb # 0 => line[verb] \in Verbs
  <2>1. /\ get # 0 => line[get] = "GET"
        /\ head # 0 => line[head] = "HEAD"
    BY <1>2, FindStops DEF Text
  <2> HIDE DEF get, head
  <2> QED
    BY <2>1 DEF Verbs
<1>5. LET u == ParseURI(str, method, file)
      IN  \/ u.rest = str /\ u.method = method
          \/ u.rest = rest /\ u.method = method
          \/ u.rest = rest /\ u.method = line[verb] /\ verb # 0
  <2> HIDE DEF Verbs
  <2>1. CASE cr = 0
    BY <2>1 DEF ParseURI, cr
  <2>2. CASE cr # 0 /\ verb = 0
    BY <2>2 DEF ParseURI, cr, line, rest
  <2>3. CASE cr # 0 /\ verb # 0
    BY <2>3 DEF ParseURI, cr, line, rest
  <2> QED
    BY <2>1, <2>2, <2>3
<1> QED
  BY <1>3, <1>4, <1>5

LEMMA BetweenTypes ==
  ASSUME NEW str \in Text, NEW from \in -1..Len(str), NEW to \in -1..Len(str)
  PROVE  Between(str, from, to) \in Text
<1>1. Len(str) \in Nat
  BY LenProperties DEF Text
<1>2. CASE from >= 0
  BY <1>1, <1>2, PartOfText DEF Between
<1>3. CASE ~(from >= 0)
  <2>1. SubSeq(str, 1, to) \in Text
    BY <1>1, PartOfText
  <2>2. <<"garbage">> \in Text /\ <<>> \in Text
    <3> DEFINE garbage == "garbage"
    <3>1. garbage \in Token
      BY DEF Token
    <3> HIDE DEF garbage, Token
    <3> QED
      BY <3>1, EmptySeq DEF Text, garbage
  <2>3. <<"garbage">> \o SubSeq(str, 1, to) \in Text
    BY <2>1, <2>2, ConcatProperties DEF Text
  <2> QED
    BY <1>3, <2>2, <2>3 DEF Between
<1> QED
  BY <1>2, <1>3

LEMMA NoHeaders == <<>> \in Headers
<1>1. <<>> \in [{} -> Text]
  OBVIOUS
<1>2. {} \in SUBSET Text
  OBVIOUS
<1> HIDE DEF Text
<1> QED
  BY <1>1, <1>2 DEF Headers

LEMMA HeaderTypes ==
  ASSUME NEW headers \in Headers, NEW key \in Text, NEW value \in Text
  PROVE  WithHeader(headers, key, value) \in Headers
<1>1. PICK D \in SUBSET Text : headers \in [D -> Text]
  BY DEF Headers
<1>2. D \cup {key} \in SUBSET Text
  OBVIOUS
<1> HIDE DEF Text
<1>3. WithHeader(headers, key, value) \in [D \cup {key} -> Text]
  BY <1>1 DEF WithHeader
<1> QED
  BY <1>2, <1>3 DEF Headers

(* A turn of the header loop moves one token on, and keeps the positions   *)
(* inside the text.                                                        *)
LEMMA StepTypes ==
  ASSUME NEW str \in Text, NEW p \in Runs(Len(str)), p.i < Len(str), NEW c
  PROVE  Step(str, p, c) \in Runs(Len(str)) /\ Step(str, p, c).i = p.i + 1
<1> DEFINE n == Len(str)
           i == p.i
           q == [p EXCEPT !.i = i + 1]
           fail == [q EXCEPT !.verdict = "ERROR"]
           goTo(s) == [q EXCEPT !.hState = s]
           startKey == [goTo("H_KEY") EXCEPT !.keyStart = i]
           key == Between(str, p.keyStart, p.keyEnd)
           value == Between(str, p.valueStart, p.valueEnd)
           Good(r) == r \in Runs(n) /\ r.i = p.i + 1
<1>1. n \in Nat /\ i \in 0..n /\ i + 1 \in 0..n /\ i \in -1..n
  BY LenProperties DEF Text, Runs
<1>2. WithHeader(p.headers, key, value) \in Headers
  <2>1. /\ p.keyStart \in -1..Len(str) /\ p.keyEnd \in -1..Len(str)
        /\ p.valueStart \in -1..Len(str) /\ p.valueEnd \in -1..Len(str)
        /\ p.headers \in Headers
    BY DEF Runs
  <2>2. key \in Text /\ value \in Text
    BY <2>1, BetweenTypes
  <2> HIDE DEF key, value
  <2> QED
    BY <2>1, <2>2, HeaderTypes
<1> DEFINE headers == WithHeader(p.headers, key, value)
<1>0. p \in Runs(n)
  OBVIOUS
<1> HIDE DEF n, headers, Headers, HStates
<1>3. Good(q) /\ Good(fail) /\ Good([q EXCEPT !.verdict = "SUCCESS"])
  BY <1>0, <1>1 DEF Runs
<1>4. ASSUME NEW s \in HStates PROVE Good(goTo(s))
  BY <1>0, <1>1 DEF Runs
<1>5. /\ Good(startKey)
      /\ Good([startKey EXCEPT !.lineBegin = i])
  BY <1>0, <1>1 DEF Runs, HStates
<1>6. /\ Good([goTo("H_COLON") EXCEPT !.keyEnd = i])
      /\ Good([goTo("H_VALUE") EXCEPT !.valueStart = i])
      /\ Good([goTo("H_CR") EXCEPT !.valueEnd = i])
  BY <1>0, <1>1 DEF Runs, HStates
<1>7. Good([goTo("H_LF") EXCEPT !.lineBegin = i, !.headers = headers])
  BY <1>0, <1>1, <1>2 DEF Runs, HStates, headers
<1>8. p.hState \in HStates
  BY DEF Runs
<1>9. Good(Step(str, p, c))
  <2>1. Step(str, p, c) \in
          {q, fail, [q EXCEPT !.verdict = "SUCCESS"], startKey,
           [startKey EXCEPT !.lineBegin = i],
           [goTo("H_COLON") EXCEPT !.keyEnd = i],
           [goTo("H_VALUE") EXCEPT !.valueStart = i],
           [goTo("H_CR") EXCEPT !.valueEnd = i],
           [goTo("H_LF") EXCEPT !.lineBegin = i, !.headers = headers]}
          \cup {goTo(s) : s \in HStates}
    <3>1. CASE p.hState = "H_START"
      BY <3>1 DEF Step
    <3>2. CASE p.hState = "H_KEY"
      BY <3>2 DEF Step
    <3>3. CASE p.hState = "H_COLON"
      BY <3>3 DEF Step, HStates
    <3>4. CASE p.hState = "H_SPACES_AFTER_COLON"
      BY <3>4 DEF Step
    <3>5. CASE p.hState = "H_VALUE"
      BY <3>5 DEF Step
    <3>6. CASE p.hState = "H_CR"
      BY <3>6 DEF Step, headers
    <3>7. CASE p.hState = "H_LF"
      BY <3>7 DEF Step, HStates
    <3>8. CASE p.hState = "H_BLANK_LINE_CR"
      BY <3>8 DEF Step, HStates
    <3>9. CASE p.hState = "H_BLANK_LINE_LF"
      BY <3>9 DEF Step
    <3> QED
      BY <1>8, <3>1, <3>2, <3>3, <3>4, <3>5, <3>6, <3>7, <3>8, <3>9 DEF HStates
  <2> HIDE DEF Good, q, fail, startKey, goTo
  <2> QED
    BY <1>3, <1>4, <1>5, <1>6, <1>7, <2>1
<1> QED
  BY <1>9 DEF n

(* The header loop as a whole: run[k] is where it is after k tokens, and   *)
(* no further than it has got.                                             *)
LoopBegin(hState, headers) ==
  [hState |-> hState, headers |-> headers, i |-> 0, lineBegin |-> 0,
   keyStart |-> -1, keyEnd |-> -1, valueStart |-> -1, valueEnd |-> -1,
   verdict |-> "AGAIN"]

Turn(str, q, c) == IF q.verdict = "AGAIN" THEN Step(str, q, c) ELSE q

IsHeaderLoop(run, str, hState, headers) ==
  run = [k \in 0..Len(str) |->
           IF k = 0 THEN LoopBegin(hState, headers) ELSE Turn(str, run[k - 1], str[k])]

(* After k tokens the loop is in its k-th turn or has ended before; an end *)
(* with success has consumed a token.                                      *)
Reached(k, p, n) ==
  /\ p \in Runs(n)
  /\ p.i <= k
  /\ p.verdict = "AGAIN" => p.i = k
  /\ p.verdict = "SUCCESS" => p.i > 0

LEMMA TurnReaches ==
  ASSUME NEW str \in Text, NEW k \in 1..Len(str), NEW p, Reached(k - 1, p, Len(str)), NEW c
  PROVE  Reached(k, Turn(str, p, c), Len(str))
<1>1. Len(str) \in Nat /\ k \in Nat /\ k - 1 < Len(str) /\ p.i \in 0..Len(str)
  BY LenProperties DEF Text, Reached, Runs
<1>2. CASE p.verdict = "AGAIN"
  <2>1. p \in Runs(Len(str)) /\ p.i = k - 1 /\ p.i < Len(str)
    BY <1>1, <1>2 DEF Reached
  <2>2. Step(str, p, c) \in Runs(Len(str)) /\ Step(str, p, c).i = p.i + 1
    BY <2>1, StepTypes
  <2> QED
    BY <1>1, <1>2, <2>1, <2>2 DEF Reached, Turn
<1>3. CASE p.verdict # "AGAIN"
  BY <1>1, <1>3 DEF Reached, Turn
<1> QED
  BY <1>2, <1>3

LEMMA BeginReaches ==
  ASSUME NEW n \in Nat, NEW hState \in HStates, NEW headers \in Headers
  PROVE  Reached(0, LoopBegin(hState, headers), n)
<1> HIDE DEF HStates, Headers
<1> QED
  BY DEF Reached, LoopBegin, Runs

LEMMA HeaderLoopExists ==
  ASSUME NEW str \in Text, NEW hState \in HStates, NEW headers \in Headers
  PROVE  \E run : IsHeaderLoop(run, str, hState, headers)
<1> DEFINE n == Len(str)
           S == Runs(n)
           c == LoopBegin(hState, headers)
           m == 0
           step == [k \in 0..n |-> [p \in S |->
                     IF k \in 1..n /\ Reached(k - 1, p, n) THEN Turn(str, p, str[k]) ELSE p]]
<1>1. n \in Nat
  BY LenProperties DEF Text
<1>2. c \in S /\ Reached(0, c, n)
  BY <1>1, BeginReaches DEF Reached
<1>3. StepsIn(S, m, n, step)
  <2> SUFFICES ASSUME NEW k \in 0..n, NEW p \in S PROVE step[k][p] \in S
    BY DEF StepsIn
  <2>1. step[k][p] = IF k \in 1..n /\ Reached(k - 1, p, n) THEN Turn(str, p, str[k]) ELSE p
    OBVIOUS
  <2>2. k \in 1..n /\ Reached(k - 1, p, n) => Turn(str, p, str[k]) \in S
    BY TurnReaches DEF Reached
  <2> HIDE DEF step, S
  <2> QED
    BY <2>1, <2>2
<1>4. m \in Int /\ n \in Int
  BY <1>1
<1> HIDE DEF step, c, m, n, S
<1>5. PICK run : IsRecursive(run, S, c, m, n, step)
  BY <1>2, <1>3, <1>4, Recursion
<1>6. /\ run \in [0..n -> S]
      /\ \A k \in 0..n : run[k] = IF k = 0 THEN c ELSE step[k][run[k - 1]]
  BY <1>5 DEF IsRecursive, m
<1>7. ASSUME NEW k \in 1..n
      PROVE  run[k] = IF Reached(k - 1, run[k - 1], n) THEN Turn(str, run[k - 1], str[k]) ELSE run[k - 1]
  <2>1. k \in 0..n /\ k # 0 /\ k - 1 \in 0..n
    BY <1>1
  <2>2. run[k - 1] \in S
    BY <1>6, <2>1
  <2> QED
    BY <1>6, <2>1, <2>2 DEF step
<1>8. m..n \subseteq {k \in 0..n : Reached(k, run[k], n)}
  <2> DEFINE P == {k \in 0..n : Reached(k, run[k], n)}
  <2>1. m <= n => m \in P
    BY <1>1, <1>2, <1>6 DEF m
  <2>2. ASSUME NEW k \in m..(n - 1), k \in P PROVE k + 1 \in P
    <3>1. k + 1 \in 1..n /\ (k + 1) - 1 = k /\ k + 1 \in 0..n
      BY <1>1 DEF m
    <3>2. run[k + 1] = Turn(str, run[k], str[k + 1])
      BY <1>7, <2>2, <3>1
    <3>3. Reached(k + 1, run[k + 1], n)
      BY <2>2, <3>1, <3>2, TurnReaches DEF n
    <3> QED
      BY <3>1, <3>3
  <2> HIDE DEF P
  <2>3. m..n \subseteq P
    BY <1>4, <2>1, <2>2, Induction
  <2> QED
    BY <2>3 DEF P
<1>9. run = [k \in 0..n |-> IF k = 0 THEN c ELSE Turn(str, run[k - 1], str[k])]
  <2>1. ASSUME NEW k \in 0..n
        PROVE  run[k] = IF k = 0 THEN c ELSE Turn(str, run[k - 1], str[k])
    <3>1. CASE k = 0
      BY <1>6, <3>1
    <3>2. CASE k # 0
      <4>1. k \in 1..n /\ k - 1 \in m..n
        BY <1>1, <3>2 DEF m
      <4> QED
        BY <1>7, <1>8, <3>2, <4>1
    <3> QED
      BY <3>1, <3>2
  <2> QED
    BY <1>6, <2>1
<1> QED
  BY <1>9 DEF IsHeaderLoop, c, n

LEMMA HeaderLoopReaches ==
  ASSUME NEW str \in Text, NEW hState \in HStates, NEW headers \in Headers,
         NEW run, IsHeaderLoop(run, str, hState, headers)
  PROVE  Reached(Len(str), run[Len(str)], Len(str))
<1> DEFINE n == Len(str)
           m == 0
           P == {k \in 0..n : Reached(k, run[k], n)}
<1>1. n \in Nat /\ m \in Int /\ n \in Int
  BY LenProperties DEF Text
<1>2. \A k \in 0..n : run[k] = IF k = 0 THEN LoopBegin(hState, headers)
                               ELSE Turn(str, run[k - 1], str[k])
  BY DEF IsHeaderLoop
<1>3. m <= n => m \in P
  <2>1. run[0] = LoopBegin(hState, headers) /\ 0 \in 0..n
    BY <1>1, <1>2
  <2> QED
    BY <1>1, <2>1, BeginReaches
<1>4. ASSUME NEW k \in m..(n - 1), k \in P PROVE k + 1 \in P
  <2>1. k + 1 \in 1..n /\ (k + 1) - 1 = k /\ k + 1 \in 0..n /\ k + 1 # 0
    BY <1>1
  <2>2. run[k + 1] = Turn(str, run[k], str[k + 1])
    BY <1>2, <2>1
  <2>3. Reached(k + 1, run[k + 1], n)
    BY <1>4, <2>1, <2>2, TurnReaches
  <2> QED
    BY <2>1, <2>3
<1> HIDE DEF P, m
<1>5. m..n \subseteq P
  BY <1>1, <1>3, <1>4, Induction
<1> QED
  BY <1>1, <1>5 DEF P, m

(* What parseHeaders leaves behind is an end of the text, which may have   *)
(* lost its first character.                                               *)
RestOf(t, str) ==
  \E n \in 0..Len(str) :
    \/ t = SubSeq(str, n + 1, Len(str))
    \/ n < Len(str) /\ t = WithoutFirst(SubSeq(str, n + 1, Len(str)))

(* parseHeaders leaves an end of the text behind, and a state and headers  *)
(* to go on from.                                                          *)
LEMMA ParseHeadersLeaves ==
  ASSUME NEW str \in Text, NEW hState \in HStates, NEW headers \in Headers,
         NEW r, r = ParseHeaders(str, hState, headers)
  PROVE  RestOf(r.rest, str) /\ r.hState \in HStates /\ r.headers \in Headers
<1> DEFINE n == Len(str)
           Def(run) == run = [k \in 0..Len(str) |->
                               IF k = 0 THEN LoopBegin(hState, headers)
                               ELSE LET q == run[k - 1]
                                    IN  IF q.verdict = "AGAIN" THEN Step(str, q, str[k]) ELSE q]
           run == CHOOSE f : Def(f)
           p == run[n]
           from(k) == SubSeq(str, k + 1, Len(str))
<1>1. Def(run)
  <2>1. \E f : Def(f)
    <3>1. \A f : IsHeaderLoop(f, str, hState, headers) => Def(f)
      BY DEF IsHeaderLoop, Turn
    <3> QED
      BY <3>1, HeaderLoopExists
  <2> HIDE DEF Def
  <2> QED
    BY <2>1, Zenon
<1>2. IsHeaderLoop(run, str, hState, headers)
  BY <1>1 DEF IsHeaderLoop, Turn
<1>3. r = LET parsed(result, rest) ==
                [result |-> result, rest |-> rest, hState |-> p.hState, headers |-> p.headers]
          IN  IF p.verdict = "ERROR" THEN parsed("ERROR", str)
              ELSE IF p.verdict = "SUCCESS" THEN parsed("SUCCESS", WithoutFirst(from(p.i - 1)))
              ELSE IF p.hState = "H_BLANK_LINE_LF" THEN parsed("SUCCESS", <<>>)
              ELSE parsed("AGAIN", from(p.lineBegin))
  BY DEF ParseHeaders, LoopBegin
<1> HIDE DEF run
<1>4. Reached(n, p, n)
  BY <1>2, HeaderLoopReaches
<1> HIDE DEF p
<1>5. n \in Nat /\ p.i \in 0..n /\ p.lineBegin \in 0..n /\ p.hState \in HStates /\ p.headers \in Headers
  BY <1>4, LenProperties DEF Reached, Runs, Text
<1>6. RestOf(from(p.lineBegin), str)
  BY <1>5 DEF RestOf
<1>7. p.verdict = "SUCCESS" => RestOf(WithoutFirst(from(p.i - 1)), str)
  <2> SUFFICES ASSUME p.verdict = "SUCCESS" PROVE RestOf(WithoutFirst(from(p.i - 1)), str)
    OBVIOUS
  <2>1. p.i - 1 \in 0..n /\ p.i - 1 < n
    BY <1>4, <1>5 DEF Reached
  <2> QED
    BY <2>1 DEF RestOf
<1>8. RestOf(str, str) /\ RestOf(<<>>, str)
  <2>1. str = SubSeq(str, 0 + 1, Len(str))
    BY <1>5 DEF Text
  <2>2. <<>> = SubSeq(str, Len(str) + 1, Len(str))
    BY <1>5 DEF Text
  <2>3. 0 \in 0..Len(str) /\ Len(str) \in 0..Len(str)
    BY <1>5
  <2> QED
    BY <2>1, <2>2, <2>3 DEF RestOf
<1> HIDE DEF from, Text, Headers, HStates
<1> QED
  BY <1>3, <1>5, <1>6, <1>7, <1>8

LEMMA RestIsText ==
  ASSUME NEW str \in Text, NEW t, RestOf(t, str)
  PROVE  t \in Text
<1>1. PICK n \in 0..Len(str) :
        \/ t = SubSeq(str, n + 1, Len(str))
        \/ n < Len(str) /\ t = WithoutFirst(SubSeq(str, n + 1, Len(str)))
  BY DEF RestOf
<1> DEFINE u == SubSeq(str, n + 1, Len(str))
<1>2. Len(str) \in Nat /\ n \in Nat
  BY LenProperties DEF Text
<1>3. u \in Text
  BY <1>2, PartOfText
<1>4. ASSUME n < Len(str) PROVE WithoutFirst(u) \in Text
  <2>1. Len(u) > 0
    <3>1. \A i \in (n + 1)..Len(str) : str[i] \in Token
      BY <1>2 DEF Text
    <3>2. Len(u) = IF n + 1 <= Len(str) THEN Len(str) - (n + 1) + 1 ELSE 0
      <4> HIDE DEF Token
      <4> QED
        BY <1>2, <3>1, SubSeqProperties
    <3> QED
      BY <1>2, <1>4, <3>2
  <2> HIDE DEF u
  <2>2. u # <<>> /\ Tail(u) \in Text
    BY <1>3, <2>1, EmptySeq, HeadTailProperties DEF Text
  <2>3. <<"rest">> \in Text
    <3> DEFINE rest == "rest"
    <3>1. rest \in Token
      BY DEF Token
    <3> HIDE DEF rest, Token
    <3> QED
      BY <3>1 DEF Text, rest
  <2>4. <<"rest">> \o Tail(u) \in Text
    BY <2>2, <2>3, ConcatProperties DEF Text
  <2> QED
    BY <2>2, <2>4 DEF WithoutFirst
<1> HIDE DEF u
<1>5. t = u \/ (n < Len(str) /\ t = WithoutFirst(u))
  BY <1>1 DEF u
<1> QED
  BY <1>3, <1>4, <1>5

LEMMA ParseHeadersTypes ==
  ASSUME NEW str \in Text, NEW hState \in HStates, NEW headers \in Headers,
         NEW r, r = ParseHeaders(str, hState, headers)
  PROVE  r.rest \in Text /\ r.hState \in HStates /\ r.headers \in Headers
<1> HIDE DEF Text, Headers, HStates
<1> QED
  BY ParseHeadersLeaves, RestIsText

------------------------------------------------------------------------------
(* The members the parser keeps from call to call.                         *)
MemberTypes(h) ==
  /\ DOMAIN h = Fields
  /\ h.in \in Text
  /\ h.state \in {"PARSE_URI", "PARSE_HEADERS", "ANALYSIS", "FINISH"}
  /\ h.method \in Verbs
  /\ h.keepAlive \in BOOLEAN
  /\ h.hState \in HStates
  /\ h.headers \in Headers

LEMMA LineKeepsTypes == ASSUME NEW h, MemberTypes(h) PROVE MemberTypes(LineStage(h))
<1> DEFINE u == ParseURI(h.in, h.method, h.file)
<1>1. u.rest \in Text /\ u.method \in Verbs
  BY LineTypes DEF MemberTypes
<1> HIDE DEF u, Text, Verbs, HStates, Headers
<1>2. MemberTypes(AfterLine(h, u))
  BY <1>1 DEF MemberTypes, AfterLine, Fields
<1> QED
  BY <1>2 DEF LineStage, u

LEMMA HeadersKeepTypes == ASSUME NEW h, MemberTypes(h) PROVE MemberTypes(HeaderStage(h))
<1> DEFINE p == ParseHeaders(h.in, h.hState, h.headers)
           parsed == [h EXCEPT !.in = p.rest, !.hState = p.hState, !.headers = p.headers]
<1>1. /\ p.rest \in Text /\ p.hState \in HStates /\ p.headers \in Headers
      /\ p.result \in {"SUCCESS", "AGAIN", "ERROR"}
  BY ParseHeadersTypes, HeaderResults DEF MemberTypes
<1> HIDE DEF p, Text, Verbs, HStates, Headers
<1>2. MemberTypes(parsed)
  BY <1>1 DEF MemberTypes, Fields
<1>3. /\ MemberTypes([parsed EXCEPT !.state = "ANALYSIS"])
      /\ MemberTypes([parsed EXCEPT !.error = TRUE, !.complaint = "400"])
  <2> HIDE DEF parsed
  <2> QED
    BY <1>2 DEF MemberTypes, Fields
<1>4. AfterHeaders(h, p) \in {parsed, [parsed EXCEPT !.state = "ANALYSIS"],
                             [parsed EXCEPT !.error = TRUE, !.complaint = "400"]}
  BY <1>1 DEF AfterHeaders
<1> HIDE DEF parsed
<1>5. MemberTypes(AfterHeaders(h, p))
  BY <1>2, <1>3, <1>4
<1> QED
  BY <1>5 DEF HeaderStage, p

LEMMA AnalysisKeepsTypes == ASSUME NEW h, MemberTypes(h) PROVE MemberTypes(AnalysisStage(h))
<1> DEFINE a == AnalysisRequest(h.method, h.file, h.out)
           asks == AsksKeepAlive(h.headers)
<1>1. asks \in BOOLEAN
  BY DEF AsksKeepAlive
<1> HIDE DEF a, asks, Text, Verbs, HStates, Headers
<1> DEFINE analysed == [h EXCEPT !.out = a.out, !.keepAlive = @ \/ asks]
<1>2. MemberTypes(analysed)
  BY <1>1 DEF MemberTypes, Fields
<1>3. AnalysisStage(h) \in {h, [analysed EXCEPT !.state = "FINISH"],
                           [analysed EXCEPT !.error = TRUE, !.complaint = "404"]}
  BY DEF AnalysisStage, a, asks
<1>4. /\ MemberTypes([analysed EXCEPT !.state = "FINISH"])
      /\ MemberTypes([analysed EXCEPT !.error = TRUE, !.complaint = "404"])
  <2> HIDE DEF analysed
  <2> QED
    BY <1>2 DEF MemberTypes, Fields
<1> HIDE DEF analysed
<1> QED
  BY <1>3, <1>4

LEMMA ReadnKeepsTypes ==
  ASSUME NEW h, MemberTypes(h), NEW data \in Text, NEW zero, NEW failed
  PROVE  MemberTypes(AfterReadn(h, data, zero, failed))
<1> DEFINE filled == [h EXCEPT !.in = @ \o data,
                               !.connectionState = IF zero THEN "DISCONNECTING" ELSE @]
           emptied == [h EXCEPT !.in = <<>>]
           refused == [h EXCEPT !.error = TRUE, !.complaint = "400"]
<1>1. h.in \o data \in Text /\ <<>> \in Text
  BY EmptySeq, ConcatProperties DEF MemberTypes, Text
<1> HIDE DEF Text, Verbs, HStates, Headers
<1>2. MemberTypes(filled) /\ MemberTypes(emptied) /\ MemberTypes(refused)
  BY <1>1 DEF MemberTypes, Fields
<1> HIDE DEF filled
<1>3. MemberTypes(Parse(filled))
  BY <1>2, LineKeepsTypes, HeadersKeepTypes, AnalysisKeepsTypes DEF Parse
<1>4. AfterReadn(h, data, zero, failed) \in {filled, emptied, refused, Parse(filled)}
  BY DEF AfterReadn, filled
<1> HIDE DEF emptied, refused
<1> QED
  BY <1>2, <1>3, <1>4

LEMMA WriteKeepsTypes ==
  ASSUME NEW h, MemberTypes(h)
  PROVE  MemberTypes(HandleWrite(h)) /\ MemberTypes(ResetRequest(HandleWrite(h)))
<1> HIDE DEF Text, Verbs, Headers
<1>1. MemberTypes(HandleWrite(h))
  <2> HIDE DEF HStates
  <2> QED
    BY DEF MemberTypes, Fields, HandleWrite
<1>2. ASSUME NEW g, MemberTypes(g) PROVE MemberTypes(ResetRequest(g))
  BY <1>2, NoHeaders DEF MemberTypes, Fields, ResetRequest, HStates
<1> QED
  BY <1>1, <1>2

------------------------------------------------------------------------------
(* The peer's requests as texts, and the masks.                            *)
Requests == [method : STRING, file : Seq(STRING), keep : BOOLEAN]

TrafficInv ==
  /\ script \in Traffics
  /\ toSend \in Seq(Requests)
  /\ cut \in Nat
  /\ toSend # <<>> => cut < Len(Encode(Head(toSend)))
  /\ inbox \in Text

FlagsInv ==
  /\ interest \subseteq Flags
  /\ events \subseteq Flags /\ lastEvents \subseteq Flags /\ revents \subseteq Flags

(* Short texts.                                                            *)
LEMMA ShortTexts ==
  ASSUME NEW S, NEW a \in S, NEW b \in S, NEW c \in S, NEW d \in S, NEW e \in S, NEW f \in S
  PROVE  /\ <<a, b, c>> \in Seq(S) /\ Len(<<a, b, c>>) = 3
         /\ <<a, b, c, d, e, f>> \in Seq(S)
<1>1. <<a, b, c>> \in Seq(S) /\ Len(<<a, b, c>>) = 3
  OBVIOUS
<1>2. <<a, b, c, d, e, f>> \in Seq(S)
  OBVIOUS
<1> QED
  BY <1>1, <1>2

LEMMA RequestIsText ==
  ASSUME NEW r \in Requests
  PROVE  Encode(r) \in Text /\ Len(Encode(r)) \in Nat /\ 0 < Len(Encode(r))
<1> DEFINE start == <<r.method, " ", "/">>
           version == <<" ", "HTTP", "/", "1.1", "CR", "LF">>
           keep == <<"Connection", ":", " ", "Keep-Alive", "CR", "LF">>
           host == <<"Host", ":", " ", "host", "CR", "LF">>
           header == IF r.keep THEN keep ELSE host
           end == <<"CR", "LF">>
<1>1. r.method \in Token /\ r.file \in Seq(Token)
  <2>1. r.method \in STRING /\ r.file \in Seq(STRING) /\ STRING \subseteq Token
    BY DEF Requests, Token
  <2>2. \A i \in 1..Len(r.file) : r.file[i] \in Token
    <3> HIDE DEF Token
    <3> QED
      BY <2>1, ElementOfSeq
  <2> HIDE DEF Token
  <2> QED
    BY <2>1, <2>2, ElementsInSeq
<1>2. {"CR", "LF", " ", ":", "/", "HTTP", "1.1", "Connection", "Keep-Alive", "Host", "host"}
        \subseteq Token
  BY DEF Token
<1> HIDE DEF Token
<1>3. start \in Text /\ Len(start) = 3
  BY <1>1, <1>2, ShortTexts DEF Text
<1>4. version \in Text /\ end \in Text
  <2>1. version \in Text
    BY <1>2, ShortTexts DEF Text
  <2>2. end \in Text
    <3>1. "CR" \in Token /\ "LF" \in Token
      BY <1>2
    <3>2. \A S : \A a, b \in S : <<a, b>> \in Seq(S)
      OBVIOUS
    <3> QED
      BY <3>1, <3>2 DEF Text
  <2> QED
    BY <2>1, <2>2
<1>5. keep \in Text /\ host \in Text
  BY <1>2, ShortTexts DEF Text
<1> HIDE DEF start, version, keep, host, end
<1>6. header \in Text
  BY <1>5
<1> HIDE DEF header
<1>7. Encode(r) = ((start \o r.file) \o version) \o header \o end
  BY DEF Encode, start, version, header, keep, host, end
<1>8. start \o r.file \in Text /\ Len(start \o r.file) >= 3
  <2>1. start \in Seq(Token) /\ r.file \in Seq(Token)
    BY <1>1, <1>3 DEF Text
  <2>2. /\ start \o r.file \in Seq(Token)
        /\ Len(start \o r.file) = Len(start) + Len(r.file)
    BY <2>1, ConcatProperties
  <2>3. Len(r.file) \in Nat
    BY <2>1, LenProperties
  <2> QED
    BY <1>3, <2>2, <2>3 DEF Text
<1>9. (start \o r.file) \o version \in Text /\ Len((start \o r.file) \o version) >= 3
  BY <1>4, <1>8, ConcatProperties, LenProperties DEF Text
<1>10. /\ ((start \o r.file) \o version) \o header \in Text
       /\ Len(((start \o r.file) \o version) \o header) >= 3
  BY <1>6, <1>9, ConcatProperties, LenProperties DEF Text
<1>11. Encode(r) \in Text /\ Len(Encode(r)) >= 3
  BY <1>4, <1>7, <1>10, ConcatProperties, LenProperties DEF Text
<1> QED
  BY <1>11, LenProperties DEF Text

(* What is sent is the next part of the first request that is not sent     *)
(* completely.                                                             *)
LEMMA SendTypes == ASSUME TrafficInv, Send PROVE TrafficInv'
<1> DEFINE request == Encode(Head(toSend))
<1>1. toSend \in Seq(Requests) /\ toSend # <<>> /\ cut \in Nat /\ cut < Len(request)
  BY DEF TrafficInv, Send
<1>2. Head(toSend) \in Requests /\ Tail(toSend) \in Seq(Requests)
  BY <1>1, HeadTailProperties
<1>3. request \in Text /\ Len(request) \in Nat
  BY <1>2, RequestIsText
<1>4. PICK n \in SegmentLengths :
        /\ inbox' = inbox \o SubSeq(request, cut + 1, cut + n)
        /\ IF cut + n = Len(request) THEN toSend' = Tail(toSend) /\ cut' = 0
           ELSE toSend' = toSend /\ cut' = cut + n
  BY DEF Send
<1>5. n \in Nat \ {0} /\ cut + n <= Len(request)
  <2> HIDE DEF request
  <2> QED
    BY <1>1, <1>3, <1>4 DEF SegmentLengths, request
<1>6. SubSeq(request, cut + 1, cut + n) \in Text
  <2> HIDE DEF request
  <2> QED
    BY <1>1, <1>3, <1>5, PartOfText
<1>7. inbox' \in Text
  BY <1>4, <1>6, ConcatProperties DEF TrafficInv, Text
<1>8. script' = script
  BY DEF Send
<1>9. CASE cut + n = Len(request)
  <2>1. toSend' = Tail(toSend) /\ cut' = 0
    BY <1>4, <1>9
  <2>2. toSend' # <<>> => 0 < Len(Encode(Head(toSend')))
    BY <1>2, <2>1, HeadTailProperties, RequestIsText
  <2> QED
    BY <1>2, <1>7, <1>8, <2>1, <2>2 DEF TrafficInv
<1>10. CASE cut + n # Len(request)
  <2>1. toSend' = toSend /\ cut' = cut + n
    BY <1>4, <1>10
  <2>2. cut' \in Nat /\ cut' < Len(Encode(Head(toSend')))
    BY <1>1, <1>3, <1>5, <1>10, <2>1
  <2> QED
    BY <1>1, <1>7, <1>8, <2>1, <2>2 DEF TrafficInv
<1> QED
  BY <1>9, <1>10

LEMMA FlagsStep == FlagsInv /\ [Next]_vars => FlagsInv'
<1> SUFFICES ASSUME FlagsInv, [Next]_vars PROVE FlagsInv'
  OBVIOUS
<1> USE DEF FlagsInv, Flags
<1>1. CASE Poll
  <2>1. Reportable(interest) \subseteq Flags
    BY DEF Reportable
  <2> QED
    BY <1>1, <2>1 DEF Poll
<1>2. CASE Flush \/ Write
  <2>1. EventsAfterWrite(http, events) \subseteq Flags
    BY DEF EventsAfterWrite
  <2> QED
    BY <1>2, <2>1 DEF Flush, Write
<1>3. CASE GoOn
  <2>1. Wanted(events) \subseteq Flags
    BY DEF Wanted
  <2> QED
    BY <1>3, <2>1 DEF GoOn, EpollMod
<1>4. CASE AwaitOutput
  BY <1>4 DEF AwaitOutput
<1>5. CASE Close
  BY <1>5 DEF Close, channelVars
<1>6. CASE Read \/ Send \/ Finish \/ Reset \/ Receive \/ UNCHANGED vars
  BY <1>6 DEF Read, Send, Finish, Reset, Receive, vars, channelVars
<1> QED
  BY <1>1, <1>2, <1>3, <1>4, <1>5, <1>6 DEF Next, ServerStep

MemberInv == MemberTypes(http) /\ TrafficInv

LEMMA MemberStep == MemberInv /\ [Next]_vars => MemberInv'
<1> SUFFICES ASSUME MemberInv, [Next]_vars PROVE MemberInv'
  OBVIOUS
<1>1. MemberTypes(http) /\ TrafficInv /\ <<>> \in Text
  BY EmptySeq DEF MemberInv, Text
<1>2. CASE Send
  BY <1>1, <1>2, SendTypes DEF MemberInv, Send
<1>3. CASE Read
  <2>1. http' = AfterReadn(http, inbox, peer = "finished", peer = "reset")
    BY <1>3 DEF Read
  <2>2. inbox' = <<>> /\ UNCHANGED <<script, toSend, cut>>
    BY <1>3 DEF Read, peerVars
  <2>3. inbox \in Text
    BY <1>1 DEF TrafficInv
  <2> DEFINE zero == peer = "finished"
             failed == peer = "reset"
  <2>4. http' = AfterReadn(http, inbox, zero, failed)
    BY <2>1
  <2> HIDE DEF zero, failed
  <2>5. MemberTypes(http')
    BY <1>1, <2>3, <2>4, ReadnKeepsTypes
  <2> QED
    BY <1>1, <2>2, <2>5 DEF MemberInv, TrafficInv
<1>4. CASE Flush \/ Write
  <2>1. http' = HandleWrite(http) \/ http' = ResetRequest(HandleWrite(http))
    BY <1>4 DEF Flush, Write
  <2>2. UNCHANGED <<script, toSend, cut, inbox>>
    BY <1>4 DEF Flush, Write, peerVars
  <2>3. MemberTypes(http')
    BY <1>1, <2>1, WriteKeepsTypes
  <2> QED
    BY <1>1, <2>2, <2>3 DEF MemberInv, TrafficInv
<1>5. CASE Close
  <2>1. http' = [http EXCEPT !.connectionState = "DISCONNECTED"]
        /\ UNCHANGED <<script, toSend, cut, inbox>>
    BY <1>5 DEF Close, peerVars
  <2>2. MemberTypes(http')
    <3> HIDE DEF Text, Verbs, HStates, Headers
    <3> QED
      BY <1>1, <2>1 DEF MemberTypes, Fields
  <2> QED
    BY <1>1, <2>1, <2>2 DEF MemberInv, TrafficInv
<1>6. CASE Reset
  BY <1>1, <1>6 DEF Reset, MemberInv, TrafficInv
<1>7. CASE Poll \/ GoOn \/ AwaitOutput \/ Finish \/ Receive \/ UNCHANGED vars
  <2>1. UNCHANGED <<http, script, toSend, cut, inbox>>
    BY <1>7 DEF Poll, GoOn, AwaitOutput, Finish, Receive, vars, peerVars
  <2> QED
    BY <1>1, <2>1 DEF MemberInv, TrafficInv
<1> QED
  BY <1>2, <1>3, <1>4, <1>5, <1>6, <1>7 DEF Next, ServerStep

LEMMA InitMemberInv == Init => MemberInv /\ FlagsInv
<1> SUFFICES ASSUME Init PROVE MemberInv /\ FlagsInv
  OBVIOUS
<1>1. TrafficInv
  <2>1. script \in Seq(Requests)
    BY ConnectionAssumption DEF Init, Requests
  <2>2. script # <<>> => 0 < Len(Encode(Head(script)))
    BY <2>1, HeadTailProperties, RequestIsText
  <2>3. <<>> \in Text
    BY EmptySeq DEF Text
  <2> QED
    BY <2>1, <2>2, <2>3 DEF Init, TrafficInv
<1>2. MemberTypes(http)
  <2>1. <<>> \in Text
    BY EmptySeq DEF Text
  <2> HIDE DEF Text, Headers
  <2> QED
    BY <2>1, NoHeaders DEF Init, MemberTypes, Fields, Verbs, HStates
<1>3. FlagsInv
  BY DEF Init, FlagsInv, Flags, DEFAULT_EVENT
<1> QED
  BY <1>1, <1>2, <1>3 DEF MemberInv

(* Every variable keeps its type, whatever the peer sends and however it   *)
(* is cut: parseURI and parseHeaders never leave their text, and go on     *)
(* from a state and headers they know.                                     *)
THEOREM TypeCorrect == Spec => []TypeOK
<1>1. Spec => [](MemberInv /\ FlagsInv)
  BY InitMemberInv, MemberStep, FlagsStep, PTL DEF Spec
<1>2. CInv /\ MemberInv /\ FlagsInv => TypeOK
  <2> SUFFICES ASSUME CInv, MemberInv, FlagsInv PROVE TypeOK
    OBVIOUS
  <2>1. /\ HttpShape(http) /\ pc \in Places /\ peer \in {"open", "finished", "reset"}
        /\ edge \in BOOLEAN /\ Len(outbox) <= SndCap
        /\ http.connectionState = "DISCONNECTED" <=> pc = "closed"
    BY DEF CInv, ShapeInv, OutboxOK
  <2>2. HttpTypes(http)
    BY <2>1 DEF HttpTypes, HttpShape, MemberInv, MemberTypes, Verbs
  <2> QED
    BY <2>1, <2>2 DEF TypeOK, MemberInv, TrafficInv, FlagsInv
<1> QED
  BY <1>1, <1>2, CInductive, PTL
==============================================================================
