----------------------- MODULE ConnectionOutputProofs ------------------------
(***************************************************************************)
(* Proofs about a connection's output: it is neither lost, repeated nor    *)
(* reordered, an error answer is the last thing sent, and every unit       *)
(* belongs to a request of the peer, in the order of the requests.         *)
(*                                                                         *)
(* The first part uses only this of the parser: unless it complains it     *)
(* adds units at the end of outBuffer_, and none but for a request it      *)
(* finishes.  The second follows each token of the peer's text from its    *)
(* place in a request through socket, inBuffer_, parseURI and              *)
(* parseHeaders.  The third is about a peer that waits for its answers:    *)
(* it runs the parser on a whole request, and shows that at every moment   *)
(* such a peer has been sent exactly the replies to what has been read.    *)
(***************************************************************************)
EXTENDS ConnectionProofs

Units == Seq(Unit)

Begins(s, t) == \E r \in Units : s \o r = t

(* What a stage of the parser does to the output.                          *)
Adds(h, g) ==
  /\ Follows(h, g)
  /\ g.complaint = "none" =>
       /\ h.complaint = "none" /\ g.error = h.error
       /\ Begins(h.out, g.out)
       /\ g.state # "FINISH" => g.out = h.out
  /\ g.complaint # "none" => h.complaint # "none" \/ g.error

------------------------------------------------------------------------------
LEMMA BeginsFacts ==
  ASSUME NEW s \in Units, NEW t \in Units
  PROVE  /\ Begins(s, s)
         /\ Begins(s, s \o t)
         /\ \A u \in Units : Begins(s, t) => Begins(s, t \o u)
         /\ \A u \in Units : Begins(s \o u, t) => Begins(s, t)
<1>1. Begins(s, s)
  BY ConcatEmptySeq, EmptySeq DEF Begins, Units
<1>2. Begins(s, s \o t)
  BY DEF Begins
<1>3. ASSUME NEW u \in Units, Begins(s, t) PROVE Begins(s, t \o u)
  <2>1. PICK r \in Units : s \o r = t
    BY <1>3 DEF Begins
  <2>2. (s \o r) \o u = s \o (r \o u)
    BY ConcatAssociative DEF Units
  <2>3. r \o u \in Units
    BY ConcatProperties DEF Units
  <2> QED
    BY <2>1, <2>2, <2>3 DEF Begins
<1>4. ASSUME NEW u \in Units, Begins(s \o u, t) PROVE Begins(s, t)
  <2>1. PICK r \in Units : (s \o u) \o r = t
    BY <1>4 DEF Begins
  <2>2. (s \o u) \o r = s \o (u \o r)
    BY ConcatAssociative DEF Units
  <2>3. u \o r \in Units
    BY ConcatProperties DEF Units
  <2> QED
    BY <2>1, <2>2, <2>3 DEF Begins
<1> QED
  BY <1>1, <1>2, <1>3, <1>4

LEMMA UnitsConcat ==
  /\ \A s, t \in Units : s \o t \in Units
  /\ \A s, t, u \in Units : (s \o t) \o u = s \o (t \o u)
<1>1. ASSUME NEW s \in Units, NEW t \in Units PROVE s \o t \in Units
  BY ConcatProperties DEF Units
<1>2. ASSUME NEW s \in Units, NEW t \in Units, NEW u \in Units
      PROVE  (s \o t) \o u = s \o (t \o u)
  BY ConcatAssociative DEF Units
<1> QED
  BY <1>1, <1>2

LEMMA BeginsIsPrefix ==
  ASSUME NEW s \in Units, NEW t \in Units, Begins(s, t)
  PROVE  IsPrefix(s, t)
<1>1. PICK r \in Units : s \o r = t
  BY DEF Begins
<1>2. Len(t) = Len(s) + Len(r) /\ Len(s) \in Nat /\ Len(r) \in Nat
  BY <1>1, ConcatProperties DEF Units
<1>3. SubSeq(t, 1, Len(s)) = SubSeq(s, 1, Len(s))
  <2>1. CASE Len(s) = 0
    BY <2>1, SubSeqEmpty
  <2>2. CASE Len(s) # 0
    <3>1. 1 \in 1..Len(s) /\ Len(s) \in 1..Len(s)
      BY <1>2, <2>2
    <3> QED
      BY <1>1, <3>1, SubSeqOfConcat1 DEF Units
  <2> QED
    BY <2>1, <2>2
<1> QED
  BY <1>2, <1>3 DEF IsPrefix

(* What a sequence has behind another it begins with.                      *)
LEMMA BeginsRest ==
  ASSUME NEW s \in Units, NEW t \in Units, Begins(s, t)
  PROVE  SubSeq(t, Len(s) + 1, Len(t)) \in Units /\ s \o SubSeq(t, Len(s) + 1, Len(t)) = t
<1>1. PICK r \in Units : s \o r = t
  BY DEF Begins
<1>2. SubSeq(t, Len(s) + 1, Len(t)) = r
  BY <1>1, SuffixOfConcat DEF Units
<1> QED
  BY <1>1, <1>2

------------------------------------------------------------------------------
(* The parser.                                                             *)

LEMMA LineAdds == ASSUME NEW h, HttpShape(h) PROVE Adds(h, LineStage(h)) /\ LineStage(h).out = h.out
<1>1. /\ LineStage(h).out = h.out /\ LineStage(h).complaint = h.complaint
      /\ LineStage(h).error = h.error
  BY DEF HttpShape, Fields, LineStage, AfterLine
<1> QED
  BY <1>1, LineFollows, BeginsFacts DEF Adds, HttpShape, Units

LEMMA HeadersAdd ==
  ASSUME NEW h, HttpShape(h)
  PROVE  Adds(h, HeaderStage(h)) /\ HeaderStage(h).out = h.out
<1>1. ASSUME NEW p, p.result \in {"SUCCESS", "AGAIN", "ERROR"}
      PROVE  /\ AfterHeaders(h, p).out = h.out
             /\ \/ /\ AfterHeaders(h, p).complaint = h.complaint
                   /\ AfterHeaders(h, p).error = h.error
                \/ AfterHeaders(h, p).complaint = "400" /\ AfterHeaders(h, p).error
  <2>1. CASE p.result = "SUCCESS"
    BY <2>1 DEF HttpShape, Fields, AfterHeaders
  <2>2. CASE p.result = "AGAIN"
    BY <2>2 DEF HttpShape, Fields, AfterHeaders
  <2>3. CASE p.result = "ERROR"
    BY <2>3 DEF HttpShape, Fields, AfterHeaders
  <2> QED
    BY <1>1, <2>1, <2>2, <2>3
<1>2. /\ HeaderStage(h).out = h.out
      /\ \/ HeaderStage(h).complaint = h.complaint /\ HeaderStage(h).error = h.error
         \/ HeaderStage(h).complaint = "400" /\ HeaderStage(h).error
  BY <1>1, HeaderResults DEF HeaderStage
<1> QED
  BY <1>2, HeadersFollow, BeginsFacts DEF Adds, HttpShape, Units

LEMMA AnalysisAdds == ASSUME NEW h, HttpShape(h) PROVE Adds(h, AnalysisStage(h))
<1> DEFINE a == AnalysisRequest(h.method, h.file, h.out)
           g == AnalysisStage(h)
<1>1. a.result # "SUCCESS" \/ Begins(h.out, a.out)
  <2>1. ASSUME NEW f \in Files
        PROVE  Begins(h.out, h.out \o <<Header(f)>>) /\ Begins(h.out, h.out \o <<Header(f), Body(f)>>)
    <3>1. <<Header(f)>> \in Units /\ <<Header(f), Body(f)>> \in Units
      BY <2>1, UnitsOfOutput DEF Units
    <3> QED
      BY <3>1, BeginsFacts DEF HttpShape, Units
  <2>2. \/ a.result # "SUCCESS"
        \/ /\ h.file \in Files
           /\ \/ a.out = h.out \o <<Header(h.file)>>
              \/ a.out = h.out \o <<Header(h.file), Body(h.file)>>
    BY DEF AnalysisRequest, Files
  <2> QED
    BY <2>1, <2>2
<1> DEFINE analysed == [h EXCEPT !.out = a.out, !.keepAlive = @ \/ AsksKeepAlive(h.headers)]
<1> HIDE DEF a
<1>2. CASE h.state # "ANALYSIS"
  <2>1. g = h
    BY <1>2 DEF AnalysisStage
  <2> QED
    BY <2>1, AnalysisFollows, BeginsFacts DEF Adds, HttpShape, Units
<1>3. CASE h.state = "ANALYSIS" /\ a.result = "SUCCESS"
  <2>1. g = [analysed EXCEPT !.state = "FINISH"]
    BY <1>3 DEF AnalysisStage, a
  <2>2. /\ g.out = a.out /\ g.complaint = h.complaint /\ g.error = h.error
        /\ g.state = "FINISH"
    BY <2>1 DEF HttpShape, Fields
  <2> QED
    BY <1>1, <1>3, <2>2, AnalysisFollows DEF Adds
<1>4. CASE h.state = "ANALYSIS" /\ a.result # "SUCCESS"
  <2>1. g = [analysed EXCEPT !.error = TRUE, !.complaint = "404"]
    BY <1>4 DEF AnalysisStage, a
  <2>2. g.error /\ g.complaint = "404"
    BY <2>1 DEF HttpShape, Fields
  <2> QED
    BY <2>2, AnalysisFollows DEF Adds
<1> QED
  BY <1>2, <1>3, <1>4

LEMMA ParseAdds == ASSUME NEW h, HttpShape(h) PROVE Adds(h, Parse(h))
<1> DEFINE l == LineStage(h)
           m == HeaderStage(l)
           n == AnalysisStage(m)
<1>1. Adds(h, l) /\ l.out = h.out
  BY LineAdds
<1>2. Adds(l, m) /\ m.out = l.out
  BY <1>1, HeadersAdd DEF Adds, Follows
<1>3. Adds(m, n)
  BY <1>2, AnalysisAdds DEF Adds, Follows
<1>4. Parse(h) = n
  BY DEF Parse
<1> HIDE DEF l, m, n
<1> QED
  BY <1>1, <1>2, <1>3, <1>4 DEF Adds, Follows

LEMMA ReadnAdds ==
  ASSUME NEW h, HttpShape(h), ~h.error, h.complaint = "none",
         NEW data, NEW zero \in BOOLEAN, NEW failed \in BOOLEAN,
         NEW r, r = AfterReadn(h, data, zero, failed)
  PROVE  IF r.complaint = "none"
         THEN ~r.error /\ Begins(h.out, r.out) /\ (r.state # "FINISH" => r.out = h.out)
         ELSE r.error
<1> DEFINE filled == [h EXCEPT !.in = @ \o data,
                               !.connectionState = IF zero THEN "DISCONNECTING" ELSE @]
           emptied == [h EXCEPT !.in = <<>>]
           refused == [h EXCEPT !.error = TRUE, !.complaint = "400"]
<1>1. /\ HttpShape(filled) /\ filled.error = h.error /\ filled.out = h.out
      /\ filled.complaint = "none"
  BY DEF HttpShape, Fields
<1>2. emptied.error = h.error /\ emptied.out = h.out /\ emptied.complaint = "none"
  BY DEF HttpShape, Fields
<1>3. refused.error /\ refused.complaint = "400"
  BY DEF HttpShape, Fields
<1>4. Adds(filled, Parse(filled))
  BY <1>1, ParseAdds
<1>5. r = IF h.connectionState = "DISCONNECTING" THEN emptied
          ELSE IF failed THEN refused
          ELSE IF zero /\ data = <<>> THEN filled
          ELSE Parse(filled)
  BY DEF AfterReadn
<1>6. Begins(h.out, h.out)
  BY BeginsFacts DEF HttpShape, Units
<1> HIDE DEF filled, emptied, refused
<1> QED
  BY <1>1, <1>2, <1>3, <1>4, <1>5, <1>6 DEF Adds

------------------------------------------------------------------------------
(* The invariant: what has been delivered is a beginning of all output,    *)
(* with at most an error answer behind it; as long as all is well          *)
(* outBuffer_ holds the rest.                                              *)

Delivered == got \o outbox

EndsWithComplaint(code) ==
  \E d \in Units : Delivered = Append(d, Complaint(code)) /\ Begins(d, made)

OutputInv ==
  /\ got \in Units /\ made \in Units
  /\ http.complaint # "none" => http.error
  /\ http.error /\ http.complaint = "none" => peer = "reset"
  /\ pc \in {"idle", "read"} => ~http.error
  /\ Begins(Delivered, made) \/ (http.complaint # "none" /\ EndsWithComplaint(http.complaint))
  /\ http.complaint = "none" /\ peer # "reset" => Delivered \o http.out = made

OInv == ShapeInv /\ OutputInv

LEMMA InitOInv == Init => OInv
<1> SUFFICES ASSUME Init PROVE OInv
  OBVIOUS
<1>1. ShapeInv
  BY InitCInv DEF CInv
<1>2. <<>> \in Units /\ <<>> \o <<>> = <<>>
  BY EmptySeq, ConcatEmptySeq DEF Units
<1>3. Begins(<<>>, <<>>)
  BY <1>2, BeginsFacts
<1>4. /\ got = <<>> /\ outbox = <<>> /\ made = <<>> /\ http.out = <<>>
      /\ http.complaint = "none" /\ ~http.error
  BY DEF Init
<1> QED
  BY <1>1, <1>2, <1>3, <1>4 DEF OInv, OutputInv, Delivered

LEMMA DeliveredUnits == ASSUME OInv PROVE Delivered \in Units /\ outbox \in Units /\ http.out \in Units
<1>1. outbox \in Units /\ http.out \in Units /\ got \in Units
  BY DEF OInv, ShapeInv, OutboxOK, OutputInv, HttpShape, Units
<1> QED
  BY <1>1, ConcatProperties DEF Delivered, Units

(* handleRead.                                                             *)
LEMMA ReadOutput == ASSUME OInv, Read PROVE OutputInv'
<1>1. /\ got \in Units /\ made \in Units /\ Delivered \in Units /\ outbox \in Units
      /\ http.out \in Units /\ HttpShape(http)
  BY DeliveredUnits DEF OInv, OutputInv, ShapeInv
<1>2. pc = "read" /\ pc' = "flush" /\ UNCHANGED <<got, peer>>
  BY DEF Read, peerVars
<1>3. /\ ~http.error /\ http.complaint = "none" /\ Begins(Delivered, made)
      /\ peer # "reset" => Delivered \o http.out = made
  BY <1>2 DEF OInv, OutputInv
<1>4. PICK h \in {AfterReadn(http, inbox, peer = "finished", peer = "reset")} :
        /\ http' = h
        /\ outbox' = IF h.complaint = "none" THEN outbox ELSE HandleError(h.complaint)
        /\ made' = IF h.state = "FINISH"
                   THEN made \o SubSeq(h.out, Len(http.out) + 1, Len(h.out)) ELSE made
  BY DEF Read
<1> DEFINE x == SubSeq(h.out, Len(http.out) + 1, Len(h.out))
<1>5. IF h.complaint = "none"
      THEN ~h.error /\ Begins(http.out, h.out) /\ (h.state # "FINISH" => h.out = http.out)
      ELSE h.error
  <2> DEFINE zero == peer = "finished"
             failed == peer = "reset"
  <2>1. zero \in BOOLEAN /\ failed \in BOOLEAN
    OBVIOUS
  <2>2. h = AfterReadn(http, inbox, zero, failed)
    BY <1>4
  <2> HIDE DEF zero, failed
  <2> QED
    BY <1>1, <1>3, <2>1, <2>2, ReadnAdds
<1>6. h.out \in Units /\ h.complaint \in {"none", "400", "404"}
  BY <1>4, ReadEffect DEF OInv, HttpShape, Units
<1>7. x \in Units
  <2>1. \A i \in (Len(http.out) + 1)..Len(h.out) : h.out[i] \in Unit
    BY <1>1, <1>6 DEF Units
  <2> QED
    BY <1>1, <1>6, <2>1, SubSeqProperties DEF Units
<1> HIDE DEF x
<1>8. made' = made \/ made' = made \o x
  BY <1>4 DEF x
<1>9. made' \in Units /\ Begins(Delivered, made')
  <2>1. made \o x \in Units
    BY <1>1, <1>7, UnitsConcat
  <2>2. Begins(Delivered, made \o x)
    BY <1>1, <1>3, <1>7, BeginsFacts
  <2> QED
    BY <1>1, <1>3, <1>8, <2>1, <2>2
<1>10. CASE h.complaint = "none"
  <2>1. Delivered' = Delivered /\ http' = h
    BY <1>2, <1>4, <1>10 DEF Delivered
  <2>2. ASSUME peer # "reset" PROVE Delivered \o h.out = made'
    <3>1. CASE h.state # "FINISH"
      BY <1>3, <1>4, <1>5, <1>10, <2>2, <3>1
    <3>2. CASE h.state = "FINISH"
      <4>1. http.out \o x = h.out
        BY <1>1, <1>5, <1>6, <1>10, BeginsRest DEF x
      <4>2. (Delivered \o http.out) \o x = Delivered \o (http.out \o x)
        <5> DEFINE d == Delivered
                   o == http.out
        <5>1. d \in Units /\ o \in Units
          BY <1>1
        <5> HIDE DEF d, o
        <5>2. (d \o o) \o x = d \o (o \o x)
          BY <1>7, <5>1, UnitsConcat
        <5> QED
          BY <5>2 DEF d, o
      <4> QED
        BY <1>3, <1>4, <2>2, <3>2, <4>1, <4>2 DEF x
    <3> QED
      BY <3>1, <3>2
  <2> QED
    BY <1>1, <1>2, <1>5, <1>9, <1>10, <2>1, <2>2 DEF OutputInv
<1>11. CASE h.complaint # "none"
  <2>1. outbox' = outbox \/ outbox' = Append(outbox, Complaint(h.complaint))
    BY <1>4, <1>11 DEF HandleError
  <2>2. Complaint(h.complaint) \in Unit
    BY <1>6, <1>11, UnitsOfOutput
  <2>3. got \o Append(outbox, Complaint(h.complaint)) = Append(Delivered, Complaint(h.complaint))
    BY <1>1, <2>2, ConcatAppend DEF Units, Delivered
  <2>4. Delivered' = Delivered \/ Delivered' = Append(Delivered, Complaint(h.complaint))
    BY <1>2, <2>1, <2>3 DEF Delivered
  <2>5. Begins(Delivered', made') \/ EndsWithComplaint(h.complaint)'
    <3>1. CASE Delivered' = Delivered
      BY <1>9, <3>1
    <3>2. CASE Delivered' = Append(Delivered, Complaint(h.complaint))
      BY <1>1, <1>4, <1>9, <3>2 DEF EndsWithComplaint
    <3> QED
      BY <2>4, <3>1, <3>2
  <2> QED
    BY <1>1, <1>2, <1>4, <1>5, <1>9, <1>11, <2>5 DEF OutputInv
<1> QED
  BY <1>10, <1>11

(* What moves from outBuffer_ to the socket stays in its place.            *)
LEMMA BeginsTaken ==
  ASSUME NEW g \in Units, NEW o \in Units, NEW p \in Units, NEW q \in Units
  PROVE  Begins(g \o (o \o p), (g \o o) \o (p \o q))
<1> DEFINE c == g \o o
<1>1. c \in Units /\ c \o p = g \o (o \o p)
  BY UnitsConcat
<1> HIDE DEF c
<1>2. c \o p \in Units /\ (c \o p) \o q = c \o (p \o q)
  <2>1. c \o p \in Units
    BY <1>1, UnitsConcat
  <2>2. (c \o p) \o q = c \o (p \o q)
    BY <1>1, UnitsConcat
  <2> QED
    BY <2>1, <2>2
<1>3. Begins(c \o p, (c \o p) \o q)
  BY <1>2, BeginsFacts
<1> QED
  BY <1>1, <1>2, <1>3 DEF c

(* handleWrite, with or without reset() behind it.                         *)
LEMMA WriteOutput == ASSUME OInv, Flush \/ Write PROVE OutputInv'
<1> DEFINE n == Written(http)
           p == SubSeq(http.out, 1, n)
           q == SubSeq(http.out, n + 1, Len(http.out))
           w == HandleWrite(http)
<1>1. /\ got \in Units /\ made \in Units /\ Delivered \in Units /\ outbox \in Units
      /\ http.out \in Units /\ HttpShape(http) /\ OutboxOK
  BY DeliveredUnits DEF OInv, OutputInv, ShapeInv
<1>2. UNCHANGED <<got, made, peer>> /\ pc' # "idle"
  BY DEF Flush, Write, AfterRead, peerVars
<1>3. outbox' = outbox \o p /\ (http' = w \/ http' = ResetRequest(w))
  BY DEF Flush, Write, OutboxAfterWrite
<1>4. /\ w.out = q /\ w.complaint = http.complaint
      /\ w.error = (http.error \/ WriteFails(http)) /\ DOMAIN w = Fields
  BY <1>1 DEF HandleWrite, HttpShape, Fields
<1>5. http'.out = q /\ http'.complaint = http.complaint /\ http'.error = w.error
  BY <1>3, <1>4 DEF ResetRequest, Fields
<1>6. pc' = "read" => ~w.error
  BY DEF Flush, Write, AfterRead
<1>7. p \in Units /\ q \in Units /\ p \o q = http.out
  <2>1. n \in 0..Len(http.out)
    BY <1>1, WrittenBounds
  <2> QED
    BY <1>1, <2>1, SplitAt DEF Units
<1>8. http.error \/ peer = "reset" => p = <<>>
  BY SubSeqEmpty DEF Written
<1> HIDE DEF n, p, q, w
<1>9. http'.complaint # "none" => http'.error
  BY <1>4, <1>5 DEF OInv, OutputInv
<1>10. http'.error /\ http'.complaint = "none" => peer' = "reset"
  BY <1>2, <1>4, <1>5 DEF OInv, OutputInv, WriteFails
<1>11. CASE http.error \/ peer = "reset"
  <2>1. Delivered' = Delivered
    BY <1>1, <1>2, <1>3, <1>8, <1>11, ConcatEmptySeq DEF Delivered, Units
  <2>2. EndsWithComplaint(http.complaint)' = EndsWithComplaint(http.complaint)
    BY <1>2, <1>5, <2>1 DEF EndsWithComplaint
  <2>3. /\ \/ Begins(Delivered', made')
           \/ http'.complaint # "none" /\ EndsWithComplaint(http.complaint)'
        /\ ~(http'.complaint = "none" /\ peer' # "reset")
    BY <1>2, <1>4, <1>5, <1>11, <2>1, <2>2 DEF OInv, OutputInv
  <2> QED
    BY <1>1, <1>2, <1>5, <1>6, <1>9, <1>10, <2>3 DEF OutputInv
<1>12. CASE ~http.error /\ peer # "reset"
  <2>1. Delivered \o http.out = made
    BY <1>12 DEF OInv, OutputInv
  <2>2. /\ (got \o (outbox \o p)) \o q = (got \o outbox) \o (p \o q)
        /\ Begins(got \o (outbox \o p), (got \o outbox) \o (p \o q))
    <3> DEFINE g == got
               o == outbox
    <3>1. g \in Units /\ o \in Units
      BY <1>1
    <3> HIDE DEF g, o
    <3>2. p \in Units /\ q \in Units
      BY <1>7
    <3>3. (g \o (o \o p)) \o q = (g \o o) \o (p \o q)
      <4>1. g \o o \in Units /\ (g \o o) \o p = g \o (o \o p)
        BY SMTT(30), <3>1, <3>2, UnitsConcat
      <4>2. ((g \o o) \o p) \o q = (g \o o) \o (p \o q)
        BY <3>2, <4>1, UnitsConcat
      <4> QED
        BY <4>1, <4>2
    <3>4. Begins(g \o (o \o p), (g \o o) \o (p \o q))
      BY <3>1, <3>2, BeginsTaken
    <3> QED
      BY <3>3, <3>4 DEF g, o
  <2>3. /\ Delivered' = got \o (outbox \o p)
        /\ (got \o outbox) \o (p \o q) = made
    BY <1>2, <1>3, <1>7, <2>1 DEF Delivered
  <2>4. Delivered' \o q = made /\ Begins(Delivered', made)
    BY <2>2, <2>3
  <2> QED
    BY <1>1, <1>2, <1>5, <1>6, <1>9, <1>10, <2>4 DEF OutputInv
<1> QED
  BY <1>11, <1>12

(* What was in flight is lost: if that was an error answer, nothing of it  *)
(* is left.                                                                *)
LEMMA ResetOutput == ASSUME OInv, Reset PROVE OutputInv'
<1>1. /\ got \in Units /\ made \in Units /\ outbox \in Units
  BY DeliveredUnits DEF OInv, OutputInv
<1>2. UNCHANGED <<got, made, http, pc>> /\ peer' = "reset" /\ outbox' = <<>>
  BY DEF Reset
<1>3. Delivered' = got
  BY <1>1, <1>2, ConcatEmptySeq DEF Delivered, Units
<1>4. CASE Begins(Delivered, made)
  <2>1. Begins(got, made)
    BY <1>1, <1>4, BeginsFacts DEF Delivered
  <2> QED
    BY <1>1, <1>2, <1>3, <2>1 DEF OInv, OutputInv
<1>5. CASE http.complaint # "none" /\ EndsWithComplaint(http.complaint)
  <2> DEFINE c == Complaint(http.complaint)
  <2>1. PICK d \in Units : Delivered = Append(d, c) /\ Begins(d, made)
    BY <1>5 DEF EndsWithComplaint
  <2>2. c \in Unit
    BY <1>5, UnitsOfOutput DEF OInv, ShapeInv, HttpShape
  <2> HIDE DEF c
  <2>3. CASE outbox = <<>>
    <3>1. Delivered' = Delivered
      BY <1>2, <2>3 DEF Delivered
    <3>2. EndsWithComplaint(http.complaint)'
      BY <1>2, <2>1, <3>1 DEF EndsWithComplaint, c
    <3> QED
      BY <1>1, <1>2, <1>5, <3>2 DEF OInv, OutputInv
  <2>4. CASE outbox # <<>>
    <3>1. PICK o \in Units, x \in Unit : outbox = Append(o, x)
      BY <1>1, <2>4, SequenceEmptyOrAppend DEF Units
    <3>2. Append(got \o o, x) = Append(d, c)
      BY SMTT(30), <1>1, <2>1, <3>1, ConcatAppend DEF Delivered, Units
    <3>3. got \o o \in Units
      BY <1>1, UnitsConcat
    <3>4. got \o o = d
      <4> DEFINE s == got \o o
      <4> HIDE DEF s
      <4>1. s \in Seq(Unit) /\ d \in Seq(Unit) /\ Append(s, x) = Append(d, c)
        BY <3>2, <3>3 DEF s, Units
      <4>2. s = d
        BY <2>2, <4>1, AppendInjective
      <4> QED
        BY <4>2 DEF s
    <3>5. Begins(got, made)
      BY <1>1, <2>1, <3>4, BeginsFacts
    <3> QED
      BY <1>1, <1>2, <1>3, <3>5 DEF OInv, OutputInv
  <2> QED
    BY <2>3, <2>4
<1> QED
  BY <1>4, <1>5 DEF OInv, OutputInv

LEMMA OutputStep == OInv /\ [Next]_vars => OutputInv'
<1> SUFFICES ASSUME OInv, [Next]_vars PROVE OutputInv'
  OBVIOUS
<1>1. OutputInv
  BY DEF OInv
<1>2. ASSUME UNCHANGED <<made, http>>, Delivered' = Delivered, got' \in Units,
             peer' = "reset" <=> peer = "reset",
             pc' \in {"idle", "read"} => ~http.error
      PROVE  OutputInv'
  <2>1. EndsWithComplaint(http.complaint)' = EndsWithComplaint(http.complaint)
    BY <1>2 DEF EndsWithComplaint
  <2> QED
    BY <1>1, <1>2, <2>1 DEF OutputInv
<1>3. CASE Poll \/ GoOn \/ AwaitOutput
  <2>1. /\ UNCHANGED <<made, http, got, outbox, peer>>
        /\ ~http.error
    BY <1>1, <1>3 DEF Poll, GoOn, AwaitOutput, OwesOutput, peerVars, OutputInv
  <2> QED
    BY <1>1, <1>2, <2>1 DEF Delivered, OutputInv
<1>4. CASE Read
  BY <1>4, ReadOutput
<1>5. CASE Flush \/ Write
  BY <1>5, WriteOutput
<1>6. CASE Close
  <2>1. UNCHANGED <<made, got, outbox, peer>> /\ pc' = "closed"
    BY <1>6 DEF Close, peerVars
  <2>2. http'.out = http.out /\ http'.error = http.error /\ http'.complaint = http.complaint
    BY <1>6 DEF Close, OInv, ShapeInv, HttpShape, Fields
  <2>3. Delivered' = Delivered
    BY <2>1 DEF Delivered
  <2>4. EndsWithComplaint(http.complaint)' = EndsWithComplaint(http.complaint)
    BY <2>1, <2>2, <2>3 DEF EndsWithComplaint
  <2> QED
    BY <1>1, <2>1, <2>2, <2>3, <2>4 DEF OutputInv
<1>7. CASE Send \/ Finish
  <2>1. UNCHANGED <<made, http, got, outbox, pc>> /\ peer = "open" /\ peer' # "reset"
    BY <1>7 DEF Send, Finish
  <2> QED
    BY <1>1, <1>2, <2>1 DEF Delivered, OutputInv
<1>8. CASE Reset
  BY <1>8, ResetOutput
<1>9. CASE Receive
  <2>1. /\ UNCHANGED <<made, http, peer, pc>> /\ outbox # <<>>
        /\ got' = Append(got, Head(outbox)) /\ outbox' = Tail(outbox)
    BY <1>9 DEF Receive
  <2>2. got \in Units /\ outbox \in Units
    BY DeliveredUnits DEF OInv, OutputInv
  <2>3. got' \in Units /\ Delivered' = Delivered
    BY <2>1, <2>2, MoveHead DEF Delivered, Units
  <2> QED
    BY <1>1, <1>2, <2>1, <2>3 DEF OutputInv
<1>10. CASE UNCHANGED vars
  <2>1. UNCHANGED <<made, http, got, outbox, peer, pc>>
    BY <1>10 DEF vars
  <2> QED
    BY <1>1, <1>2, <2>1 DEF Delivered, OutputInv
<1> QED
  BY <1>3, <1>4, <1>5, <1>6, <1>7, <1>8, <1>9, <1>10 DEF Next, ServerStep

------------------------------------------------------------------------------
(* Output is neither lost, repeated nor reordered, and an error answer is  *)
(* the last thing sent (handleRead, handleWrite, handleError,              *)
(* analysisRequest).                                                       *)
THEOREM OutputInOrder == Spec => []InOrder
<1>1. ASSUME CInv, OutputInv, [Next]_vars PROVE (CInv /\ OutputInv)'
  <2>1. CInv'
    BY <1>1, ShapeStep, MaskStep, IdleStep, BusyStep DEF CInv
  <2>2. OutputInv'
    BY <1>1, OutputStep DEF OInv, CInv
  <2> QED
    BY <2>1, <2>2
<1>2. Init => CInv /\ OutputInv
  BY InitCInv, InitOInv DEF OInv
<1>3. ASSUME CInv, OutputInv PROVE InOrder
  <2>1. OInv
    BY <1>3 DEF OInv, CInv
  <2>2. Delivered \in Units /\ made \in Units
    BY <1>3, <2>1, DeliveredUnits DEF OutputInv
  <2>3. CASE http.complaint = "none" /\ peer # "reset"
    BY <1>3, <2>3 DEF OutputInv, InOrder, Delivered
  <2>4. CASE ~(http.complaint = "none" /\ peer # "reset")
    <3>1. CASE Begins(Delivered, made)
      BY <2>2, <2>4, <3>1, BeginsIsPrefix DEF InOrder, Delivered
    <3>2. CASE http.complaint # "none" /\ EndsWithComplaint(http.complaint)
      <4> DEFINE c == Complaint(http.complaint)
      <4>1. PICK d \in Units : Delivered = Append(d, c) /\ Begins(d, made)
        BY <3>2 DEF EndsWithComplaint
      <4>2. c \in Unit
        BY <2>1, <3>2, UnitsOfOutput DEF OInv, ShapeInv, HttpShape
      <4> HIDE DEF c
      <4>3. /\ Delivered # <<>> /\ Len(Delivered) = Len(d) + 1 /\ Len(d) \in Nat
            /\ Last(Delivered) = c
        BY <4>1, <4>2, AppendProperties DEF Units, Last
      <4>4. Front(Delivered) = d
        <5>1. Front(Delivered) = SubSeq(Delivered, 1, Len(d))
          BY <4>3 DEF Front
        <5>2. /\ SubSeq(Delivered, 1, Len(d)) \in Seq(Unit)
              /\ Len(SubSeq(Delivered, 1, Len(d))) = Len(d)
              /\ \A i \in 1..Len(d) : SubSeq(Delivered, 1, Len(d))[i] = Delivered[i]
          BY <2>2, <4>3, PrefixProperties DEF Units
        <5>3. \A i \in 1..Len(d) : Delivered[i] = d[i]
          BY <4>1, <4>2, AppendProperties DEF Units
        <5> DEFINE f == SubSeq(Delivered, 1, Len(d))
        <5> HIDE DEF f
        <5>4. f = d
          BY <5>2, <5>3, SeqEqual DEF f, Units
        <5> QED
          BY <5>1, <5>4 DEF f
      <4>5. IsPrefix(d, made)
        BY <2>2, <4>1, BeginsIsPrefix
      <4> QED
        BY <2>4, <4>3, <4>4, <4>5 DEF InOrder, Delivered, c
    <3> QED
      BY <1>3, <3>1, <3>2 DEF OutputInv
  <2> QED
    BY <2>3, <2>4
<1> QED
  BY <1>1, <1>2, <1>3, PTL DEF Spec

------------------------------------------------------------------------------
(* Answers belong to requests.  A place is a request's number and a        *)
(* position in its text; the text the server has not parsed yet is marked  *)
(* with the places its tokens come from.                                   *)

NextPlace(s, p) ==
  IF p[2] < Len(Encode(s[p[1]])) THEN <<p[1], p[2] + 1>> ELSE <<p[1] + 1, 1>>

Before(p, q) == p[1] < q[1] \/ (p[1] = q[1] /\ p[2] < q[2])

(* m[i] is the place of text[i], and the place behind the text is e.  The  *)
(* first token may have lost its first character.                          *)
Marks(s, text, m, e) ==
  /\ m \in [1..(Len(text) + 1) -> Nat \X Nat]
  /\ m[Len(text) + 1] = e
  /\ \A i \in 1..Len(text) :
       /\ m[i][1] \in 1..Len(s)
       /\ m[i][2] \in 1..Len(Encode(s[m[i][1]]))
       /\ text[i] = Encode(s[m[i][1]])[m[i][2]] \/ (i = 1 /\ text[i] = "rest")
       /\ m[i + 1] = NextPlace(s, m[i])

Plain(s) == \A i \in DOMAIN s : PlainRequest(s[i])

------------------------------------------------------------------------------
(* A plain request, token by token.                                        *)
Ordinary == {"LF", "CR", "Connection", ":", " ", "Keep-Alive", "Host", "host"}

(* x is a, b and c in a row.                                               *)
InARow(x, a, b, c) ==
  /\ Len(x) = Len(a) + Len(b) + Len(c)
  /\ \A i \in 1..Len(a) : x[i] = a[i]
  /\ \A i \in 1..Len(b) : x[Len(a) + i] = b[i]
  /\ \A i \in 1..Len(c) : x[Len(a) + Len(b) + i] = c[i]

LEMMA PartsInARow ==
  ASSUME NEW S, NEW a \in Seq(S), NEW b \in Seq(S), NEW c \in Seq(S),
         NEW x, x = (a \o b) \o c
  PROVE  x \in Seq(S) /\ InARow(x, a, b, c)
<1> DEFINE y == a \o b
<1>1. /\ y \in Seq(S) /\ Len(y) = Len(a) + Len(b)
      /\ \A i \in 1..Len(y) : y[i] = IF i <= Len(a) THEN a[i] ELSE b[i - Len(a)]
  BY ConcatProperties
<1>2. x = y \o c
  OBVIOUS
<1> HIDE DEF y
<1>3. /\ x \in Seq(S) /\ Len(x) = Len(y) + Len(c)
      /\ \A i \in 1..Len(x) : x[i] = IF i <= Len(y) THEN y[i] ELSE c[i - Len(y)]
  <2>1. y \in Seq(S)
    BY <1>1
  <2> QED
    BY <1>2, <2>1, ConcatProperties
<1>4. Len(a) \in Nat /\ Len(b) \in Nat /\ Len(c) \in Nat
  BY LenProperties
<1>5. \A i \in 1..Len(a) : x[i] = a[i]
  <2> TAKE i \in 1..Len(a)
  <2>1. i \in 1..Len(y) /\ i \in 1..Len(x) /\ i <= Len(y) /\ i <= Len(a)
    BY <1>1, <1>3, <1>4
  <2> QED
    BY <1>1, <1>3, <2>1
<1>6. \A i \in 1..Len(b) : x[Len(a) + i] = b[i]
  <2> TAKE i \in 1..Len(b)
  <2> DEFINE j == Len(a) + i
  <2>1. /\ j \in 1..Len(y) /\ j \in 1..Len(x) /\ j <= Len(y) /\ ~(j <= Len(a)) /\ j - Len(a) = i
    BY <1>1, <1>3, <1>4
  <2> HIDE DEF j
  <2>2. x[j] = b[i]
    BY <1>1, <1>3, <2>1
  <2> QED
    BY <2>2 DEF j
<1>7. \A i \in 1..Len(c) : x[Len(a) + Len(b) + i] = c[i]
  <2> TAKE i \in 1..Len(c)
  <2> DEFINE j == Len(a) + Len(b) + i
  <2>1. j \in 1..Len(x) /\ ~(j <= Len(y)) /\ j - Len(y) = i
    BY <1>1, <1>3, <1>4
  <2> HIDE DEF j
  <2>2. x[j] = c[i]
    BY <1>3, <2>1
  <2> QED
    BY <2>2 DEF j
<1> QED
  BY <1>1, <1>3, <1>5, <1>6, <1>7 DEF InARow

(* The places of a request's line, and the rest of it.                     *)
LineOf(E, method, file) ==
  LET L == Len(file)
  IN  /\ Len(E) = L + 17
      /\ E[1] = method /\ E[2] = " " /\ E[3] = "/"
      /\ \A i \in 1..L : E[3 + i] = file[i]
      /\ E[L + 4] = " " /\ E[L + 5] = "HTTP" /\ E[L + 6] = "/" /\ E[L + 7] = "1.1"
      /\ E[L + 8] = "CR"
      /\ \A i \in (L + 9)..(L + 17) : E[i] \in Ordinary

(* The end of that line and the one header, from place L + 9 on.           *)
HeaderOf(E, L, keep) ==
  /\ E[L + 9] = "LF"
  /\ E[L + 10] = (IF keep THEN "Connection" ELSE "Host")
  /\ E[L + 11] = ":" /\ E[L + 12] = " "
  /\ E[L + 13] = (IF keep THEN "Keep-Alive" ELSE "host")
  /\ E[L + 14] = "CR" /\ E[L + 15] = "LF" /\ E[L + 16] = "CR" /\ E[L + 17] = "LF"

LEMMA EncodedRequest ==
  ASSUME NEW r \in Requests
  PROVE  /\ LineOf(Encode(r), r.method, r.file) /\ Len(r.file) \in Nat
         /\ HeaderOf(Encode(r), Len(r.file), r.keep)
<1> DEFINE a == <<r.method, " ", "/">>
           b == r.file
           version == <<" ", "HTTP", "/", "1.1", "CR", "LF">>
           keep == <<"Connection", ":", " ", "Keep-Alive", "CR", "LF">>
           host == <<"Host", ":", " ", "host", "CR", "LF">>
           header == IF r.keep THEN keep ELSE host
           end == <<"CR", "LF">>
           x == (a \o b) \o version
           E == (x \o header) \o end
           L == Len(b)
           Names == {r.method} \cup {r.file[i] : i \in 1..Len(r.file)} \cup {"HTTP", "/", "1.1"}
           U == Names \cup Ordinary
<1>1. b \in Seq(U) /\ Len(b) \in Nat
  <2>1. r.file \in Seq(STRING)
    BY DEF Requests
  <2>2. \A i \in 1..Len(r.file) : r.file[i] \in U
    OBVIOUS
  <2> HIDE DEF U
  <2> QED
    BY <2>1, <2>2, ElementsInSeq, LenProperties
<1>2. /\ Ordinary \subseteq U /\ r.method \in U /\ "HTTP" \in U /\ "/" \in U /\ "1.1" \in U
      /\ " " \in Ordinary /\ "CR" \in Ordinary /\ "LF" \in Ordinary
      /\ "Connection" \in Ordinary /\ ":" \in Ordinary /\ "Keep-Alive" \in Ordinary
      /\ "Host" \in Ordinary /\ "host" \in Ordinary
  BY DEF Ordinary
<1> HIDE DEF U, Names
<1>3. a \in Seq(U) /\ Len(a) = 3 /\ a[1] = r.method /\ a[2] = " " /\ a[3] = "/"
  <2>1. a \in Seq(U)
    BY <1>2, ShortTexts
  <2>2. Len(a) = 3 /\ a[1] = r.method /\ a[2] = " " /\ a[3] = "/"
    OBVIOUS
  <2> QED
    BY <2>1, <2>2
<1>4. /\ version \in Seq(U) /\ Len(version) = 6 /\ version[1] = " " /\ version[2] = "HTTP"
      /\ version[3] = "/" /\ version[4] = "1.1" /\ version[5] = "CR" /\ version[6] = "LF"
  <2>1. version \in Seq(U)
    BY <1>2, ShortTexts
  <2>2. /\ Len(version) = 6 /\ version[1] = " " /\ version[2] = "HTTP"
        /\ version[3] = "/" /\ version[4] = "1.1" /\ version[5] = "CR" /\ version[6] = "LF"
    OBVIOUS
  <2> QED
    BY <2>1, <2>2
<1>5. /\ header \in Seq(U) /\ Len(header) = 6 /\ \A i \in 1..6 : header[i] \in Ordinary
      /\ header[1] = (IF r.keep THEN "Connection" ELSE "Host") /\ header[2] = ":" /\ header[3] = " "
      /\ header[4] = (IF r.keep THEN "Keep-Alive" ELSE "host") /\ header[5] = "CR" /\ header[6] = "LF"
  <2>1. /\ keep \in Seq(U) /\ Len(keep) = 6 /\ \A i \in 1..6 : keep[i] \in Ordinary
        /\ keep[1] = "Connection" /\ keep[2] = ":" /\ keep[3] = " "
        /\ keep[4] = "Keep-Alive" /\ keep[5] = "CR" /\ keep[6] = "LF"
    <3>1. keep \in Seq(U)
      BY <1>2, ShortTexts
    <3>2. /\ Len(keep) = 6 /\ keep[1] = "Connection" /\ keep[2] = ":" /\ keep[3] = " "
          /\ keep[4] = "Keep-Alive" /\ keep[5] = "CR" /\ keep[6] = "LF"
      OBVIOUS
    <3> HIDE DEF keep
    <3>3. ASSUME NEW i \in 1..6 PROVE keep[i] \in Ordinary
      <4>1. i = 1 \/ i = 2 \/ i = 3 \/ i = 4 \/ i = 5 \/ i = 6
        OBVIOUS
      <4> QED
        BY <1>2, <3>2, <4>1
    <3> QED
      BY <3>1, <3>2, <3>3
  <2>2. /\ host \in Seq(U) /\ Len(host) = 6 /\ \A i \in 1..6 : host[i] \in Ordinary
        /\ host[1] = "Host" /\ host[2] = ":" /\ host[3] = " "
        /\ host[4] = "host" /\ host[5] = "CR" /\ host[6] = "LF"
    <3>1. host \in Seq(U)
      BY <1>2, ShortTexts
    <3>2. /\ Len(host) = 6 /\ host[1] = "Host" /\ host[2] = ":" /\ host[3] = " "
          /\ host[4] = "host" /\ host[5] = "CR" /\ host[6] = "LF"
      OBVIOUS
    <3> HIDE DEF host
    <3>3. ASSUME NEW i \in 1..6 PROVE host[i] \in Ordinary
      <4>1. i = 1 \/ i = 2 \/ i = 3 \/ i = 4 \/ i = 5 \/ i = 6
        OBVIOUS
      <4> QED
        BY <1>2, <3>2, <4>1
    <3> QED
      BY <3>1, <3>2, <3>3
  <2> HIDE DEF keep, host
  <2> QED
    BY <2>1, <2>2
<1>6. /\ end \in Seq(U) /\ Len(end) = 2 /\ \A i \in 1..2 : end[i] \in Ordinary
      /\ end[1] = "CR" /\ end[2] = "LF"
  <2>1. end \in Seq(U)
    <3>1. \A S : \A u, v \in S : <<u, v>> \in Seq(S)
      OBVIOUS
    <3>2. "CR" \in U /\ "LF" \in U
      BY <1>2
    <3> QED
      BY <3>1, <3>2
  <2>2. Len(end) = 2 /\ end[1] = "CR" /\ end[2] = "LF"
    OBVIOUS
  <2> HIDE DEF end
  <2>3. ASSUME NEW i \in 1..2 PROVE end[i] \in Ordinary
    <3>1. i = 1 \/ i = 2
      OBVIOUS
    <3> QED
      BY <1>2, <2>2, <3>1
  <2> QED
    BY <2>1, <2>2, <2>3
<1>7. Encode(r) = E
  BY DEF Encode
<1> HIDE DEF a, b, version, header, end, E
<1>8. x \in Seq(U) /\ InARow(x, a, b, version)
  BY <1>1, <1>3, <1>4, PartsInARow
<1> HIDE DEF x
<1>9. InARow(E, x, header, end)
  BY <1>5, <1>6, <1>8, PartsInARow DEF E
<1> HIDE DEF L
<1>10. L \in Nat /\ L = Len(b)
  BY <1>1 DEF L
<1>11. /\ Len(x) = L + 9
       /\ x[1] = r.method /\ x[2] = " " /\ x[3] = "/"
       /\ \A i \in 1..L : x[3 + i] = b[i]
       /\ x[L + 4] = " " /\ x[L + 5] = "HTTP" /\ x[L + 6] = "/" /\ x[L + 7] = "1.1"
       /\ x[L + 8] = "CR" /\ x[L + 9] = "LF"
  <2>1. /\ Len(x) = 3 + L + 6 /\ \A i \in 1..3 : x[i] = a[i]
        /\ \A i \in 1..L : x[3 + i] = b[i]
        /\ \A i \in 1..6 : x[3 + L + i] = version[i]
    BY <1>3, <1>4, <1>8, <1>10 DEF InARow
  <2>2. /\ 3 + L + 1 = L + 4 /\ 3 + L + 2 = L + 5 /\ 3 + L + 3 = L + 6 /\ 3 + L + 4 = L + 7
        /\ 3 + L + 5 = L + 8 /\ 3 + L + 6 = L + 9
    BY <1>10
  <2> HIDE DEF Ordinary
  <2>3. x[3 + L + 1] = " " /\ x[3 + L + 2] = "HTTP" /\ x[3 + L + 3] = "/"
    <3>1. 1 \in 1..6 /\ 2 \in 1..6 /\ 3 \in 1..6
      OBVIOUS
    <3> QED
      BY <1>4, <2>1, <3>1, Zenon
  <2>4. x[3 + L + 4] = "1.1" /\ x[3 + L + 5] = "CR" /\ x[3 + L + 6] = "LF"
    <3>1. 4 \in 1..6 /\ 5 \in 1..6 /\ 6 \in 1..6
      OBVIOUS
    <3> QED
      BY <1>4, <2>1, <3>1, Zenon
  <2>5. x[1] = r.method /\ x[2] = " " /\ x[3] = "/"
    <3>1. 1 \in 1..3 /\ 2 \in 1..3 /\ 3 \in 1..3
      OBVIOUS
    <3> QED
      BY <1>3, <2>1, <3>1, Zenon
  <2> QED
    BY <2>1, <2>2, <2>3, <2>4, <2>5
<1>12. /\ Len(E) = L + 17 /\ \A i \in 1..(L + 9) : E[i] = x[i]
       /\ \A i \in 1..6 : E[L + 9 + i] \in Ordinary /\ E[L + 9 + i] = header[i]
       /\ \A i \in 1..2 : E[L + 15 + i] \in Ordinary /\ E[L + 15 + i] = end[i]
  <2>1. /\ Len(E) = (L + 9) + 6 + 2 /\ \A i \in 1..(L + 9) : E[i] = x[i]
        /\ \A i \in 1..6 : E[(L + 9) + i] = header[i]
        /\ \A i \in 1..2 : E[(L + 9) + 6 + i] = end[i]
    <3>1. /\ Len(E) = Len(x) + Len(header) + Len(end)
          /\ \A i \in 1..Len(x) : E[i] = x[i]
          /\ \A i \in 1..Len(header) : E[Len(x) + i] = header[i]
          /\ \A i \in 1..Len(end) : E[Len(x) + Len(header) + i] = end[i]
      BY <1>9, Zenon DEF InARow
    <3>2. Len(x) = L + 9
      BY <1>11, Zenon
    <3>3. Len(header) = 6 /\ Len(end) = 2
      BY <1>5, <1>6, Zenon
    <3> QED
      BY <3>1, <3>2, <3>3, Zenon
  <2>2. (L + 9) + 6 = L + 15 /\ (L + 9) + 6 + 2 = L + 17
    BY <1>10
  <2>3. ASSUME NEW i \in 1..6 PROVE E[L + 9 + i] \in Ordinary /\ E[L + 9 + i] = header[i]
    BY <1>5, <2>1, Zenon
  <2>4. ASSUME NEW i \in 1..2 PROVE E[L + 15 + i] \in Ordinary /\ E[L + 15 + i] = end[i]
    BY <1>6, <2>1, <2>2, Zenon
  <2> QED
    BY <2>1, <2>2, <2>3, <2>4, Zenon
<1>13. \A i \in (L + 9)..(L + 17) : E[i] \in Ordinary
  <2> TAKE i \in (L + 9)..(L + 17)
  <2>1. CASE i = L + 9
    <3>1. E[L + 9] = "LF"
      <4>1. L + 9 \in 1..(L + 9)
        BY <1>10
      <4> QED
        BY <1>11, <1>12, <4>1
    <3> QED
      BY <1>2, <2>1, <3>1
  <2>2. CASE i \in (L + 10)..(L + 15)
    <3>1. i - (L + 9) \in 1..6 /\ L + 9 + (i - (L + 9)) = i
      BY <1>10, <2>2
    <3> QED
      BY <1>12, <3>1
  <2>3. CASE i \in (L + 16)..(L + 17)
    <3>1. i - (L + 15) \in 1..2 /\ L + 15 + (i - (L + 15)) = i
      BY <1>10, <2>3
    <3> QED
      BY <1>12, <3>1
  <2> QED
    BY <1>10, <2>1, <2>2, <2>3
<1>14. /\ E[1] = r.method /\ E[2] = " " /\ E[3] = "/"
       /\ \A i \in 1..L : E[3 + i] = b[i]
       /\ E[L + 4] = " " /\ E[L + 5] = "HTTP" /\ E[L + 6] = "/" /\ E[L + 7] = "1.1"
       /\ E[L + 8] = "CR"
  <2>1. /\ 1 \in 1..(L + 9) /\ 2 \in 1..(L + 9) /\ 3 \in 1..(L + 9)
        /\ L + 4 \in 1..(L + 9) /\ L + 5 \in 1..(L + 9) /\ L + 6 \in 1..(L + 9)
        /\ L + 7 \in 1..(L + 9) /\ L + 8 \in 1..(L + 9)
        /\ \A i \in 1..L : 3 + i \in 1..(L + 9)
    BY <1>10
  <2> QED
    BY <1>11, <1>12, <2>1
<1>15. HeaderOf(E, L, r.keep)
  <2>1. /\ L + 9 + 1 = L + 10 /\ L + 9 + 2 = L + 11 /\ L + 9 + 3 = L + 12 /\ L + 9 + 4 = L + 13
        /\ L + 9 + 5 = L + 14 /\ L + 9 + 6 = L + 15 /\ L + 15 + 1 = L + 16 /\ L + 15 + 2 = L + 17
        /\ L + 9 \in 1..(L + 9)
    BY <1>10
  <2>2. /\ 1 \in 1..6 /\ 2 \in 1..6 /\ 3 \in 1..6 /\ 4 \in 1..6 /\ 5 \in 1..6 /\ 6 \in 1..6
        /\ 1 \in 1..2 /\ 2 \in 1..2
    OBVIOUS
  <2>3. /\ E[L + 9 + 1] = header[1] /\ E[L + 9 + 2] = header[2] /\ E[L + 9 + 3] = header[3]
        /\ E[L + 9 + 4] = header[4] /\ E[L + 9 + 5] = header[5] /\ E[L + 9 + 6] = header[6]
    BY <1>12, <2>2, Zenon
  <2>4. E[L + 15 + 1] = end[1] /\ E[L + 15 + 2] = end[2]
    BY <1>12, <2>2, Zenon
  <2>5. E[L + 9] = "LF"
    BY <1>11, <1>12, <2>1, Zenon
  <2> QED
    BY <1>5, <1>6, <2>1, <2>3, <2>4, <2>5 DEF HeaderOf
<1> QED
  BY <1>7, <1>10, <1>12, <1>13, <1>14, <1>15 DEF LineOf, b

LEMMA EncodedLine ==
  ASSUME NEW r \in Requests
  PROVE  LineOf(Encode(r), r.method, r.file) /\ Len(r.file) \in Nat
  BY EncodedRequest

------------------------------------------------------------------------------
(* Marked texts.                                                           *)
NotAfter(p, q) == p = q \/ Before(p, q)

Place == Nat \X Nat

LEMMA PlacesOrdered ==
  ASSUME NEW s, NEW p \in Place
  PROVE  /\ NextPlace(s, p) \in Place /\ Before(p, NextPlace(s, p))
         /\ \A q, r \in Place : Before(p, q) /\ Before(q, r) => Before(p, r)
<1> DEFINE n == Len(Encode(s[p[1]]))
<1>1. NextPlace(s, p) = IF p[2] < n THEN <<p[1], p[2] + 1>> ELSE <<p[1] + 1, 1>>
  BY DEF NextPlace
<1> HIDE DEF n
<1>2. p[1] \in Nat /\ p[2] \in Nat
  BY DEF Place
<1>3. <<p[1], p[2] + 1>> \in Place /\ <<p[1] + 1, 1>> \in Place
  BY <1>2 DEF Place
<1>4. Before(p, <<p[1], p[2] + 1>>) /\ Before(p, <<p[1] + 1, 1>>)
  BY <1>2 DEF Before
<1>5. \A q, r \in Place : Before(p, q) /\ Before(q, r) => Before(p, r)
  BY DEF Before, Place
<1> QED
  BY <1>1, <1>3, <1>4, <1>5

LEMMA MarksGrow ==
  ASSUME NEW s, NEW text, Len(text) \in Nat, NEW m, NEW e, Marks(s, text, m, e),
         NEW i \in 1..Len(text)
  PROVE  \A j \in (i + 1)..(Len(text) + 1) : m[j] \in Place /\ Before(m[i], m[j])
<1> DEFINE n == Len(text) + 1
           a == i + 1
           P == {j \in a..n : m[j] \in Place /\ Before(m[i], m[j])}
<1>1. a \in Int /\ n \in Int /\ i \in 1..n /\ a \in 1..n /\ a - 1 = i
  OBVIOUS
<1>2. /\ \A j \in 1..n : m[j] \in Place
      /\ \A j \in 1..(n - 1) : m[j + 1] = NextPlace(s, m[j])
  <2>1. n - 1 = Len(text)
    OBVIOUS
  <2>2. \A j \in 1..n : m[j] \in Place
    BY DEF Marks, Place
  <2>3. \A j \in 1..Len(text) : m[j + 1] = NextPlace(s, m[j])
    BY DEF Marks
  <2> QED
    BY <2>1, <2>2, <2>3
<1>3. a \in P
  BY <1>1, <1>2, PlacesOrdered
<1>4. ASSUME NEW j \in a..(n - 1), j \in P PROVE j + 1 \in P
  <2>1. j \in 1..(n - 1) /\ j + 1 \in a..n /\ j + 1 \in 1..n
    BY <1>1
  <2>2. m[i] \in Place /\ m[j] \in Place /\ m[j + 1] \in Place /\ m[j + 1] = NextPlace(s, m[j])
    BY <1>1, <1>2, <2>1
  <2>3. Before(m[i], m[j]) /\ Before(m[j], m[j + 1])
    BY <1>4, <2>2, PlacesOrdered
  <2>4. Before(m[i], m[j + 1])
    BY <2>2, <2>3, PlacesOrdered
  <2> QED
    BY <2>1, <2>2, <2>4
<1> HIDE DEF P, a, n
<1>5. a..n \subseteq P
  BY <1>1, <1>3, <1>4, Induction
<1> QED
  BY <1>5 DEF P, a, n

(* An end of a marked text is marked.                                      *)
LEMMA MarksOfEnd ==
  ASSUME NEW s, NEW T, NEW text \in Seq(T), NEW m, NEW e, Marks(s, text, m, e),
         NEW n \in 0..Len(text)
  PROVE  \E q : Marks(s, SubSeq(text, n + 1, Len(text)), q, e) /\ q[1] = m[n + 1]
<1> DEFINE t == SubSeq(text, n + 1, Len(text))
           k == Len(text) - n
           q == [i \in 1..(k + 1) |-> m[n + i]]
<1>1. Len(text) \in Nat /\ k \in Nat /\ n \in Nat
  BY LenProperties
<1>2. Len(t) = k /\ \A i \in 1..k : t[i] = text[n + i]
  <2>1. \A i \in (n + 1)..Len(text) : text[i] \in T
    BY <1>1
  <2>2. /\ Len(t) = IF n + 1 <= Len(text) THEN Len(text) - (n + 1) + 1 ELSE 0
        /\ \A i \in 1..(Len(text) - (n + 1) + 1) : t[i] = text[n + 1 + i - 1]
    BY <1>1, <2>1, SubSeqProperties
  <2>3. Len(t) = k
    BY <1>1, <2>2
  <2>4. ASSUME NEW i \in 1..k PROVE t[i] = text[n + i]
    <3>1. i \in 1..(Len(text) - (n + 1) + 1) /\ n + 1 + i - 1 = n + i
      BY <1>1
    <3> QED
      BY <2>2, <3>1
  <2> QED
    BY <2>3, <2>4
<1> HIDE DEF t
<1>3. \A i \in 1..(k + 1) : n + i \in 1..(Len(text) + 1) /\ q[i] = m[n + i]
  BY <1>1
<1>4. q \in [1..(k + 1) -> Nat \X Nat] /\ q[k + 1] = e /\ q[1] = m[n + 1]
  <2>1. m \in [1..(Len(text) + 1) -> Nat \X Nat] /\ m[Len(text) + 1] = e
    BY DEF Marks
  <2>2. n + (k + 1) = Len(text) + 1 /\ k + 1 \in 1..(k + 1) /\ 1 \in 1..(k + 1)
    BY <1>1
  <2> QED
    BY <1>3, <2>1, <2>2
<1>5. ASSUME NEW i \in 1..k
      PROVE  /\ q[i][1] \in 1..Len(s) /\ q[i][2] \in 1..Len(Encode(s[q[i][1]]))
             /\ t[i] = Encode(s[q[i][1]])[q[i][2]] \/ (i = 1 /\ t[i] = "rest")
             /\ q[i + 1] = NextPlace(s, q[i])
  <2> DEFINE j == n + i
  <2>1. j \in 1..Len(text) /\ (j = 1 => i = 1) /\ n + (i + 1) = j + 1
        /\ i \in 1..(k + 1) /\ i + 1 \in 1..(k + 1)
    BY <1>1
  <2>2. q[i] = m[j] /\ q[i + 1] = m[j + 1] /\ t[i] = text[j]
    BY <1>2, <1>3, <2>1
  <2>3. /\ m[j][1] \in 1..Len(s) /\ m[j][2] \in 1..Len(Encode(s[m[j][1]]))
        /\ text[j] = Encode(s[m[j][1]])[m[j][2]] \/ (j = 1 /\ text[j] = "rest")
        /\ m[j + 1] = NextPlace(s, m[j])
    BY <2>1 DEF Marks
  <2> HIDE DEF j, q
  <2> QED
    BY <2>1, <2>2, <2>3
<1> HIDE DEF q, k
<1>6. Marks(s, t, q, e)
  BY <1>2, <1>4, <1>5 DEF Marks
<1> QED
  BY <1>4, <1>6 DEF t

LEMMA MarksWithoutFirst ==
  ASSUME NEW s, NEW T, NEW text \in Seq(T), NEW m, NEW e, Marks(s, text, m, e), text # <<>>
  PROVE  \E q : Marks(s, WithoutFirst(text), q, e) /\ NotAfter(m[1], q[1])
<1>1. Len(text) \in Nat /\ Len(text) > 0 /\ Tail(text) \in Seq(T) /\ Len(Tail(text)) = Len(text) - 1
      /\ \A i \in 1..Len(Tail(text)) : Tail(text)[i] = text[i + 1]
  BY LenProperties, EmptySeq, HeadTailProperties
<1>2. CASE WithoutFirst(text) = Tail(text)
  <2>1. Tail(text) = SubSeq(text, 1 + 1, Len(text)) /\ 1 \in 0..Len(text)
    BY <1>1
  <2>2. PICK q : Marks(s, Tail(text), q, e) /\ q[1] = m[1 + 1]
    <3> DEFINE k == 1
    <3>1. k \in 0..Len(text) /\ Tail(text) = SubSeq(text, k + 1, Len(text))
      BY <2>1
    <3> HIDE DEF k
    <3>2. \E q : Marks(s, SubSeq(text, k + 1, Len(text)), q, e) /\ q[1] = m[k + 1]
      BY <3>1, MarksOfEnd
    <3> QED
      BY <3>1, <3>2 DEF k
  <2>3. Before(m[1], m[1 + 1])
    <3>1. 1 \in 1..Len(text) /\ 1 + 1 \in (1 + 1)..(Len(text) + 1)
      BY <1>1
    <3> QED
      BY <1>1, <3>1, MarksGrow
  <2> QED
    BY <1>2, <2>2, <2>3 DEF NotAfter
<1>3. CASE WithoutFirst(text) = <<"rest">> \o Tail(text)
  <2> DEFINE rest == "rest"
             t == <<rest>> \o Tail(text)
             U == T \cup {rest}
  <2>1. Tail(text) \in Seq(U) /\ <<rest>> \in Seq(U) /\ Len(<<rest>>) = 1 /\ <<rest>>[1] = rest
    <3>1. \A i \in 1..Len(Tail(text)) : Tail(text)[i] \in U
      BY <1>1, ElementOfSeq
    <3>2. rest \in U
      OBVIOUS
    <3> HIDE DEF U, rest
    <3>3. Tail(text) \in Seq(U)
      BY <1>1, <3>1, ElementsInSeq
    <3> QED
      BY <3>2, <3>3
  <2> HIDE DEF U
  <2>2. Len(t) = 1 + Len(Tail(text)) /\ \A i \in 1..(1 + Len(Tail(text))) :
          t[i] = IF i <= 1 THEN <<rest>>[i] ELSE Tail(text)[i - 1]
    BY <2>1, ConcatProperties
  <2> HIDE DEF t
  <2>3. Len(t) = Len(text)
    BY <1>1, <2>2
  <2>4. ASSUME NEW i \in 1..Len(text)
        PROVE  t[i] = text[i] \/ (i = 1 /\ t[i] = rest)
    <3>1. i \in 1..(1 + Len(Tail(text)))
      BY <1>1
    <3>2. CASE i = 1
      BY <2>1, <2>2, <3>1, <3>2
    <3>3. CASE i # 1
      <4>1. i - 1 \in 1..Len(Tail(text)) /\ (i - 1) + 1 = i /\ ~(i <= 1)
        BY <1>1, <3>3
      <4> QED
        BY <1>1, <2>2, <3>1, <4>1
    <3> QED
      BY <3>2, <3>3
  <2>5. Marks(s, t, m, e)
    BY <2>3, <2>4 DEF Marks, rest
  <2> QED
    BY <1>3, <2>5 DEF NotAfter, t, rest
<1> QED
  BY <1>2, <1>3 DEF WithoutFirst

(* So is what parseHeaders leaves behind.                                  *)
LEMMA MarksOfRest ==
  ASSUME NEW s, NEW text \in Text, NEW m, NEW e, Marks(s, text, m, e), NEW t, RestOf(t, text)
  PROVE  \E q : Marks(s, t, q, e) /\ NotAfter(m[1], q[1])
<1>1. PICK n \in 0..Len(text) :
        \/ t = SubSeq(text, n + 1, Len(text))
        \/ n < Len(text) /\ t = WithoutFirst(SubSeq(text, n + 1, Len(text)))
  BY DEF RestOf
<1> DEFINE u == SubSeq(text, n + 1, Len(text))
<1>2. Len(text) \in Nat /\ n \in Nat /\ text \in Seq(Token)
  BY LenProperties DEF Text
<1>3. PICK q : Marks(s, u, q, e) /\ q[1] = m[n + 1]
  BY <1>2, MarksOfEnd
<1>4. NotAfter(m[1], m[n + 1])
  <2>1. CASE n = 0
    BY <2>1 DEF NotAfter
  <2>2. CASE n # 0
    <3>1. 1 \in 1..Len(text) /\ n + 1 \in (1 + 1)..(Len(text) + 1)
      BY <1>2, <2>2
    <3> QED
      BY <1>2, <3>1, MarksGrow DEF NotAfter
  <2> QED
    BY <2>1, <2>2
<1>5. u \in Seq(Token) /\ (n < Len(text) => u # <<>>)
  <2>1. u \in Seq(Token)
    BY <1>2, PartOfText DEF Text
  <2>2. ASSUME n < Len(text), u = <<>> PROVE FALSE
    <3>1. m[n + 1] = e /\ q[1] = e
      <4> HIDE DEF u
      <4>1. Len(u) + 1 = 1
        BY <2>2
      <4>2. q[Len(u) + 1] = e
        BY <1>3 DEF Marks
      <4> QED
        BY <1>3, <4>1, <4>2
    <3>2. n + 1 \in 1..Len(text) /\ Len(text) + 1 \in ((n + 1) + 1)..(Len(text) + 1)
      BY <1>2, <2>2
    <3>3. Before(m[n + 1], m[Len(text) + 1]) /\ m[n + 1] \in Place
      <4>1. Before(m[n + 1], m[Len(text) + 1])
        BY <1>2, <3>2, MarksGrow
      <4>2. n + 1 \in 1..(Len(text) + 1)
        BY <1>2
      <4> QED
        BY <4>1, <4>2 DEF Marks, Place
    <3>4. m[Len(text) + 1] = e
      BY DEF Marks
    <3> QED
      BY <3>1, <3>3, <3>4 DEF Before, Place
  <2> QED
    BY <2>1, <2>2
<1> HIDE DEF u
<1>6. CASE t = u
  BY <1>3, <1>4, <1>6
<1>7. CASE n < Len(text) /\ t = WithoutFirst(u)
  <2>1. PICK r : Marks(s, WithoutFirst(u), r, e) /\ NotAfter(q[1], r[1])
    BY <1>3, <1>5, <1>7, MarksWithoutFirst
  <2>2. m[1] \in Place /\ q[1] \in Place /\ r[1] \in Place
    <3>1. /\ m \in [1..(Len(text) + 1) -> Nat \X Nat] /\ 1 \in 1..(Len(text) + 1)
          /\ n + 1 \in 1..(Len(text) + 1)
      BY <1>2 DEF Marks
    <3>2. r[1] \in Place
      <4>1. r \in [1..(Len(WithoutFirst(u)) + 1) -> Nat \X Nat]
        BY <2>1 DEF Marks
      <4>2. Len(WithoutFirst(u)) \in Nat
        BY <1>1, <1>7, RestIsText, LenProperties DEF u, Text
      <4>3. 1 \in 1..(Len(WithoutFirst(u)) + 1)
        BY <4>2
      <4> QED
        BY <4>1, <4>3 DEF Place
    <3> QED
      BY <1>3, <3>1, <3>2 DEF Place
  <2>3. NotAfter(m[1], r[1])
    BY <1>3, <1>4, <2>1, <2>2, PlacesOrdered DEF NotAfter
  <2> QED
    BY <1>7, <2>1, <2>3
<1> QED
  BY <1>1, <1>6, <1>7 DEF u

(* Text can be marked from p to e.                                         *)
MarkedFrom(s, text, e, p) == \E q : Marks(s, text, q, e) /\ q[1] = p

(* What is sent next of a request continues the marks.                     *)
LEMMA MarksContinue ==
  ASSUME NEW s, NEW T, NEW text \in Seq(T), NEW m, NEW k \in 1..Len(s), Len(s) \in Nat,
         NEW request \in Seq(T), request = Encode(s[k]),
         NEW sent \in Nat, NEW n \in Nat \ {0}, sent + n <= Len(request),
         Marks(s, text, m, <<k, sent + 1>>),
         NEW e, e = IF sent + n = Len(request) THEN <<k + 1, 1>> ELSE <<k, sent + n + 1>>
  PROVE  MarkedFrom(s, text \o SubSeq(request, sent + 1, sent + n), e, m[1])
<1> DEFINE part == SubSeq(request, sent + 1, sent + n)
           t == text \o part
           len == Len(text)
           q == [i \in 1..(len + n + 1) |->
                   IF i <= len THEN m[i] ELSE IF i <= len + n THEN <<k, sent + (i - len)>> ELSE e]
<1>1. len \in Nat /\ Len(request) \in Nat /\ k \in Nat
  BY LenProperties
<1>2. part \in Seq(T) /\ Len(part) = n /\ \A i \in 1..n : part[i] = request[sent + i]
  <2>1. \A i \in (sent + 1)..(sent + n) : request[i] \in T
    BY <1>1
  <2>2. /\ part \in Seq(T)
        /\ Len(part) = IF sent + 1 <= sent + n THEN sent + n - (sent + 1) + 1 ELSE 0
        /\ \A i \in 1..(sent + n - (sent + 1) + 1) : part[i] = request[sent + 1 + i - 1]
    BY <1>1, <2>1, SubSeqProperties
  <2>3. Len(part) = n
    BY <2>2
  <2>4. ASSUME NEW i \in 1..n PROVE part[i] = request[sent + i]
    <3>1. i \in 1..(sent + n - (sent + 1) + 1) /\ sent + 1 + i - 1 = sent + i
      OBVIOUS
    <3> QED
      BY <2>2, <3>1
  <2> QED
    BY <2>2, <2>3, <2>4
<1> HIDE DEF part
<1>3. /\ Len(t) = len + n
      /\ \A i \in 1..len : t[i] = text[i]
      /\ \A i \in 1..n : t[len + i] = request[sent + i]
  <2>1. Len(t) = len + n /\ \A i \in 1..(len + n) : t[i] = IF i <= len THEN text[i] ELSE part[i - len]
    <3>1. /\ Len(t) = Len(text) + Len(part)
          /\ \A i \in 1..(Len(text) + Len(part)) :
               t[i] = IF i <= Len(text) THEN text[i] ELSE part[i - Len(text)]
      <4>1. part \in Seq(T)
        BY <1>2
      <4> QED
        BY <4>1, ConcatProperties, Zenon
    <3>2. Len(part) = n
      BY <1>2
    <3> QED
      BY <3>1, <3>2, Zenon
  <2> HIDE DEF t
  <2>2. \A i \in 1..len : i \in 1..(len + n) /\ i <= len
    BY <1>1
  <2>3. \A i \in 1..n : len + i \in 1..(len + n) /\ ~(len + i <= len) /\ (len + i) - len = i
    BY <1>1
  <2>4. \A i \in 1..len : t[i] = text[i]
    BY <2>1, <2>2
  <2>5. ASSUME NEW i \in 1..n PROVE t[len + i] = request[sent + i]
    <3> DEFINE j == len + i
    <3>1. j \in 1..(len + n) /\ ~(j <= len) /\ j - len = i
      BY <2>3
    <3> HIDE DEF j
    <3>2. t[j] = part[i]
      BY <2>1, <3>1
    <3> QED
      BY <1>2, <3>2 DEF j
  <2> QED
    BY <2>1, <2>4, <2>5
<1> HIDE DEF t
<1>4. /\ \A i \in 1..len : q[i] = m[i]
      /\ \A i \in 1..n : q[len + i] = <<k, sent + i>>
      /\ q[len + n + 1] = e
  <2>1. \A i \in 1..len : i \in 1..(len + n + 1) /\ i <= len
    BY <1>1
  <2>2. \A i \in 1..n : /\ len + i \in 1..(len + n + 1) /\ ~(len + i <= len) /\ len + i <= len + n
                        /\ (len + i) - len = i
    BY <1>1
  <2>3. /\ len + n + 1 \in 1..(len + n + 1) /\ ~(len + n + 1 <= len) /\ ~(len + n + 1 <= len + n)
    BY <1>1
  <2> QED
    BY <2>1, <2>2, <2>3
<1>5. m[len + 1] = <<k, sent + 1>> /\ m \in [1..(len + 1) -> Nat \X Nat]
  BY DEF Marks
<1>6. q \in [1..(len + n + 1) -> Nat \X Nat]
  <2>1. ASSUME NEW i \in 1..(len + n + 1)
        PROVE  (IF i <= len THEN m[i] ELSE IF i <= len + n THEN <<k, sent + (i - len)>> ELSE e)
                 \in Nat \X Nat
    <3>1. CASE i <= len
      <4>1. i \in 1..(len + 1)
        BY <1>1, <3>1
      <4> QED
        BY <1>5, <3>1, <4>1
    <3>2. CASE ~(i <= len)
      BY SMTT(30), <1>1, <3>2
    <3> QED
      BY <3>1, <3>2
  <2> QED
    BY <2>1
<1> HIDE DEF q
<1>7. \A i \in 1..(len + 1) : q[i] = m[i]
  <2> TAKE i \in 1..(len + 1)
  <2>1. CASE i = len + 1
    <3>1. 1 \in 1..n
      OBVIOUS
    <3> QED
      BY <1>4, <1>5, <2>1, <3>1
  <2>2. CASE i # len + 1
    <3> HIDE DEF len
    <3>1. i \in 1..len
      BY <1>1, <2>2
    <3> QED
      BY <1>4, <3>1
  <2> QED
    BY <2>1, <2>2
<1>8. ASSUME NEW i \in 1..(len + n)
      PROVE  /\ q[i][1] \in 1..Len(s) /\ q[i][2] \in 1..Len(Encode(s[q[i][1]]))
             /\ t[i] = Encode(s[q[i][1]])[q[i][2]] \/ (i = 1 /\ t[i] = "rest")
             /\ q[i + 1] = NextPlace(s, q[i])
  <2>1. CASE i \in 1..len
    <3>1. i \in 1..(len + 1) /\ i + 1 \in 1..(len + 1)
      BY <1>1, <2>1
    <3>2. q[i] = m[i] /\ q[i + 1] = m[i + 1] /\ t[i] = text[i]
      BY <1>3, <1>7, <2>1, <3>1
    <3>3. /\ m[i][1] \in 1..Len(s) /\ m[i][2] \in 1..Len(Encode(s[m[i][1]]))
          /\ text[i] = Encode(s[m[i][1]])[m[i][2]] \/ (i = 1 /\ text[i] = "rest")
          /\ m[i + 1] = NextPlace(s, m[i])
      BY <2>1 DEF Marks
    <3> QED
      BY <3>2, <3>3
  <2>2. CASE i \notin 1..len
    <3> DEFINE j == i - len
    <3>1. j \in 1..n /\ i = len + j /\ sent + j \in 1..Len(request)
      BY <1>1, <2>2
    <3> HIDE DEF j
    <3>2. q[i] = <<k, sent + j>> /\ t[i] = request[sent + j]
      BY <1>3, <1>4, <3>1
    <3>3. NextPlace(s, q[i]) = IF sent + j < Len(request) THEN <<k, sent + j + 1>> ELSE <<k + 1, 1>>
      BY <3>2 DEF NextPlace
    <3>4. q[i + 1] = NextPlace(s, q[i])
      <4>1. CASE j = n
        <5>1. i + 1 = len + n + 1
          BY <1>1, <3>1, <4>1
        <5>2. sent + j < Len(request) <=> ~(sent + n = Len(request))
          BY <1>1, <4>1
        <5> QED
          BY <1>4, <3>3, <4>1, <5>1, <5>2
      <4>2. CASE j # n
        <5>1. j + 1 \in 1..n /\ i + 1 = len + (j + 1) /\ sent + (j + 1) = sent + j + 1
          BY <1>1, <3>1, <4>2
        <5>2. sent + j < Len(request)
          BY <1>1, <3>1, <4>2
        <5>3. q[i + 1] = <<k, sent + (j + 1)>>
          BY <1>4, <5>1
        <5> QED
          BY <3>3, <5>1, <5>2, <5>3
      <4> QED
        BY <4>1, <4>2
    <3> QED
      BY <3>1, <3>2, <3>4
  <2> QED
    BY <2>1, <2>2
<1>9. Marks(s, t, q, e)
  <2>1. Len(t) + 1 = len + n + 1
    BY <1>3
  <2> QED
    BY <1>3, <1>4, <1>6, <1>8, <2>1 DEF Marks
<1>10. q[1] = m[1]
  BY <1>1, <1>7
<1> QED
  BY <1>9, <1>10 DEF MarkedFrom, t, part

------------------------------------------------------------------------------
(* The request line.                                                       *)

LEMMA VerbComesFirst ==
  ASSUME NEW r \in Requests, PlainRequest(r), NEW j \in 1..Len(Encode(r)), Encode(r)[j] \in Verbs
  PROVE  j = 1
<1> DEFINE E == Encode(r)
           L == Len(r.file)
<1>1. LineOf(E, r.method, r.file) /\ L \in Nat
  BY EncodedLine
<1>2. \A i \in 1..L : r.file[i] \notin Verbs
  <2>1. DOMAIN r.file = 1..L
    BY DEF Requests
  <2> QED
    BY <2>1 DEF PlainRequest, Verbs
<1>3. j \in 1..(L + 17) /\ E[j] \in Verbs
  BY <1>1 DEF LineOf
<1> HIDE DEF E
<1>4. CASE j \in 4..(L + 3)
  <2>1. j - 3 \in 1..L /\ 3 + (j - 3) = j
    BY <1>1, <1>4
  <2> QED
    BY <1>1, <1>2, <1>3, <2>1 DEF LineOf
<1>5. CASE j \in (L + 9)..(L + 17)
  <2>1. E[j] \in Ordinary
    BY <1>1, <1>5 DEF LineOf
  <2> QED
    BY <1>3, <2>1 DEF Ordinary, Verbs
<1>6. CASE j \in {2, 3, L + 4, L + 5, L + 6, L + 7, L + 8}
  <2>1. E[j] \in {" ", "/", "HTTP", "1.1", "CR"}
    <3> HIDE DEF L
    <3> QED
      BY <1>1, <1>6 DEF LineOf, L
  <2> QED
    BY <1>3, <2>1 DEF Verbs
<1> QED
  BY SMTT(30), <1>1, <1>3, <1>4, <1>5, <1>6

(* Behind a verb the text goes on with its request.                        *)
LEMMA VerbLeads ==
  ASSUME NEW s \in Seq(Requests), Plain(s), NEW text \in Text, NEW m, NEW e, Marks(s, text, m, e),
         NEW g \in 1..Len(text), text[g] \in Verbs,
         NEW k, k = m[g][1]
  PROVE  /\ k \in 1..Len(s) /\ m[g] = <<k, 1>>
         /\ \A d \in 0..(Len(Encode(s[k])) - 1) :
              g + d <= Len(text) => text[g + d] = Encode(s[k])[1 + d]
<1> DEFINE E == Encode(s[k])
           n == Len(E) - 1
           zero == 0
           P == {d \in 0..n : g + d <= Len(text) => m[g + d] = <<k, 1 + d>> /\ text[g + d] = E[1 + d]}
<1>1. Len(text) \in Nat
  BY LenProperties DEF Text
<1>2. /\ k \in 1..Len(s) /\ m[g] \in Nat \X Nat /\ m[g][2] \in 1..Len(E)
      /\ text[g] = E[m[g][2]] \/ text[g] = "rest"
  BY SMTT(30), <1>1 DEF Marks
<1>3. s[k] \in Requests /\ PlainRequest(s[k])
  BY <1>2 DEF Plain
<1>4. Len(E) \in Nat /\ Len(E) > 0
  BY <1>3, RequestIsText
<1> HIDE DEF E
<1>5. text[g] = E[m[g][2]]
  BY <1>2 DEF Verbs
<1>6. m[g][2] = 1
  BY <1>2, <1>3, <1>5, VerbComesFirst DEF E
<1>7. m[g] = <<k, 1>> /\ text[g] = E[1]
  BY <1>2, <1>5, <1>6
<1>8. n \in Nat /\ n \in Int /\ zero \in Int /\ g \in Nat
  BY <1>4
<1>9. zero \in P
  <2>1. g + 0 = g /\ 1 + 0 = 1 /\ 0 \in 0..n
    BY <1>8
  <2> QED
    BY <1>7, <2>1
<1>10. ASSUME NEW d \in zero..(n - 1), d \in P PROVE d + 1 \in P
  <2>1. d + 1 \in 0..n /\ d \in Nat
    BY <1>8
  <2> SUFFICES ASSUME g + (d + 1) <= Len(text)
               PROVE  m[g + (d + 1)] = <<k, 1 + (d + 1)>> /\ text[g + (d + 1)] = E[1 + (d + 1)]
    BY <2>1
  <2>2. /\ g + d \in 1..Len(text) /\ g + (d + 1) = (g + d) + 1 /\ g + (d + 1) \in 1..Len(text)
        /\ g + (d + 1) # 1
    BY <1>1, <1>8, <2>1
  <2>3. m[g + d] = <<k, 1 + d>>
    BY <1>10, <2>2
  <2>4. m[(g + d) + 1] = NextPlace(s, m[g + d])
    BY <2>2 DEF Marks
  <2>5. NextPlace(s, <<k, 1 + d>>) = IF 1 + d < Len(E) THEN <<k, 1 + d + 1>> ELSE <<k + 1, 1>>
    BY DEF NextPlace, E
  <2>6. 1 + d < Len(E) /\ 1 + d + 1 = 1 + (d + 1)
    BY <1>4, <2>1
  <2>7. m[g + (d + 1)] = <<k, 1 + (d + 1)>>
    BY <2>2, <2>3, <2>4, <2>5, <2>6
  <2>8. text[g + (d + 1)] = Encode(s[m[g + (d + 1)][1]])[m[g + (d + 1)][2]]
    BY <2>2 DEF Marks
  <2> QED
    BY <2>7, <2>8 DEF E
<1> HIDE DEF P, n, zero
<1>11. zero..n \subseteq P
  BY <1>8, <1>9, <1>10, Induction
<1> QED
  BY <1>2, <1>7, <1>11 DEF P, n, zero, E

(* Find finds the first place.                                             *)
FirstAt(str, c, from, n) ==
  n \in from..Len(str) /\ str[n] = c /\ \A i \in from..(n - 1) : str[i] # c

LEMMA FindIsFirst ==
  ASSUME NEW T, NEW str \in Seq(T), NEW c, NEW from \in Nat \ {0}, NEW n, FirstAt(str, c, from, n)
  PROVE  Find(str, c, from) = n
<1> USE DEF FirstAt
<1> DEFINE I == {i \in from..Len(str) : str[i] = c}
<1>1. Find(str, c, from) = IF I # {} THEN Min(I) ELSE 0
  BY DEF Find, SelectInSubSeq
<1>2. n \in I /\ Len(str) \in Nat
  BY LenProperties
<1>3. \A i \in I : n <= i
  <2> TAKE i \in I
  <2>1. i \in Nat /\ n \in Nat /\ (i < n => i \in from..(n - 1))
    BY <1>2
  <2> QED
    BY <2>1
<1>4. Min(I) = n
  <2>1. I \subseteq Nat
    BY <1>2
  <2> HIDE DEF I
  <2>2. \A x \in I : (\A y \in I : x <= y) => x = n
    BY <1>2, <1>3, <2>1
  <2> QED
    BY <1>2, <1>3, <2>2 DEF Min
<1> QED
  BY <1>1, <1>2, <1>4

LEMMA FoundFirst ==
  ASSUME NEW T, NEW str \in Seq(T), NEW c, Find(str, c, 1) # 0
  PROVE  /\ Find(str, c, 1) \in 1..Len(str) /\ str[Find(str, c, 1)] = c
         /\ \A i \in 1..(Find(str, c, 1) - 1) : str[i] # c
<1> DEFINE P(n) == n \in Nat /\ n \in 1..Len(str) /\ str[n] = c
           C == {n \in 1..Len(str) : str[n] = c}
<1>1. Find(str, c, 1) \in 0..Len(str) /\ str[Find(str, c, 1)] = c /\ Len(str) \in Nat
  BY FindStops, LenProperties
<1>2. C \subseteq Nat /\ Find(str, c, 1) \in C
  BY <1>1
<1> HIDE DEF C
<1>3. PICK n \in C : \A k \in C : n <= k
  BY <1>2, LeastElement
<1>4. n \in 1..Len(str) /\ str[n] = c /\ n \in Nat
  BY <1>2, <1>3 DEF C
<1>5. \A i \in 1..(n - 1) : str[i] # c
  <2> SUFFICES ASSUME NEW i \in 1..(n - 1), str[i] = c PROVE FALSE
    OBVIOUS
  <2>1. i \in C /\ i < n
    BY <1>1, <1>4 DEF C
  <2> QED
    BY <1>3, <1>4, <2>1
<1>6. Find(str, c, 1) = n
  <2>1. n \in 1..Len(str) /\ str[n] = c /\ \A i \in 1..(n - 1) : str[i] # c
    BY <1>4, <1>5
  <2>2. FirstAt(str, c, 1, n)
    BY <2>1 DEF FirstAt
  <2> QED
    BY <2>2, FindIsFirst
<1> QED
  BY <1>4, <1>5, <1>6

(* From g up to its end at cr the line is that of request number k.        *)
LineAt(s, text, m, cr, g, k) ==
  /\ k \in 1..Len(s) /\ m[g] = <<k, 1>>
  /\ text[g] = s[k].method
  /\ cr = g + Len(s[k].file) + 7
  /\ \A d \in 0..(Len(s[k].file) + 6) : text[g + d] = Encode(s[k])[1 + d]

(* A line with a verb is the line of a request, or the end of the one      *)
(* before and then the line of a request.                                  *)
LEMMA LineWithVerb ==
  ASSUME NEW s \in Seq(Requests), Plain(s), NEW text \in Text, NEW m, NEW e, Marks(s, text, m, e),
         NEW cr \in 1..Len(text), text[cr] = "CR", \A i \in 1..(cr - 1) : text[i] # "CR",
         NEW g \in 1..(cr - 1), text[g] \in Verbs,
         NEW k, k = m[g][1]
  PROVE  LineAt(s, text, m, cr, g, k)
<1> DEFINE E == Encode(s[k])
           L == Len(s[k].file)
<1>1. Len(text) \in Nat /\ cr \in Nat /\ g \in Nat /\ g \in 1..Len(text) /\ g < cr
  BY LenProperties DEF Text
<1>2. /\ k \in 1..Len(s) /\ m[g] = <<k, 1>>
      /\ \A d \in 0..(Len(E) - 1) : g + d <= Len(text) => text[g + d] = E[1 + d]
  <2>1. k \in 1..Len(s) /\ m[g] = <<k, 1>>
    BY <1>1, VerbLeads
  <2>2. \A d \in 0..(Len(E) - 1) : g + d <= Len(text) => text[g + d] = E[1 + d]
    BY SMTT(30), <1>1, VerbLeads
  <2> QED
    BY <2>1, <2>2
<1>3. s[k] \in Requests /\ PlainRequest(s[k])
  BY <1>2 DEF Plain
<1>4. LineOf(E, s[k].method, s[k].file) /\ L \in Nat
  BY <1>3, EncodedLine
<1> HIDE DEF E
<1>5. Len(E) = L + 17
  BY <1>4 DEF LineOf
<1>6. E[1] = text[g] /\ E[1] = s[k].method
  <2>1. 0 \in 0..(Len(E) - 1) /\ g + 0 = g /\ 1 + 0 = 1 /\ g + 0 <= Len(text)
    BY <1>1, <1>4, <1>5
  <2>2. text[g + 0] = E[1 + 0]
    BY <1>2, <2>1
  <2> QED
    BY <1>4, <2>1, <2>2 DEF LineOf
<1>7. \A i \in 1..(L + 7) : E[i] # "CR"
  <2>1. \A i \in 1..L : s[k].file[i] # "CR"
    <3>1. DOMAIN s[k].file = 1..L
      BY <1>3 DEF Requests
    <3> QED
      BY <1>3, <3>1 DEF PlainRequest
  <2> TAKE i \in 1..(L + 7)
  <2>2. CASE i \in 4..(L + 3)
    <3>0. L \in Nat
      BY <1>4
    <3> HIDE DEF L
    <3>1. i - 3 \in 1..L /\ 3 + (i - 3) = i
      BY <2>2, <3>0
    <3>2. E[3 + (i - 3)] = s[k].file[i - 3]
      BY <1>4, <3>1 DEF LineOf, L
    <3> QED
      BY <2>1, <3>1, <3>2
  <2>3. CASE i \in {2, 3, L + 4, L + 5, L + 6, L + 7}
    <3>1. E[i] \in {" ", "/", "HTTP", "1.1"}
      <4> HIDE DEF L
      <4> QED
        BY <1>4, <2>3 DEF LineOf, L
    <3> QED
      BY <3>1
  <2>4. CASE i = 1
    BY <1>6, <2>4 DEF Verbs
  <2>5. \/ i \in 4..(L + 3) \/ i \in {2, 3, L + 4, L + 5, L + 6, L + 7} \/ i = 1
    <3>1. L \in Nat
      BY <1>4
    <3> HIDE DEF L
    <3>2. i \in 1..3 \/ i \in 4..(L + 3) \/ i \in (L + 4)..(L + 7)
      BY <3>1
    <3>3. ASSUME i \in (L + 4)..(L + 7) PROVE i \in {L + 4, L + 5, L + 6, L + 7}
      BY <3>1, <3>3
    <3> QED
      BY <3>2, <3>3
  <2> QED
    BY <2>2, <2>3, <2>4, <2>5
<1>8. E[L + 8] = "CR"
  BY <1>4 DEF LineOf
<1> HIDE DEF L
<1>9. cr = g + L + 7
  <2>1. CASE cr < g + L + 7
    <3> DEFINE d == cr - g
    <3>1. d \in 0..(Len(E) - 1) /\ g + d = cr /\ 1 + d \in 1..(L + 7)
      BY <1>1, <1>4, <1>5, <2>1
    <3> HIDE DEF d
    <3>2. text[g + d] = E[1 + d]
      BY <1>1, <1>2, <3>1
    <3> QED
      BY <1>7, <3>1, <3>2
  <2>2. CASE cr > g + L + 7
    <3> DEFINE d == L + 7
    <3>1. d \in 0..(Len(E) - 1) /\ g + d <= Len(text) /\ 1 + d = L + 8 /\ g + d \in 1..(cr - 1)
      BY <1>1, <1>4, <1>5, <2>2
    <3> HIDE DEF d
    <3>2. text[g + d] = E[1 + d]
      BY <1>2, <3>1
    <3> QED
      BY <1>8, <3>1, <3>2
  <2> QED
    BY <1>1, <1>4, <2>1, <2>2
<1>10. \A d \in 0..(L + 6) : text[g + d] = E[1 + d]
  <2> TAKE d \in 0..(L + 6)
  <2>1. d \in 0..(Len(E) - 1) /\ g + d <= Len(text)
    BY <1>1, <1>4, <1>5, <1>9
  <2> QED
    BY <1>2, <2>1
<1> QED
  BY <1>2, <1>6, <1>9, <1>10 DEF L, E, LineAt

ReadsNothing(u, text, method, file) ==
  /\ u.result \in {"AGAIN", "ERROR"} /\ u.method = method /\ u.file = file
  /\ RestOf(u.rest, text)

ReadsLine(u, s, text, m) ==
  \E n \in 1..Len(text), g \in 1..Len(text), k \in 1..Len(s) :
    /\ u.result = "SUCCESS" /\ u.method = s[k].method /\ u.file = Target(s[k])
    /\ u.rest = SubSeq(text, n + 1, Len(text))
    /\ g <= n /\ m[g] = <<k, 1>>

(* The line of text that ends at cr is that of r from the verb on.         *)
LineFromVerb(r, text, cr, line, verb) ==
  /\ PlainRequest(r)
  /\ cr = Find(text, "CR", 1) /\ cr \in 1..Len(text)
  /\ line = SubSeq(text, 1, cr - 1)
  /\ LET get == Find(line, "GET", 1)
     IN  verb = IF get # 0 THEN get ELSE Find(line, "HEAD", 1)
  /\ verb # 0 /\ cr = verb + Len(r.file) + 7
  /\ \A d \in 0..(Len(r.file) + 6) : text[verb + d] = Encode(r)[1 + d]

(* What parseURI makes of such a line.                                     *)
LEMMA LineOfRequest ==
  ASSUME NEW r \in Requests, NEW text \in Text, NEW cr, NEW line, NEW verb,
         LineFromVerb(r, text, cr, line, verb),
         NEW method, NEW file, NEW u, u = ParseURI(text, method, file)
  PROVE  /\ u.result = "SUCCESS" /\ u.rest = SubSeq(text, cr + 1, Len(text))
         /\ u.method = r.method /\ u.file = Target(r)
<1> DEFINE L == Len(r.file)
           E == Encode(r)
           slash == Find(line, "/", verb)
           space == Find(line, " ", slash)
           name == SubSeq(line, slash + 1, space - 1)
           slash2 == Find(line, "/", space)
           rest == SubSeq(text, cr + 1, Len(text))
<1>1. Len(text) \in Nat /\ text \in Seq(Token) /\ cr \in 1..Len(text)
  BY LenProperties DEF Text, LineFromVerb
<1>0. line = SubSeq(text, 1, cr - 1)
  BY DEF LineFromVerb
<1>2. line \in Seq(Token) /\ Len(line) = cr - 1 /\ \A i \in 1..(cr - 1) : line[i] = text[i]
  <2>1. cr - 1 \in 0..Len(text)
    BY <1>1
  <2>2. line \in Seq(Token) /\ Len(line) = cr - 1
    BY <1>0, <1>1, <2>1, PrefixProperties
  <2>3. \A i \in 1..(cr - 1) : line[i] = text[i]
    BY <1>0, <1>1, <2>1, PrefixProperties
  <2> QED
    BY <2>2, <2>3
<1>3. verb \in 1..(cr - 1) /\ line[verb] \in Verbs
  <2> DEFINE get == Find(line, "GET", 1)
             head == Find(line, "HEAD", 1)
  <2>1. /\ get # 0 => get \in 1..Len(line) /\ line[get] = "GET"
        /\ head # 0 => head \in 1..Len(line) /\ line[head] = "HEAD"
    BY <1>2, FoundFirst
  <2>2. verb # 0 /\ verb = IF get # 0 THEN get ELSE head
    BY DEF LineFromVerb
  <2> HIDE DEF get, head
  <2> QED
    BY <1>2, <2>1, <2>2 DEF Verbs
<1>6. cr = verb + L + 7
  BY DEF LineFromVerb
<1>7. \A d \in 0..(L + 6) : text[verb + d] = E[1 + d]
  BY DEF LineFromVerb
<1>8. r \in Requests /\ PlainRequest(r)
  BY DEF LineFromVerb
<1>9. LineOf(E, r.method, r.file) /\ L \in Nat
  BY <1>8, EncodedLine
<1> HIDE DEF E
<1>10. verb \in Nat \ {0} /\ Len(line) = verb + L + 6
  BY <1>1, <1>2, <1>3, <1>6, <1>9
<1>11. /\ E[2] = " " /\ E[3] = "/" /\ \A i \in 1..L : E[3 + i] = r.file[i]
       /\ E[L + 4] = " " /\ E[L + 5] = "HTTP" /\ E[L + 6] = "/" /\ E[L + 7] = "1.1"
  BY <1>9 DEF LineOf
<1> HIDE DEF L
<1>12. \A d \in 0..(L + 6) : line[verb + d] = E[1 + d]
  <2> TAKE d \in 0..(L + 6)
  <2>1. verb + d \in 1..(cr - 1)
    BY <1>6, <1>9, <1>10
  <2> QED
    BY <1>2, <1>7, <2>1
<1>13. line[verb] \notin {"/", " "} /\ line[verb + 1] = " " /\ line[verb + 2] = "/"
  <2>1. 1 \in 0..(L + 6) /\ 2 \in 0..(L + 6) /\ 1 + 1 = 2 /\ 1 + 2 = 3
    BY <1>9
  <2>2. line[verb + 1] = E[1 + 1] /\ line[verb + 2] = E[1 + 2]
    BY <1>12, <2>1
  <2> QED
    BY <1>3, <1>11, <2>1, <2>2 DEF Verbs
<1>14. slash = verb + 2
  <2>1. verb + 2 \in verb..Len(line)
    BY <1>9, <1>10
  <2>2. ASSUME NEW i \in verb..((verb + 2) - 1) PROVE line[i] # "/"
    <3>1. i = verb \/ i = verb + 1
      BY <1>10
    <3> QED
      BY <1>13, <3>1
  <2>3. FirstAt(line, "/", verb, verb + 2)
    BY <1>13, <2>1, <2>2 DEF FirstAt
  <2> QED
    BY <1>2, <1>10, <2>3, FindIsFirst
<1>15. /\ \A i \in 1..L : line[verb + 2 + i] = r.file[i]
       /\ line[verb + L + 3] = " " /\ line[verb + L + 4] = "HTTP"
       /\ line[verb + L + 5] = "/" /\ line[verb + L + 6] = "1.1"
  <2>1. ASSUME NEW i \in 1..L PROVE line[verb + 2 + i] = r.file[i]
    <3>1. 2 + i \in 0..(L + 6) /\ verb + (2 + i) = verb + 2 + i /\ 1 + (2 + i) = 3 + i
      BY <1>9, <1>10
    <3> QED
      <4>1. line[verb + (2 + i)] = E[1 + (2 + i)]
        BY <1>12, <3>1, Zenon
      <4>2. E[3 + i] = r.file[i]
        BY <1>11, Zenon
      <4> QED
        BY <3>1, <4>1, <4>2, Zenon
  <2>2. /\ L + 3 \in 0..(L + 6) /\ verb + (L + 3) = verb + L + 3 /\ 1 + (L + 3) = L + 4
        /\ L + 4 \in 0..(L + 6) /\ verb + (L + 4) = verb + L + 4 /\ 1 + (L + 4) = L + 5
        /\ L + 5 \in 0..(L + 6) /\ verb + (L + 5) = verb + L + 5 /\ 1 + (L + 5) = L + 6
        /\ L + 6 \in 0..(L + 6) /\ verb + (L + 6) = verb + L + 6 /\ 1 + (L + 6) = L + 7
    BY <1>9, <1>10
  <2>3. line[verb + L + 3] = " " /\ line[verb + L + 4] = "HTTP"
    BY <1>11, <1>12, <2>2
  <2>4. line[verb + L + 5] = "/" /\ line[verb + L + 6] = "1.1"
    BY <1>11, <1>12, <2>2
  <2> QED
    BY <2>1, <2>3, <2>4
<1>16. \A i \in 1..L : r.file[i] # " "
  <2>1. DOMAIN r.file = 1..L
    BY <1>8 DEF Requests, L
  <2> QED
    BY <1>8, <2>1 DEF PlainRequest
<1>17. space = verb + L + 3
  <2> HIDE DEF slash
  <2>1. verb + L + 3 \in slash..Len(line) /\ slash \in Nat \ {0}
    BY <1>9, <1>10, <1>14
  <2>2. ASSUME NEW i \in slash..((verb + L + 3) - 1) PROVE line[i] # " "
    <3>1. CASE i = verb + 2
      BY <1>13, <3>1
    <3>2. CASE i # verb + 2
      <4> DEFINE j == i - (verb + 2)
      <4>1. j \in 1..L /\ i = verb + 2 + j
        BY <1>9, <1>10, <1>14, <3>2
      <4> HIDE DEF j
      <4> QED
        BY <1>15, <1>16, <4>1
    <3> QED
      BY <3>1, <3>2
  <2>3. FirstAt(line, " ", slash, verb + L + 3)
    BY <1>15, <2>1, <2>2 DEF FirstAt
  <2> QED
    BY <1>2, <2>1, <2>3, FindIsFirst
<1>18. slash2 = verb + L + 5
  <2> HIDE DEF space
  <2>1. verb + L + 5 \in space..Len(line) /\ space \in Nat \ {0}
    BY <1>9, <1>10, <1>17
  <2>2. ASSUME NEW i \in space..((verb + L + 5) - 1) PROVE line[i] # "/"
    <3>1. i = verb + L + 3 \/ i = verb + L + 4
      BY <1>9, <1>10, <1>17
    <3> QED
      BY <1>15, <3>1
  <2>3. FirstAt(line, "/", space, verb + L + 5)
    BY <1>15, <2>1, <2>2 DEF FirstAt
  <2> QED
    BY <1>2, <2>1, <2>3, FindIsFirst
<1> HIDE DEF slash, space, slash2
<1>19. name = r.file
  <2>1. r.file \in Seq(STRING) /\ DOMAIN r.file = 1..L /\ Len(r.file) = L
    BY <1>8 DEF Requests, L
  <2> DEFINE from == verb + 3
             to == verb + L + 2
             T == STRING \cup Token
             part == SubSeq(line, from, to)
  <2>2. name = part
    <3>1. slash + 1 = from /\ space - 1 = to
      BY <1>9, <1>10, <1>14, <1>17
    <3> QED
      BY <3>1
  <2>3. from \in Int /\ to \in Int /\ to - from + 1 = L /\ (from <= to <=> L > 0)
    BY <1>9, <1>10
  <2>4. \A i \in from..to : line[i] \in T
    <3> TAKE i \in from..to
    <3>1. i \in 1..Len(line)
      BY <1>9, <1>10
    <3>2. line[i] \in Token
      BY <1>2, <3>1, ElementOfSeq
    <3> QED
      BY <3>2
  <2> HIDE DEF T
  <2>5. /\ part \in Seq(T) /\ Len(part) = IF from <= to THEN to - from + 1 ELSE 0
        /\ \A i \in 1..(to - from + 1) : part[i] = line[from + i - 1]
    BY <2>3, <2>4, SubSeqProperties
  <2>6. Len(part) = L
    BY <1>9, <2>3, <2>5
  <2>7. \A i \in 1..L : part[i] = r.file[i]
    <3> TAKE i \in 1..L
    <3>1. from + i - 1 = verb + 2 + i
      BY <1>9, <1>10
    <3> QED
      <4>1. part[i] = line[from + i - 1]
        <5>1. i \in 1..(to - from + 1)
          BY <2>3, Zenon
        <5> QED
          BY <2>5, <5>1, Zenon
      <4>2. line[verb + 2 + i] = r.file[i]
        BY <1>15, Zenon
      <4> QED
        BY <3>1, <4>1, <4>2, Zenon
  <2>8. r.file \in Seq(T)
    <3>1. \A i \in 1..Len(r.file) : r.file[i] \in T
      BY <2>1, ElementOfSeq DEF T
    <3> QED
      BY <2>1, <3>1, ElementsInSeq
  <2> HIDE DEF part
  <2>9. part = r.file
    BY <2>1, <2>5, <2>6, <2>7, <2>8, SeqEqual
  <2> QED
    BY <2>2, <2>9
<1>20. \E i \in DOMAIN line : slash2 # 0 /\ i = slash2 + 1 /\ line[i] \in {"1.0", "1.1"}
  <2>1. DOMAIN line = 1..Len(line)
    BY <1>2
  <2>2. slash2 # 0 /\ slash2 + 1 = verb + L + 6 /\ verb + L + 6 \in DOMAIN line
    BY <1>9, <1>10, <1>18, <2>1
  <2> QED
    BY <1>15, <2>2
<1>21. slash # 0 /\ space # 0
  BY <1>9, <1>10, <1>14, <1>17
<1>22. /\ u.result = "SUCCESS" /\ u.rest = rest /\ u.method = line[verb]
       /\ u.file = IF name = <<>> THEN <<"index.html">> ELSE CutQuery(name)
  <2>1. cr # 0
    BY <1>1
  <2> QED
    BY <1>20, <1>21, <2>1 DEF ParseURI, LineFromVerb, slash, space, slash2
<1>23. line[verb] = r.method
  <2>1. 0 \in 0..(L + 6) /\ verb + 0 = verb /\ 1 + 0 = 1
    BY <1>9, <1>10
  <2>2. line[verb] = E[1]
    BY <1>12, <2>1
  <2> QED
    BY <1>9, <2>2 DEF LineOf
<1> QED
  BY <1>19, <1>22, <1>23 DEF Target

(* parseURI on a marked text: no line end, a line without a verb, or the   *)
(* line of a request.                                                      *)
LEMMA LineIsRequest ==
  ASSUME NEW s \in Seq(Requests), Plain(s), NEW text \in Text, NEW m, NEW e, Marks(s, text, m, e),
         NEW method, NEW file, NEW u, u = ParseURI(text, method, file)
  PROVE  ReadsNothing(u, text, method, file) \/ ReadsLine(u, s, text, m)
<1> DEFINE cr   == Find(text, "CR", 1)
           line == SubSeq(text, 1, cr - 1)
           get  == Find(line, "GET", 1)
           head == Find(line, "HEAD", 1)
           verb == IF get # 0 THEN get ELSE head
           slash == Find(line, "/", verb)
           space == Find(line, " ", slash)
           name == SubSeq(line, slash + 1, space - 1)
           slash2 == Find(line, "/", space)
           rest == SubSeq(text, cr + 1, Len(text))
<1>1. Len(text) \in Nat /\ text \in Seq(Token)
  BY LenProperties DEF Text
<1>2. cr \in 0..Len(text)
  BY <1>1, FindStops
<1>3. CASE cr = 0
  <2>1. u.result = "AGAIN" /\ u.method = method /\ u.file = file /\ u.rest = text
    BY <1>3 DEF ParseURI
  <2>2. RestOf(text, text)
    <3>1. text = SubSeq(text, 0 + 1, Len(text)) /\ 0 \in 0..Len(text)
      BY <1>1
    <3> QED
      BY <3>1 DEF RestOf
  <2> QED
    BY <2>1, <2>2 DEF ReadsNothing
<1>4. CASE cr # 0 /\ verb = 0
  <2>1. u.result = "ERROR" /\ u.method = method /\ u.file = file /\ u.rest = rest
    BY <1>4 DEF ParseURI
  <2>2. RestOf(rest, text)
    BY <1>2 DEF RestOf
  <2> QED
    BY <2>1, <2>2 DEF ReadsNothing
<1>5. CASE cr # 0 /\ verb # 0
  <2>1. /\ cr \in 1..Len(text) /\ text[cr] = "CR" /\ \A i \in 1..(cr - 1) : text[i] # "CR"
    <3> HIDE DEF cr
    <3> QED
      BY <1>1, <1>5, FoundFirst DEF cr
  <2>2. line \in Seq(Token) /\ Len(line) = cr - 1 /\ \A i \in 1..(cr - 1) : line[i] = text[i]
    <3> HIDE DEF cr
    <3>1. cr - 1 \in 0..Len(text)
      BY <1>1, <2>1
    <3>2. line \in Seq(Token) /\ Len(line) = cr - 1
      BY <1>1, <3>1, PrefixProperties
    <3>3. \A i \in 1..(cr - 1) : line[i] = text[i]
      BY <1>1, <3>1, PrefixProperties
    <3> QED
      BY <3>2, <3>3
  <2> HIDE DEF cr, line
  <2>3. verb \in 1..(cr - 1) /\ line[verb] \in Verbs
    <3>1. /\ get # 0 => get \in 1..Len(line) /\ line[get] = "GET"
          /\ head # 0 => head \in 1..Len(line) /\ line[head] = "HEAD"
      BY <2>2, FoundFirst
    <3> HIDE DEF get, head
    <3> QED
      BY <1>5, <2>2, <3>1 DEF Verbs
  <2> HIDE DEF verb
  <2>4. text[verb] \in Verbs
    BY <2>2, <2>3
  <2> PICK k : k = m[verb][1]
    OBVIOUS
  <2> DEFINE L == Len(s[k].file)
             E == Encode(s[k])
  <2>5. /\ k \in 1..Len(s) /\ m[verb] = <<k, 1>>
        /\ text[verb] = s[k].method
        /\ cr = verb + L + 7
        /\ \A d \in 0..(L + 6) : text[verb + d] = E[1 + d]
    <3>1. verb \in 1..(cr - 1) /\ k = m[verb][1]
      BY <2>3
    <3>2. LineAt(s, text, m, cr, verb, k)
      BY <2>1, <2>4, <3>1, LineWithVerb
    <3> QED
      BY <3>2 DEF LineAt
  <2>6. cr = verb + L + 7
    BY <2>5
  <2>7. \A d \in 0..(L + 6) : text[verb + d] = E[1 + d]
    BY <2>5
  <2>8. s[k] \in Requests /\ PlainRequest(s[k])
    BY <2>5 DEF Plain
  <2>9. LineFromVerb(s[k], text, cr, line, verb)
    <3>1. verb # 0 /\ cr \in 1..Len(text)
      BY <1>5, <2>1
    <3>2. cr = Find(text, "CR", 1) /\ line = SubSeq(text, 1, cr - 1)
      BY DEF cr, line
    <3>3. verb = IF get # 0 THEN get ELSE Find(line, "HEAD", 1)
      BY DEF verb
    <3> QED
      BY <2>6, <2>7, <2>8, <3>1, <3>2, <3>3 DEF LineFromVerb
  <2>10. /\ u.result = "SUCCESS" /\ u.rest = rest /\ u.method = s[k].method
         /\ u.file = Target(s[k])
    BY <2>8, <2>9, LineOfRequest
  <2>11. cr \in 1..Len(text) /\ verb \in 1..Len(text) /\ verb <= cr
    BY <1>1, <2>1, <2>3
  <2> QED
    BY <2>5, <2>10, <2>11 DEF ReadsLine
<1> QED
  BY <1>3, <1>4, <1>5

------------------------------------------------------------------------------
(* What is known of the parser's members: the requests A have been         *)
(* answered and begin before p, the place of the first token that has not  *)
(* been parsed; a file that is set is that of a later request.             *)
KnownAt(s, A, h, p) ==
  /\ \A a \in A : Before(<<a, 1>>, p)
  /\ h.state = "PARSE_URI" => h.file = <<>>
  /\ h.state \in {"PARSE_HEADERS", "ANALYSIS"} /\ h.file # <<>> =>
       \E k \in 1..Len(s) :
         /\ h.file = Target(s[k]) /\ h.method = s[k].method
         /\ Before(<<k, 1>>, p) /\ \A a \in A : a < k

Known(s, A, h, text, e) == \E m : Marks(s, text, m, e) /\ KnownAt(s, A, h, m[1])

LEMMA FirstPlace ==
  ASSUME NEW s, NEW text, Len(text) \in Nat, NEW m, NEW e, Marks(s, text, m, e)
  PROVE  m[1] \in Place
<1>1. 1 \in 1..(Len(text) + 1)
  OBVIOUS
<1> QED
  BY <1>1 DEF Marks, Place

(* What is known stays known as the parser goes on.                        *)
LEMMA KnownFurther ==
  ASSUME NEW s, Len(s) \in Nat, NEW A \in SUBSET Nat, NEW h, NEW p \in Place, NEW q \in Place,
         KnownAt(s, A, h, p), NotAfter(p, q),
         NEW B \in SUBSET A,
         NEW g, g.file = h.file, g.method = h.method,
         g.state = "PARSE_URI" => h.state = "PARSE_URI",
         g.state \in {"PARSE_HEADERS", "ANALYSIS"} =>
           h.state \in {"PARSE_HEADERS", "ANALYSIS"} \/ h.file = <<>>
  PROVE  KnownAt(s, B, g, q)
<1>1. \A a \in Nat : <<a, 1>> \in Place
  BY DEF Place
<1>2. \A a \in Nat : Before(<<a, 1>>, p) => Before(<<a, 1>>, q)
  BY <1>1, PlacesOrdered DEF NotAfter
<1>3. \A a \in B : Before(<<a, 1>>, q)
  BY <1>2 DEF KnownAt
<1>4. g.state = "PARSE_URI" => g.file = <<>>
  BY DEF KnownAt
<1>5. ASSUME g.state \in {"PARSE_HEADERS", "ANALYSIS"}, g.file # <<>>
      PROVE  \E k \in 1..Len(s) :
               /\ g.file = Target(s[k]) /\ g.method = s[k].method
               /\ Before(<<k, 1>>, q) /\ \A a \in B : a < k
  <2>1. PICK k \in 1..Len(s) :
          /\ h.file = Target(s[k]) /\ h.method = s[k].method
          /\ Before(<<k, 1>>, p) /\ \A a \in A : a < k
    BY <1>5 DEF KnownAt
  <2>2. Before(<<k, 1>>, q)
    <3>1. k \in Nat
      OBVIOUS
    <3> QED
      BY <1>2, <2>1, <3>1
  <2> QED
    BY <2>1, <2>2
<1> QED
  BY <1>3, <1>4, <1>5 DEF KnownAt

LEMMA LineIsKnown ==
  ASSUME NEW s \in Seq(Requests), Plain(s), NEW A \in SUBSET Nat, NEW e,
         NEW h, MemberTypes(h), Known(s, A, h, h.in, e),
         NEW g, g = LineStage(h)
  PROVE  Known(s, A, g, g.in, e)
<1> DEFINE u == ParseURI(h.in, h.method, h.file)
<1>1. PICK m : Marks(s, h.in, m, e) /\ KnownAt(s, A, h, m[1])
  BY DEF Known
<1>2. h.in \in Text /\ Len(h.in) \in Nat /\ Len(s) \in Nat
  BY LenProperties DEF MemberTypes, Text
<1>3. m[1] \in Place
  BY <1>1, <1>2, FirstPlace
<1>4. CASE h.state # "PARSE_URI"
  BY <1>1, <1>4 DEF LineStage, Known
<1>5. CASE h.state = "PARSE_URI"
  <2> HIDE DEF u
  <2>1. h.file = <<>>
    BY <1>1, <1>5 DEF KnownAt
  <2>2. /\ g.in = u.rest /\ g.method = u.method /\ g.file = u.file
        /\ g.state = IF u.result = "ERROR" THEN "PARSE_URI" ELSE "PARSE_HEADERS"
    <3>1. g = AfterLine(h, u)
      BY <1>5 DEF LineStage, u
    <3> QED
      BY <1>5, <3>1 DEF AfterLine, MemberTypes, Fields
  <2>3. CASE ReadsNothing(u, h.in, h.method, h.file)
    <3> USE <2>3 DEF ReadsNothing
    <3>1. PICK q : Marks(s, u.rest, q, e) /\ NotAfter(m[1], q[1])
      BY <1>1, <1>2, <2>3, MarksOfRest
    <3>2. q[1] \in Place
      <4>1. Len(u.rest) \in Nat
        BY <1>2, <2>3, RestIsText, LenProperties DEF Text
      <4> QED
        BY <3>1, <4>1, FirstPlace
    <3>3. /\ g.file = h.file /\ g.method = h.method
          /\ g.state = "PARSE_URI" => h.state = "PARSE_URI"
          /\ g.state \in {"PARSE_HEADERS", "ANALYSIS"} =>
               h.state \in {"PARSE_HEADERS", "ANALYSIS"} \/ h.file = <<>>
      BY <1>5, <2>1, <2>2, <2>3
    <3>4. KnownAt(s, A, g, q[1])
      <4>1. A \in SUBSET A
        OBVIOUS
      <4> QED
        BY <1>1, <1>2, <1>3, <3>1, <3>2, <3>3, <4>1, KnownFurther
    <3> QED
      BY <2>2, <3>1, <3>4 DEF Known
  <2>4. CASE ReadsLine(u, s, h.in, m)
    <3>1. PICK n \in 1..Len(h.in), v \in 1..Len(h.in), k \in 1..Len(s) :
               /\ u.result = "SUCCESS" /\ u.method = s[k].method /\ u.file = Target(s[k])
               /\ u.rest = SubSeq(h.in, n + 1, Len(h.in))
               /\ v <= n /\ m[v] = <<k, 1>>
      BY <2>4 DEF ReadsLine
    <3>2. PICK q : Marks(s, u.rest, q, e) /\ q[1] = m[n + 1]
      <4>1. n \in 0..Len(h.in) /\ h.in \in Seq(Token)
        BY <1>2 DEF Text
      <4> QED
        BY <1>1, <3>1, <4>1, MarksOfEnd
    <3>3. Before(<<k, 1>>, q[1]) /\ q[1] \in Place
      <4>1. n + 1 \in (v + 1)..(Len(h.in) + 1)
        BY <1>2, <3>1
      <4> QED
        BY <1>1, <1>2, <3>1, <3>2, <4>1, MarksGrow
    <3>4. NotAfter(m[1], <<k, 1>>)
      <4>1. CASE v = 1
        BY <3>1, <4>1 DEF NotAfter
      <4>2. CASE v # 1
        <5>1. 1 \in 1..Len(h.in) /\ v \in (1 + 1)..(Len(h.in) + 1)
          BY <1>2, <4>2
        <5>2. Before(m[1], m[v])
          BY <1>1, <1>2, <5>1, MarksGrow
        <5> QED
          BY <3>1, <5>2 DEF NotAfter
      <4> QED
        BY <4>1, <4>2
    <3>5. ASSUME NEW a \in A PROVE a < k /\ Before(<<a, 1>>, q[1])
      <4>1. <<a, 1>> \in Place /\ <<k, 1>> \in Place /\ a \in Nat /\ k \in Nat
        BY DEF Place
      <4>2. Before(<<a, 1>>, m[1])
        BY <1>1 DEF KnownAt
      <4>3. Before(<<a, 1>>, <<k, 1>>)
        BY <1>3, <3>4, <4>1, <4>2, PlacesOrdered DEF NotAfter
      <4>4. a < k
        BY <4>1, <4>3 DEF Before
      <4>5. Before(<<a, 1>>, q[1])
        BY <3>3, <4>1, <4>3, PlacesOrdered
      <4> QED
        BY <4>4, <4>5
    <3>6. KnownAt(s, A, g, q[1])
      <4>1. g.state = "PARSE_HEADERS" /\ g.file = Target(s[k]) /\ g.method = s[k].method
        BY <2>2, <3>1
      <4> QED
        BY <3>3, <3>5, <4>1 DEF KnownAt
    <3> QED
      BY <2>2, <3>2, <3>6 DEF Known
  <2>5. ReadsNothing(u, h.in, h.method, h.file) \/ ReadsLine(u, s, h.in, m)
    BY <1>1, <1>2, LineIsRequest DEF u
  <2> QED
    BY <2>3, <2>4, <2>5
<1> QED
  BY <1>4, <1>5

LEMMA HeadersAreKnown ==
  ASSUME NEW s \in Seq(Requests), NEW A \in SUBSET Nat, NEW e,
         NEW h, MemberTypes(h), Known(s, A, h, h.in, e),
         NEW g, g = HeaderStage(h)
  PROVE  Known(s, A, g, g.in, e)
<1> DEFINE p == ParseHeaders(h.in, h.hState, h.headers)
<1>1. PICK m : Marks(s, h.in, m, e) /\ KnownAt(s, A, h, m[1])
  BY DEF Known
<1>2. h.in \in Text /\ Len(h.in) \in Nat /\ Len(s) \in Nat
  BY LenProperties DEF MemberTypes, Text
<1>3. m[1] \in Place
  BY <1>1, <1>2, FirstPlace
<1>4. CASE h.state # "PARSE_HEADERS"
  BY <1>1, <1>4 DEF HeaderStage, Known
<1>5. CASE h.state = "PARSE_HEADERS"
  <2>1. RestOf(p.rest, h.in) /\ p.result \in {"SUCCESS", "AGAIN", "ERROR"}
    BY ParseHeadersLeaves, HeaderResults DEF MemberTypes
  <2> HIDE DEF p
  <2>2. /\ g.in = p.rest /\ g.method = h.method /\ g.file = h.file
        /\ g.state \in {"PARSE_HEADERS", "ANALYSIS"}
    <3> DEFINE parsed == [h EXCEPT !.in = p.rest, !.hState = p.hState, !.headers = p.headers]
    <3>1. g = AfterHeaders(h, p)
      BY <1>5 DEF HeaderStage, p
    <3>2. /\ DOMAIN parsed = Fields /\ parsed.in = p.rest /\ parsed.method = h.method
          /\ parsed.file = h.file /\ parsed.state = "PARSE_HEADERS"
      BY <1>5 DEF MemberTypes, Fields
    <3>3. g \in {parsed, [parsed EXCEPT !.state = "ANALYSIS"],
                 [parsed EXCEPT !.error = TRUE, !.complaint = "400"]}
      BY <2>1, <3>1 DEF AfterHeaders
    <3> HIDE DEF parsed
    <3> QED
      BY <3>2, <3>3 DEF Fields
  <2>3. PICK q : Marks(s, p.rest, q, e) /\ NotAfter(m[1], q[1])
    BY <1>1, <1>2, <2>1, MarksOfRest
  <2>4. q[1] \in Place
    <3>1. Len(p.rest) \in Nat
      BY <1>2, <2>1, RestIsText, LenProperties DEF Text
    <3> QED
      BY <2>3, <3>1, FirstPlace
  <2>5. KnownAt(s, A, g, q[1])
    <3>1. /\ A \in SUBSET A
          /\ g.state = "PARSE_URI" => h.state = "PARSE_URI"
          /\ h.state \in {"PARSE_HEADERS", "ANALYSIS"}
      BY <1>5, <2>2
    <3> QED
      BY <1>1, <1>2, <1>3, <2>2, <2>3, <2>4, <3>1, KnownFurther
  <2> QED
    BY <2>2, <2>3, <2>5 DEF Known
<1> QED
  BY <1>4, <1>5

(* out' is out and then an answer to the request r.                        *)
AnswersOne(r, out, more) ==
  \E answer \in {<<Header(Target(r))>>, <<Header(Target(r)), Body(Target(r))>>} :
    more = out \o answer /\ \A i \in DOMAIN answer : answer[i] \in ToSet(Reply(r))

(* A stage of the parser goes on, or gives the answer to a request later   *)
(* than those in A.                                                        *)
Answered(s, A, h, g, e) ==
  \/ g.state # "FINISH" /\ Known(s, A, g, g.in, e)
  \/ /\ g.state = "FINISH"
     /\ \E k \in 1..Len(s) :
          /\ AnswersOne(s[k], h.out, g.out)
          /\ \A a \in A : a < k
          /\ Known(s, A \cup {k}, g, g.in, e)

LEMMA ReplyUnits ==
  ASSUME NEW r, r.method \in Verbs, PlainRequest(r),
         NEW out, NEW a, a = AnalysisRequest(r.method, Target(r), out), a.result = "SUCCESS"
  PROVE  AnswersOne(r, out, a.out)
<1> DEFINE t == Target(r)
           head == <<Header(t)>>
           whole == <<Header(t), Body(t)>>
<1>1. /\ DOMAIN head = {1} /\ head[1] = Header(t)
      /\ DOMAIN whole = {1, 2} /\ whole[1] = Header(t) /\ whole[2] = Body(t)
  OBVIOUS
<1>2. Header(t) \in ToSet(head) /\ Header(t) \in ToSet(whole) /\ Body(t) \in ToSet(whole)
  BY <1>1 DEF ToSet
<1>3. ~(r.method = "HEAD" /\ t = <<"favicon.ico">>)
  BY DEF PlainRequest
<1>4. \/ a.out = out \o whole /\ Reply(r) = whole
      \/ a.out = out \o head /\ Reply(r) = head
  <2>1. CASE t = <<"favicon.ico">>
    <3>1. a.out = out \o whole
      BY <2>1 DEF AnalysisRequest, Readable, Unopenable
    <3>2. Reply(r) = whole
      BY <1>3, <2>1 DEF Reply
    <3> QED
      BY <3>1, <3>2
  <2>2. CASE t # <<"favicon.ico">> /\ t \in Readable \cup Unopenable /\ r.method = "HEAD"
    <3>1. a.out = out \o head
      BY <2>2 DEF AnalysisRequest
    <3>2. Reply(r) = head
      BY <2>2 DEF Reply
    <3> QED
      BY <3>1, <3>2
  <2>3. CASE t # <<"favicon.ico">> /\ t \in Readable /\ r.method = "GET"
    <3>1. a.out = out \o whole
      BY <2>3 DEF AnalysisRequest, Readable, Unopenable
    <3>2. Reply(r) = whole
      BY <2>3 DEF Reply
    <3> QED
      BY <3>1, <3>2
  <2>4. \/ t = <<"favicon.ico">>
        \/ t \in Readable \cup Unopenable /\ r.method = "HEAD"
        \/ t \in Readable /\ r.method = "GET"
    BY DEF AnalysisRequest
  <2> QED
    BY <2>1, <2>2, <2>3, <2>4
<1> HIDE DEF t
<1> SUFFICES ASSUME NEW answer \in {head, whole}, a.out = out \o answer, Reply(r) = answer
             PROVE  \A i \in DOMAIN answer : answer[i] \in ToSet(Reply(r))
  <2>1. ASSUME NEW answer \in {head, whole}, a.out = out \o answer, Reply(r) = answer
        PROVE  AnswersOne(r, out, a.out)
    <3>1. \A i \in DOMAIN answer : answer[i] \in ToSet(Reply(r))
      BY <2>1 DEF ToSet
    <3> HIDE DEF head, whole
    <3> QED
      BY <2>1, <3>1 DEF AnswersOne, head, whole, t
  <2> HIDE DEF head, whole
  <2> QED
    BY <1>4, <2>1
<1> QED
  BY DEF ToSet

LEMMA AnalysisAnswers ==
  ASSUME NEW s \in Seq(Requests), Plain(s), NEW A \in SUBSET Nat, NEW e,
         NEW h, MemberTypes(h), h.state # "FINISH", Known(s, A, h, h.in, e),
         NEW g, g = AnalysisStage(h)
  PROVE  Answered(s, A, h, g, e)
<1> DEFINE a == AnalysisRequest(h.method, h.file, h.out)
           analysed == [h EXCEPT !.out = a.out, !.keepAlive = @ \/ AsksKeepAlive(h.headers)]
<1>1. PICK m : Marks(s, h.in, m, e) /\ KnownAt(s, A, h, m[1])
  BY DEF Known
<1>2. Len(h.in) \in Nat /\ Len(s) \in Nat
  BY LenProperties DEF MemberTypes, Text
<1>3. m[1] \in Place
  BY <1>1, <1>2, FirstPlace
<1>4. CASE h.state # "ANALYSIS"
  BY <1>4 DEF AnalysisStage, Answered
<1>5. /\ DOMAIN analysed = Fields /\ analysed.in = h.in /\ analysed.method = h.method
      /\ analysed.file = h.file /\ analysed.state = h.state /\ analysed.out = a.out
  <2> HIDE DEF a
  <2> QED
    BY DEF MemberTypes, Fields
<1>6. CASE h.state = "ANALYSIS" /\ a.result = "SUCCESS"
  <2>1. g = [analysed EXCEPT !.state = "FINISH"]
    BY <1>6 DEF AnalysisStage
  <2>2. h.file # <<>>
    <3>1. h.file \in Files
      BY <1>6 DEF AnalysisRequest, Files
    <3>2. \A f : Len(<<f>>) = 1 /\ Len(<<>>) = 0
      OBVIOUS
    <3>3. \A f : <<f>> # <<>>
      BY <3>2
    <3> QED
      BY <3>1, <3>3, Zenon DEF Files, Readable, Unopenable
  <2>3. PICK k \in 1..Len(s) :
          /\ h.file = Target(s[k]) /\ h.method = s[k].method
          /\ Before(<<k, 1>>, m[1]) /\ \A x \in A : x < k
    BY <1>1, <1>6, <2>2 DEF KnownAt
  <2>4. AnswersOne(s[k], h.out, a.out)
    <3>1. s[k].method \in Verbs /\ PlainRequest(s[k])
      BY <2>3 DEF MemberTypes, Plain
    <3>2. a = AnalysisRequest(s[k].method, Target(s[k]), h.out)
      BY <2>3
    <3> HIDE DEF a
    <3> QED
      BY <1>6, <3>1, <3>2, ReplyUnits
  <2> HIDE DEF a, analysed
  <2>5. g.state = "FINISH" /\ g.in = h.in /\ g.out = a.out
    BY <1>5, <2>1 DEF Fields
  <2>6. KnownAt(s, A \cup {k}, g, m[1])
    <3>1. \A x \in A \cup {k} : Before(<<x, 1>>, m[1])
      BY <1>1, <2>3 DEF KnownAt
    <3> QED
      BY <2>5, <3>1 DEF KnownAt
  <2>7. Known(s, A \cup {k}, g, g.in, e)
    BY <1>1, <2>5, <2>6 DEF Known
  <2> QED
    BY <2>3, <2>4, <2>5, <2>7 DEF Answered
<1>7. CASE h.state = "ANALYSIS" /\ a.result # "SUCCESS"
  <2>1. g = [analysed EXCEPT !.error = TRUE, !.complaint = "404"]
    BY <1>7 DEF AnalysisStage
  <2> HIDE DEF a, analysed
  <2>2. g.state = "ANALYSIS" /\ g.in = h.in /\ g.method = h.method /\ g.file = h.file
    BY <1>5, <1>7, <2>1 DEF Fields
  <2>3. KnownAt(s, A, g, m[1])
    BY <1>1, <1>7, <2>2 DEF KnownAt
  <2> QED
    BY <1>1, <2>2, <2>3 DEF Known, Answered
<1> QED
  BY <1>4, <1>6, <1>7

(* The parser as a whole.                                                  *)
LEMMA ParseAnswers ==
  ASSUME NEW s \in Seq(Requests), Plain(s), NEW A \in SUBSET Nat, NEW e,
         NEW h, MemberTypes(h), HttpShape(h), h.state # "FINISH", Known(s, A, h, h.in, e)
  PROVE  Answered(s, A, h, Parse(h), e)
<1> DEFINE l == LineStage(h)
           n == HeaderStage(l)
<1>1. MemberTypes(l) /\ Known(s, A, l, l.in, e) /\ l.out = h.out /\ HttpShape(l)
  BY LineIsKnown, LineKeepsTypes, LineAdds DEF Adds, Follows
<1>2. l.state # "FINISH"
  BY DEF LineStage, AfterLine, MemberTypes, Fields
<1> HIDE DEF l
<1>3. MemberTypes(n) /\ Known(s, A, n, n.in, e) /\ n.out = l.out
  BY <1>1, HeadersAreKnown, HeadersKeepTypes, HeadersAdd
<1>4. n.state # "FINISH"
  <2>1. ASSUME NEW p, p.result \in {"SUCCESS", "AGAIN", "ERROR"}, l.state = "PARSE_HEADERS"
        PROVE  AfterHeaders(l, p).state # "FINISH"
    <3>1. CASE p.result = "SUCCESS"
      BY <1>1, <2>1, <3>1 DEF AfterHeaders, MemberTypes, Fields
    <3>2. CASE p.result = "AGAIN"
      BY <1>1, <2>1, <3>2 DEF AfterHeaders, MemberTypes, Fields
    <3>3. CASE p.result = "ERROR"
      BY <1>1, <2>1, <3>3 DEF AfterHeaders, MemberTypes, Fields
    <3> QED
      BY <2>1, <3>1, <3>2, <3>3
  <2> QED
    BY <1>2, <2>1, HeaderResults DEF HeaderStage
<1> HIDE DEF n
<1>5. Answered(s, A, n, AnalysisStage(n), e)
  BY <1>3, <1>4, AnalysisAnswers
<1>6. Parse(h) = AnalysisStage(n) /\ n.out = h.out
  BY <1>1, <1>3 DEF Parse, l, n
<1> QED
  BY <1>5, <1>6 DEF Answered

------------------------------------------------------------------------------
(* The history.                                                            *)

(* f tells for each unit of output which request it answers.               *)
Attributes(s, out, f) ==
  /\ f \in [DOMAIN out -> DOMAIN s]
  /\ \A i \in DOMAIN out : out[i] \in ToSet(Reply(s[f[i]]))
  /\ \A i, j \in DOMAIN out : i < j =>
       \/ f[i] < f[j]
       \/ f[i] = f[j] /\ out[i].part = "header" /\ out[j].part = "body"

(* There is a way to attribute more, with k for what f does not tell.      *)
Extensible(s, out, f, more, k) ==
  \E g : /\ Attributes(s, more, g)
         /\ \A i \in DOMAIN more : g[i] = k \/ \E j \in DOMAIN out : g[i] = f[j]

LEMMA AttributeOne ==
  ASSUME NEW s \in Seq(Requests), NEW out \in Units, NEW f, Attributes(s, out, f),
         NEW k \in 1..Len(s), \A i \in DOMAIN out : f[i] < k,
         NEW more, AnswersOne(s[k], out, more)
  PROVE  Extensible(s, out, f, more, k)
<1> DEFINE t == Target(s[k])
           n == Len(out)
           g == [i \in DOMAIN more |-> IF i <= n THEN f[i] ELSE k]
<1>1. PICK answer \in {<<Header(t)>>, <<Header(t), Body(t)>>} :
        more = out \o answer /\ \A i \in DOMAIN answer : answer[i] \in ToSet(Reply(s[k]))
  BY DEF AnswersOne
<1> DEFINE c == Len(answer)
           T == Unit \cup {Header(t), Body(t)}
<1>2. /\ answer \in Seq(T) /\ DOMAIN answer = 1..c /\ c \in 1..2
      /\ answer[1].part = "header" /\ (c = 2 => answer[2].part = "body")
  <2>1. CASE answer = <<Header(t)>>
    BY <2>1 DEF Header
  <2>2. CASE answer = <<Header(t), Body(t)>>
    <3>1. \A S : \A x, y \in S : <<x, y>> \in Seq(S)
      OBVIOUS
    <3>2. answer \in Seq(T)
      BY <2>2, <3>1
    <3> QED
      BY <2>2, <3>2 DEF Header, Body
  <2> QED
    BY <2>1, <2>2
<1>3. n \in Nat /\ DOMAIN out = 1..n /\ out \in Seq(T)
  <2>1. out \in Seq(Unit)
    BY DEF Units
  <2>2. \A i \in 1..Len(out) : out[i] \in T
    BY <2>1, ElementOfSeq
  <2> HIDE DEF T
  <2> QED
    BY <2>1, <2>2, ElementsInSeq, LenProperties
<1> HIDE DEF T, t
<1>4. /\ more \in Seq(T) /\ Len(more) = n + c
      /\ \A i \in 1..(n + c) : more[i] = IF i <= n THEN out[i] ELSE answer[i - n]
  <2>1. answer \in Seq(T)
    BY <1>2
  <2> QED
    BY <1>1, <1>3, <2>1, ConcatProperties
<1>5. DOMAIN more = 1..(n + c) /\ c \in Nat
  BY <1>2, <1>4
<1> HIDE DEF n, c
<1>6. \A i \in 1..(n + c) : g[i] = IF i <= n THEN f[i] ELSE k
  BY <1>5
<1>7. \A i \in 1..n : f[i] \in DOMAIN s
  BY <1>3 DEF Attributes
<1>8. DOMAIN s = 1..Len(s) /\ Len(s) \in Nat
  BY LenProperties
<1>9. g \in [DOMAIN more -> DOMAIN s]
  <2>1. ASSUME NEW i \in DOMAIN more PROVE (IF i <= n THEN f[i] ELSE k) \in DOMAIN s
    <3>1. i <= n => i \in 1..n
      BY <1>3, <1>5
    <3> QED
      BY <1>7, <1>8, <3>1
  <2> QED
    BY <2>1
<1> HIDE DEF g
<1>10. ASSUME NEW i \in 1..(n + c), i <= n
       PROVE  i \in DOMAIN out /\ g[i] = f[i] /\ more[i] = out[i]
  BY <1>3, <1>4, <1>5, <1>6, <1>10
<1>11. ASSUME NEW i \in 1..(n + c), ~(i <= n)
       PROVE  g[i] = k /\ i - n \in DOMAIN answer /\ more[i] = answer[i - n]
  BY <1>2, <1>3, <1>4, <1>5, <1>6, <1>11
<1>12. \A i \in DOMAIN more : more[i] \in ToSet(Reply(s[g[i]]))
  <2> TAKE i \in DOMAIN more
  <2>1. i \in 1..(n + c)
    BY <1>5
  <2>2. CASE i <= n
    BY <1>10, <2>1, <2>2 DEF Attributes
  <2>3. CASE ~(i <= n)
    BY <1>1, <1>11, <2>1, <2>3
  <2> QED
    BY <2>2, <2>3
<1>13. ASSUME NEW i \in DOMAIN more, NEW j \in DOMAIN more, i < j
       PROVE  \/ g[i] < g[j]
              \/ g[i] = g[j] /\ more[i].part = "header" /\ more[j].part = "body"
  <2>1. i \in 1..(n + c) /\ j \in 1..(n + c)
    BY <1>5
  <2>2. CASE j <= n
    <3>1. i <= n
      BY <1>3, <1>13, <2>1, <2>2, <1>5
    <3> QED
      BY <1>10, <1>13, <2>1, <2>2, <3>1 DEF Attributes
  <2>3. CASE i <= n /\ ~(j <= n)
    BY <1>10, <1>11, <2>1, <2>3
  <2>4. CASE ~(i <= n)
    <3>1. ~(j <= n)
      BY <1>3, <1>13, <2>1, <2>4, <1>5
    <3>2. i - n \in 1..c /\ j - n \in 1..c /\ i - n < j - n
      BY <1>2, <1>3, <1>5, <1>11, <1>13, <2>1, <2>4, <3>1
    <3>3. i - n = 1 /\ j - n = 2 /\ c = 2
      BY <1>2, <1>3, <1>5, <2>1, <3>2
    <3> QED
      BY <1>2, <1>11, <2>1, <2>4, <3>1, <3>3
  <2> QED
    BY <2>2, <2>3, <2>4
<1>14. Attributes(s, more, g)
  BY <1>9, <1>12, <1>13 DEF Attributes
<1>15. \A i \in DOMAIN more : g[i] = k \/ \E j \in DOMAIN out : g[i] = f[j]
  BY <1>5, <1>10, <1>11
<1> QED
  BY <1>14, <1>15 DEF Extensible

------------------------------------------------------------------------------
(* The invariant: the requests not sent completely are the last of the     *)
(* peer's; a finished request is made room of at once; and there is a way  *)
(* to attribute all output, and, as long as all is well, to mark what has  *)
(* been sent but not parsed.                                               *)

SentPlace == <<Len(script) - Len(toSend) + 1, cut + 1>>

ScriptInv ==
  /\ script \in Seq(Requests) /\ Plain(script)
  /\ Len(toSend) <= Len(script)
  /\ \A i \in 1..Len(toSend) : toSend[i] = script[Len(script) - Len(toSend) + i]
  /\ toSend = <<>> => cut = 0

FinishInv == http.state = "FINISH" => pc = "flush" \/ http.error

Requested(f) == {f[i] : i \in DOMAIN made}

Pending(f) == Known(script, Requested(f), http, http.in \o inbox, SentPlace)

HistoryInv ==
  \E f : /\ Attributes(script, made, f)
         /\ peer # "reset" /\ ~http.error => Pending(f)

AInv == ScriptInv /\ FinishInv /\ HistoryInv

(* What the steps rely on.                                                 *)
AllInv == OInv /\ MemberInv /\ AInv

LEMMA InitAInv == Init /\ PlainTraffics => AInv
<1> SUFFICES ASSUME Init, PlainTraffics PROVE AInv
  OBVIOUS
<1>1. script \in Seq(Requests) /\ Plain(script) /\ toSend = script /\ cut = 0
  BY ConnectionAssumption DEF Init, Requests, PlainTraffics, Plain
<1>2. Len(script) \in Nat
  BY <1>1, LenProperties
<1>3. ScriptInv
  BY <1>1, <1>2 DEF ScriptInv
<1>4. FinishInv
  BY DEF Init, FinishInv
<1>5. made = <<>> /\ http.in = <<>> /\ inbox = <<>> /\ http.state = "PARSE_URI" /\ http.file = <<>>
  BY DEF Init
<1> DEFINE f == [i \in {} |-> i]
           m == [i \in 1..1 |-> SentPlace]
<1>6. Attributes(script, made, f)
  <2>1. DOMAIN made = {}
    BY <1>5
  <2> QED
    BY <2>1 DEF Attributes
<1>7. Requested(f) = {}
  <2>1. DOMAIN made = {}
    BY <1>5
  <2> QED
    BY <2>1 DEF Requested
<1>8. http.in \o inbox = <<>> /\ Len(<<>>) = 0
  BY <1>5
<1>9. Marks(script, <<>>, m, SentPlace) /\ KnownAt(script, {}, http, m[1])
  <2>1. SentPlace \in Nat \X Nat
    BY <1>1, <1>2 DEF SentPlace
  <2> HIDE DEF SentPlace
  <2>2. Marks(script, <<>>, m, SentPlace)
    BY <2>1 DEF Marks
  <2> QED
    BY <1>5, <2>2 DEF KnownAt
<1>10. Pending(f)
  BY <1>7, <1>8, <1>9 DEF Pending, Known
<1> QED
  BY <1>3, <1>4, <1>6, <1>10 DEF AInv, HistoryInv

(* The peer sends the next part of a request.                              *)
LEMMA SendAInv == ASSUME AllInv, Send PROVE AInv'
<1> DEFINE request == Encode(Head(toSend))
           k == Len(script) - Len(toSend) + 1
<1>1. /\ toSend \in Seq(Requests) /\ toSend # <<>> /\ cut \in Nat
      /\ script \in Seq(Requests) /\ Plain(script) /\ inbox \in Text /\ http.in \in Text
  BY DEF AllInv, MemberInv, MemberTypes, TrafficInv, AInv, ScriptInv, Send
<1>2. UNCHANGED <<script, http, pc, made, peer>>
  BY DEF Send
<1>3. /\ Len(toSend) \in Nat \ {0} /\ Len(script) \in Nat /\ Len(toSend) <= Len(script)
      /\ \A i \in 1..Len(toSend) : toSend[i] = script[Len(script) - Len(toSend) + i]
  BY <1>1, LenProperties, EmptySeq DEF AllInv, AInv, ScriptInv
<1>4. k \in 1..Len(script) /\ Head(toSend) = script[k]
  <2>1. 1 \in 1..Len(toSend) /\ Head(toSend) = toSend[1]
    BY <1>1, <1>3, HeadTailProperties
  <2> QED
    BY <1>3, <2>1
<1>5. /\ Head(toSend) \in Requests /\ Tail(toSend) \in Seq(Requests)
      /\ Len(Tail(toSend)) = Len(toSend) - 1
      /\ \A i \in 1..Len(Tail(toSend)) : Tail(toSend)[i] = toSend[i + 1]
  BY <1>1, HeadTailProperties
<1>6. request \in Text /\ Len(request) \in Nat
  BY <1>5, RequestIsText
<1>7. PICK n \in SegmentLengths :
        /\ inbox' = inbox \o SubSeq(request, cut + 1, cut + n)
        /\ IF cut + n = Len(request) THEN toSend' = Tail(toSend) /\ cut' = 0
           ELSE toSend' = toSend /\ cut' = cut + n
  BY DEF Send
<1>8. cut < Len(request)
  BY <1>1 DEF AllInv, MemberInv, TrafficInv
<1> HIDE DEF request
<1>9. n \in Nat \ {0} /\ cut + n <= Len(request)
  BY <1>1, <1>6, <1>7, <1>8 DEF SegmentLengths, request
<1>10. SentPlace = <<k, cut + 1>>
  BY DEF SentPlace
<1> HIDE DEF k
<1>11. SentPlace' = IF cut + n = Len(request) THEN <<k + 1, 1>> ELSE <<k, cut + n + 1>>
  <2>1. CASE cut + n = Len(request)
    BY <1>2, <1>3, <1>5, <1>7, <2>1 DEF SentPlace, k
  <2>2. CASE cut + n # Len(request)
    BY <1>2, <1>7, <2>2 DEF SentPlace, k
  <2> QED
    BY <2>1, <2>2
<1>12. ScriptInv'
  <2>1. CASE cut + n = Len(request)
    <3>1. toSend' = Tail(toSend) /\ cut' = 0
      BY <1>7, <2>1
    <3>2. Len(toSend') = Len(toSend) - 1
      BY <1>5, <3>1
    <3>3. ASSUME NEW i \in 1..Len(toSend')
          PROVE  toSend'[i] = script[Len(script) - Len(toSend') + i]
      <4>1. /\ i + 1 \in 1..Len(toSend)
            /\ Len(script) - Len(toSend) + (i + 1) = Len(script) - Len(toSend') + i
        <5> DEFINE a == Len(toSend)
                   b == Len(toSend')
                   c == Len(script)
        <5>1. a \in Nat /\ c \in Nat /\ b = a - 1 /\ i \in 1..b
          BY <1>3, <3>2
        <5> HIDE DEF a, b, c
        <5>2. i + 1 \in 1..a /\ c - a + (i + 1) = c - b + i
          BY <5>1
        <5> QED
          BY <5>2 DEF a, b, c
      <4>2. toSend'[i] = toSend[i + 1]
        BY <1>5, <3>1
      <4> QED
        BY <1>3, <4>1, <4>2
    <3>4. Len(toSend') <= Len(script)
      BY <1>3, <3>2
    <3> QED
      BY <1>1, <1>2, <3>1, <3>3, <3>4 DEF ScriptInv
  <2>2. CASE cut + n # Len(request)
    <3>1. toSend' = toSend
      BY <1>7, <2>2
    <3> QED
      BY <1>1, <1>2, <1>3, <3>1 DEF ScriptInv
  <2> QED
    BY <2>1, <2>2
<1>13. FinishInv'
  BY <1>2 DEF AllInv, AInv, FinishInv
<1>14. PICK f : /\ Attributes(script, made, f)
                /\ peer # "reset" /\ ~http.error => Pending(f)
  BY DEF AllInv, AInv, HistoryInv
<1>15. Attributes(script, made, f)'
  BY <1>2, <1>14 DEF Attributes
<1>16. ASSUME peer' # "reset" /\ ~http'.error PROVE Pending(f)'
  <2> DEFINE text == http.in \o inbox
             part == SubSeq(request, cut + 1, cut + n)
             A == Requested(f)
  <2>1. PICK m : Marks(script, text, m, SentPlace) /\ KnownAt(script, A, http, m[1])
    BY <1>2, <1>14, <1>16 DEF Pending, Known
  <2>2. text \in Text /\ text \in Seq(Token) /\ part \in Text
    <3>1. text \in Text
      BY <1>1, ConcatProperties DEF Text
    <3>2. part \in Text
      BY <1>1, <1>6, <1>9, PartOfText
    <3> QED
      BY <3>1, <3>2 DEF Text
  <2>3. (http.in \o inbox)' = text \o part
    <3>1. http.in \in Seq(Token) /\ inbox \in Seq(Token) /\ part \in Seq(Token)
      BY <1>1, <2>2 DEF Text
    <3> DEFINE x == http.in
               y == inbox
    <3> HIDE DEF part, x, y
    <3>2. x \o (y \o part) = (x \o y) \o part
      <4>1. x \in Seq(Token) /\ y \in Seq(Token) /\ part \in Seq(Token)
        BY <3>1 DEF x, y
      <4> QED
        BY <4>1, ConcatAssociative
    <3>3. http.in' = x /\ inbox' = y \o part /\ text = x \o y
      BY <1>2, <1>7 DEF part, x, y
    <3> QED
      BY <3>2, <3>3
  <2> HIDE DEF text, part
  <2>4. \E q : Marks(script, text \o part, q, SentPlace') /\ q[1] = m[1]
    <3>1. request \in Seq(Token) /\ request = Encode(script[k])
      BY <1>4, <1>6 DEF Text, request
    <3>2. Marks(script, text, m, <<k, cut + 1>>)
      BY <1>10, <2>1
    <3>3. PICK e : e = SentPlace'
      OBVIOUS
    <3>4. e = IF cut + n = Len(request) THEN <<k + 1, 1>> ELSE <<k, cut + n + 1>>
      BY <1>11, <3>3
    <3>5. MarkedFrom(script, text \o SubSeq(request, cut + 1, cut + n), e, m[1])
      <4> HIDE DEF text
      <4> QED
        BY <1>1, <1>3, <1>4, <1>9, <2>2, <3>1, <3>2, <3>4, MarksContinue
    <3> QED
      BY <3>3, <3>5 DEF part, MarkedFrom
  <2>5. Requested(f)' = A
    BY <1>2 DEF Requested
  <2> HIDE DEF A
  <2>6. Known(script, A, http, text \o part, SentPlace')
    BY <2>1, <2>4 DEF Known
  <2> QED
    BY <1>2, <2>3, <2>5, <2>6 DEF Pending
<1>17. HistoryInv'
  BY <1>15, <1>16 DEF HistoryInv
<1> QED
  BY <1>12, <1>13, <1>17 DEF AInv

LEMMA KnownOfFewer ==
  ASSUME NEW s \in Seq(Requests), NEW A \in SUBSET Nat, NEW B \in SUBSET A, NEW h,
         NEW text \in Text, NEW e, Known(s, A, h, text, e)
  PROVE  Known(s, B, h, text, e)
<1>1. PICK m : Marks(s, text, m, e) /\ KnownAt(s, A, h, m[1])
  BY DEF Known
<1>2. Len(text) \in Nat /\ Len(s) \in Nat
  BY LenProperties DEF Text
<1>3. m[1] \in Place /\ NotAfter(m[1], m[1])
  BY <1>1, <1>2, FirstPlace DEF NotAfter
<1>4. KnownAt(s, B, h, m[1])
  BY <1>1, <1>2, <1>3, KnownFurther
<1> QED
  BY <1>1, <1>4 DEF Known

LEMMA ReadnAnswers ==
  ASSUME NEW s \in Seq(Requests), Plain(s), NEW A \in SUBSET Nat, NEW e,
         NEW h, MemberTypes(h), HttpShape(h), h.state # "FINISH",
         NEW data \in Text, Known(s, A, h, h.in \o data, e),
         NEW zero \in BOOLEAN,
         NEW r, r = AfterReadn(h, data, zero, FALSE)
  PROVE  Answered(s, A, h, r, e)
<1> DEFINE filled == [h EXCEPT !.in = @ \o data,
                               !.connectionState = IF zero THEN "DISCONNECTING" ELSE @]
           emptied == [h EXCEPT !.in = <<>>]
           text == h.in \o data
<1>1. text \in Text /\ <<>> \in Text /\ h.in \in Text
  BY EmptySeq, ConcatProperties DEF MemberTypes, Text
<1>2. Len(text) \in Nat /\ Len(s) \in Nat
  BY <1>1, LenProperties DEF Text
<1>3. PICK m : Marks(s, text, m, e) /\ KnownAt(s, A, h, m[1])
  BY DEF Known
<1> HIDE DEF text
<1>4. m[1] \in Place
  BY <1>2, <1>3, FirstPlace
<1>5. /\ filled.in = text /\ filled.state = h.state /\ filled.file = h.file
      /\ filled.method = h.method /\ filled.out = h.out
  BY DEF MemberTypes, Fields, text
<1>6. MemberTypes(filled) /\ HttpShape(filled)
  <2>1. MemberTypes(filled)
    <3> HIDE DEF Text, Verbs, HStates, Headers
    <3> QED
      BY <1>1 DEF MemberTypes, Fields, text
  <2>2. HttpShape(filled)
    BY DEF HttpShape, Fields
  <2> QED
    BY <2>1, <2>2
<1> HIDE DEF filled
<1>7. Known(s, A, filled, filled.in, e)
  <2>1. KnownAt(s, A, filled, m[1])
    BY <1>3, <1>5 DEF KnownAt
  <2> QED
    BY <1>3, <1>5, <2>1 DEF Known
<1>8. Answered(s, A, h, filled, e)
  BY <1>5, <1>7 DEF Answered
<1>9. Answered(s, A, h, Parse(filled), e)
  <2>1. Answered(s, A, filled, Parse(filled), e)
    BY <1>5, <1>6, <1>7, ParseAnswers
  <2> QED
    BY <1>5, <2>1 DEF Answered
<1>10. Answered(s, A, h, emptied, e)
  <2>1. /\ emptied.in = <<>> /\ emptied.state = h.state /\ emptied.file = h.file
        /\ emptied.method = h.method
    BY DEF MemberTypes, Fields
  <2> HIDE DEF emptied
  <2> DEFINE n == Len(text)
             q == [i \in 1..1 |-> e]
  <2>2. e \in Place /\ m[n + 1] = e
    <3>1. n + 1 \in 1..(Len(text) + 1)
      BY <1>2
    <3> QED
      BY <1>3, <3>1 DEF Marks, Place
  <2>3. NotAfter(m[1], e)
    <3>1. CASE n = 0
      BY <2>2, <3>1 DEF NotAfter
    <3>2. CASE n # 0
      <4>1. 1 \in 1..Len(text) /\ n + 1 \in (1 + 1)..(Len(text) + 1)
        BY <1>2, <3>2
      <4>2. Before(m[1], m[n + 1])
        BY <1>2, <1>3, <4>1, MarksGrow
      <4> QED
        BY <2>2, <4>2 DEF NotAfter
    <3> QED
      BY <3>1, <3>2
  <2>4. KnownAt(s, A, emptied, e)
    <3>1. A \in SUBSET A
      OBVIOUS
    <3> QED
      BY <1>2, <1>3, <1>4, <2>1, <2>2, <2>3, <3>1, KnownFurther
  <2>5. Marks(s, <<>>, q, e) /\ q[1] = e
    <3>1. Len(<<>>) = 0
      OBVIOUS
    <3> QED
      BY <2>2, <3>1 DEF Marks, Place
  <2>6. Known(s, A, emptied, <<>>, e)
    <3> HIDE DEF q
    <3> QED
      BY <2>4, <2>5 DEF Known
  <2> QED
    BY <2>1, <2>6 DEF Answered
<1>11. r \in {filled, Parse(filled), emptied}
  BY DEF AfterReadn, filled
<1> HIDE DEF emptied
<1> QED
  BY <1>8, <1>9, <1>10, <1>11

(* handleRead.                                                             *)
LEMMA ReadAInv == ASSUME AllInv, Read PROVE AInv'
<1> DEFINE zero == peer = "finished"
           failed == peer = "reset"
           e == SentPlace
<1>1. PICK h : /\ h = AfterReadn(http, inbox, zero, failed)
               /\ http' = h
               /\ made' = IF h.state = "FINISH"
                          THEN made \o SubSeq(h.out, Len(http.out) + 1, Len(h.out)) ELSE made
  BY DEF Read
<1>2. pc = "read" /\ pc' = "flush" /\ inbox' = <<>> /\ UNCHANGED <<script, toSend, cut, peer>>
  BY DEF Read, peerVars
<1>3. /\ http.state # "FINISH" /\ ~http.error
      /\ script \in Seq(Requests) /\ Plain(script) /\ Len(script) \in Nat
      /\ MemberTypes(http) /\ HttpShape(http) /\ inbox \in Text /\ made \in Units
      /\ http.out \in Units
  <2>1. ~http.error
    BY <1>2 DEF AllInv, OInv, OutputInv
  <2> QED
    BY <1>2, <2>1, LenProperties, DeliveredUnits
    DEF AllInv, AInv, FinishInv, ScriptInv, MemberInv, TrafficInv, OInv, OutputInv, ShapeInv
<1>4. ScriptInv' /\ FinishInv'
  <2>1. ScriptInv'
    BY <1>2 DEF AllInv, AInv, ScriptInv
  <2> QED
    BY <1>2, <2>1 DEF FinishInv
<1>5. PICK f : /\ Attributes(script, made, f)
               /\ peer # "reset" /\ ~http.error => Pending(f)
  BY DEF AllInv, AInv, HistoryInv
<1> DEFINE A == Requested(f)
<1>6. A \in SUBSET Nat /\ \A i \in DOMAIN made : f[i] \in A
  <2>1. \A i \in DOMAIN made : f[i] \in DOMAIN script
    BY <1>5 DEF Attributes
  <2>2. DOMAIN script \subseteq Nat
    BY <1>3
  <2> QED
    BY <2>1, <2>2 DEF Requested
<1>7. zero \in BOOLEAN /\ (~failed => failed = FALSE)
  OBVIOUS
<1>8. CASE failed
  <2>1. h.state = http.state
    <3>1. \/ h = [http EXCEPT !.in = <<>>]
          \/ h = [http EXCEPT !.error = TRUE, !.complaint = "400"]
      BY <1>1, <1>8 DEF AfterReadn
    <3> QED
      BY <1>3, <3>1 DEF MemberTypes, Fields
  <2>2. made' = made
    BY <1>1, <1>3, <2>1
  <2>3. HistoryInv'
    BY <1>2, <1>5, <1>8, <2>2 DEF HistoryInv, Attributes
  <2> QED
    BY <1>4, <2>3 DEF AInv
<1>9. CASE ~failed
  <2>1. Known(script, A, http, http.in \o inbox, e)
    BY <1>3, <1>5, <1>9 DEF Pending
  <2>2. h = AfterReadn(http, inbox, zero, FALSE)
    BY <1>1, <1>9
  <2>3. SentPlace' = e
    BY <1>2 DEF SentPlace
  <2> HIDE DEF zero, failed, e, A
  <2>4. Answered(script, A, http, h, e)
    BY <1>3, <1>6, <1>7, <2>1, <2>2, ReadnAnswers
  <2>5. h.in \in Text /\ h.out \in Units
    <3>1. MemberTypes(h)
      BY <1>3, <2>2, ReadnKeepsTypes
    <3>2. HttpShape(http')
      BY ReadEffect DEF AllInv, OInv
    <3> QED
      BY <1>1, <3>1, <3>2 DEF MemberTypes, HttpShape, Units
  <2>6. (http.in \o inbox)' = h.in
    <3> DEFINE x == h.in
    <3>1. x \in Seq(Token)
      BY <2>5 DEF Text
    <3> HIDE DEF x
    <3>2. x \o <<>> = x
      BY <3>1, ConcatEmptySeq
    <3> QED
      BY <1>1, <1>2, <3>2 DEF x
  <2>7. CASE h.state # "FINISH"
    <3>1. Known(script, A, h, h.in, e)
      BY <2>4, <2>7 DEF Answered
    <3>2. made' = made
      BY <1>1, <2>7
    <3>3. Requested(f)' = A
      BY <3>2 DEF Requested, A
    <3>4. Pending(f)'
      BY <1>1, <1>2, <2>3, <2>6, <3>1, <3>3 DEF Pending
    <3>5. Attributes(script, made, f)'
      BY <1>2, <1>5, <3>2 DEF Attributes
    <3> QED
      BY <1>4, <3>4, <3>5 DEF AInv, HistoryInv
  <2>8. CASE h.state = "FINISH"
    <3>1. PICK k \in 1..Len(script) :
            /\ AnswersOne(script[k], http.out, h.out)
            /\ \A a \in A : a < k
            /\ Known(script, A \cup {k}, h, h.in, e)
      BY <2>4, <2>8 DEF Answered
    <3>2. AnswersOne(script[k], made, made')
      <4> DEFINE t == Target(script[k])
                 T == Unit \cup {Header(t), Body(t)}
      <4>1. PICK answer \in {<<Header(t)>>, <<Header(t), Body(t)>>} :
              /\ h.out = http.out \o answer
              /\ \A i \in DOMAIN answer : answer[i] \in ToSet(Reply(script[k]))
        BY <3>1 DEF AnswersOne
      <4>2. answer \in Seq(T)
        <5>1. \A S : \A x, y \in S : <<x>> \in Seq(S) /\ <<x, y>> \in Seq(S)
          OBVIOUS
        <5> QED
          BY <5>1
      <4>3. http.out \in Seq(T)
        <5>1. http.out \in Seq(Unit)
          BY <1>3 DEF Units
        <5>2. \A i \in 1..Len(http.out) : http.out[i] \in T
          BY <5>1, ElementOfSeq
        <5> HIDE DEF T
        <5> QED
          BY <5>1, <5>2, ElementsInSeq
      <4> HIDE DEF T
      <4>4. SubSeq(h.out, Len(http.out) + 1, Len(h.out)) = answer
        <5> DEFINE o == http.out
        <5>1. o \in Seq(T) /\ h.out = o \o answer
          BY <4>1, <4>3
        <5> HIDE DEF o
        <5>2. SubSeq(o \o answer, Len(o) + 1, Len(o \o answer)) = answer
          BY <4>2, <5>1, SuffixOfConcat
        <5> QED
          BY <5>1, <5>2 DEF o
      <4>5. made' = made \o answer
        BY <1>1, <2>8, <4>4
      <4> QED
        BY <4>1, <4>5 DEF AnswersOne
    <3>3. \A i \in DOMAIN made : f[i] < k
      BY <1>6, <3>1
    <3>4. PICK g : /\ Attributes(script, made', g)
                   /\ \A i \in DOMAIN made' : g[i] = k \/ \E j \in DOMAIN made : g[i] = f[j]
      <4>1. Extensible(script, made, f, made', k)
        BY <1>3, <1>5, <3>2, <3>3, AttributeOne
      <4> QED
        BY <4>1 DEF Extensible
    <3>5. Requested(g)' \in SUBSET (A \cup {k}) /\ A \cup {k} \in SUBSET Nat
      <4>1. Requested(g)' = {g[i] : i \in DOMAIN made'}
        BY DEF Requested
      <4>2. k \in Nat
        BY <1>3
      <4> QED
        BY <1>6, <3>4, <4>1, <4>2
    <3> DEFINE B == Requested(g)'
    <3> HIDE DEF B
    <3>6. Known(script, B, h, h.in, e)
      <4>1. B \in SUBSET (A \cup {k})
        BY <3>5 DEF B
      <4> QED
        BY <1>3, <2>5, <3>1, <3>5, <4>1, KnownOfFewer
    <3>7. Pending(g)'
      BY <1>1, <1>2, <2>3, <2>6, <3>6 DEF Pending, B
    <3>8. Attributes(script, made, g)'
      BY <1>2, <3>4 DEF Attributes
    <3> QED
      BY <1>4, <3>7, <3>8 DEF AInv, HistoryInv
  <2> QED
    BY <2>7, <2>8
<1> QED
  BY <1>8, <1>9

(* handleWrite, with or without reset() behind it.                         *)
LEMMA WriteAInv == ASSUME AllInv, Flush \/ Write PROVE AInv'
<1> DEFINE w == HandleWrite(http)
<1>1. UNCHANGED <<script, toSend, cut, peer, inbox, made>>
  BY DEF Flush, Write, peerVars
<1>2. MemberTypes(http) /\ script \in Seq(Requests)
  BY DEF AllInv, MemberInv, AInv, ScriptInv
<1>3. /\ DOMAIN w = Fields /\ w.in = http.in /\ w.state = http.state /\ w.file = http.file
      /\ w.method = http.method /\ (http.error => w.error)
  <2>1. WriteFails(http) \in BOOLEAN /\ http.error \in BOOLEAN
    BY DEF WriteFails, AllInv, OInv, ShapeInv, HttpShape
  <2> QED
    BY <1>2, <2>1 DEF HandleWrite, MemberTypes, Fields
<1>4. \/ http' = w /\ (Flush => w.error \/ w.state # "FINISH")
      \/ http' = ResetRequest(w)
  BY DEF Flush, Write
<1> HIDE DEF w
<1>5. http'.in = http.in /\ (http.error => http'.error)
  <2>1. ResetRequest(w).in = w.in /\ ResetRequest(w).error = w.error
    BY <1>3 DEF ResetRequest, Fields
  <2> QED
    BY <1>3, <1>4, <2>1
<1>6. ScriptInv'
  BY <1>1 DEF AllInv, AInv, ScriptInv
<1>7. FinishInv'
  <2>1. ResetRequest(w).state = "PARSE_URI"
    BY <1>3 DEF ResetRequest, Fields
  <2>2. CASE Write
    <3>1. pc = "write"
      BY <2>2 DEF Write
    <3>2. http.state = "FINISH" => http.error
      BY <3>1 DEF AllInv, AInv, FinishInv
    <3> QED
      BY <1>3, <1>4, <2>1, <3>2 DEF FinishInv
  <2>3. CASE Flush
    BY <1>3, <1>4, <2>1, <2>3 DEF FinishInv
  <2> QED
    BY <2>2, <2>3
<1>8. PICK f : /\ Attributes(script, made, f)
               /\ peer # "reset" /\ ~http.error => Pending(f)
  BY DEF AllInv, AInv, HistoryInv
<1>9. Attributes(script, made, f)'
  BY <1>1, <1>8 DEF Attributes
<1>10. ASSUME peer' # "reset" /\ ~http'.error PROVE Pending(f)'
  <2> DEFINE A == Requested(f)
             text == http.in \o inbox
  <2>1. PICK m : Marks(script, text, m, SentPlace) /\ KnownAt(script, A, http, m[1])
    BY <1>1, <1>5, <1>8, <1>10 DEF Pending, Known
  <2>2. KnownAt(script, A, http', m[1])
    <3>1. CASE http' = w
      BY <1>3, <2>1, <3>1 DEF KnownAt
    <3>2. CASE http' = ResetRequest(w)
      <4>1. http'.state = "PARSE_URI" /\ http'.file = <<>>
        BY <1>3, <3>2 DEF ResetRequest, Fields
      <4> QED
        BY <2>1, <4>1 DEF KnownAt
    <3> QED
      BY <1>4, <3>1, <3>2
  <2>3. Requested(f)' = A /\ (http.in \o inbox)' = text /\ SentPlace' = SentPlace
    BY <1>1, <1>5 DEF Requested, SentPlace
  <2>4. Known(script, A, http', text, SentPlace)
    BY <2>1, <2>2 DEF Known
  <2> QED
    BY <1>1, <2>3, <2>4 DEF Pending
<1> QED
  BY <1>6, <1>7, <1>9, <1>10 DEF AInv, HistoryInv

LEMMA AStep == AllInv /\ [Next]_vars => AInv'
<1> SUFFICES ASSUME AllInv, [Next]_vars PROVE AInv'
  OBVIOUS
<1>1. AInv
  BY DEF AllInv
<1>2. CASE Send
  BY <1>2, SendAInv
<1>3. CASE Read
  BY <1>3, ReadAInv
<1>4. CASE Flush \/ Write
  BY <1>4, WriteAInv
<1>5. CASE Reset
  <2>1. UNCHANGED <<script, toSend, cut, http, pc, made>> /\ peer' = "reset"
    BY <1>5 DEF Reset
  <2>2. ScriptInv' /\ FinishInv'
    BY <1>1, <2>1 DEF AInv, ScriptInv, FinishInv
  <2>3. HistoryInv'
    BY <1>1, <2>1 DEF AInv, HistoryInv, Attributes
  <2> QED
    BY <2>2, <2>3 DEF AInv
<1>6. CASE Close
  <2>1. /\ UNCHANGED <<script, toSend, cut, inbox, peer, made>> /\ pc = "conn"
        /\ http' = [http EXCEPT !.connectionState = "DISCONNECTED"]
    BY <1>6 DEF Close, peerVars
  <2>2. /\ http'.state = http.state /\ http'.error = http.error /\ http'.in = http.in
        /\ http'.file = http.file /\ http'.method = http.method
    BY <2>1 DEF AllInv, MemberInv, MemberTypes, Fields
  <2>3. ScriptInv' /\ FinishInv'
    BY <1>1, <2>1, <2>2 DEF AInv, ScriptInv, FinishInv
  <2>4. PICK f : /\ Attributes(script, made, f)
                 /\ peer # "reset" /\ ~http.error => Pending(f)
    BY <1>1 DEF AInv, HistoryInv
  <2>5. Attributes(script, made, f)'
    BY <2>1, <2>4 DEF Attributes
  <2>6. ASSUME peer' # "reset" /\ ~http'.error PROVE Pending(f)'
    <3>1. Known(script, Requested(f), http, http.in \o inbox, SentPlace)
      BY <2>1, <2>2, <2>4, <2>6 DEF Pending
    <3>2. Known(script, Requested(f), http', http.in \o inbox, SentPlace)
      BY <2>2, <3>1 DEF Known, KnownAt
    <3>3. /\ Requested(f)' = Requested(f) /\ SentPlace' = SentPlace
          /\ (http.in \o inbox)' = http.in \o inbox
      BY <2>1, <2>2 DEF Requested, SentPlace
    <3> QED
      BY <2>1, <3>2, <3>3 DEF Pending
  <2>7. HistoryInv'
    BY <2>5, <2>6 DEF HistoryInv
  <2> QED
    BY <2>3, <2>7 DEF AInv
<1>7. CASE Poll \/ GoOn \/ AwaitOutput \/ Finish \/ Receive \/ UNCHANGED vars
  <2>1. UNCHANGED <<script, toSend, cut, inbox, http, made>>
    BY <1>7 DEF Poll, GoOn, AwaitOutput, Finish, Receive, vars, peerVars
  <2>2. pc # "flush" \/ pc' = pc
    BY <1>7 DEF Poll, GoOn, AwaitOutput, Finish, Receive, vars
  <2>3. peer' # "reset" => peer # "reset"
    BY <1>7 DEF Poll, GoOn, AwaitOutput, Finish, Receive, vars, peerVars
  <2>4. ScriptInv' /\ FinishInv'
    BY <1>1, <2>1, <2>2 DEF AInv, ScriptInv, FinishInv
  <2>5. PICK f : /\ Attributes(script, made, f)
                 /\ peer # "reset" /\ ~http.error => Pending(f)
    BY <1>1 DEF AInv, HistoryInv
  <2>6. Attributes(script, made, f)'
    BY <2>1, <2>5 DEF Attributes
  <2>7. Pending(f)' = Pending(f)
    BY <2>1 DEF Pending, Requested, SentPlace, Known
  <2>8. HistoryInv'
    BY <2>1, <2>3, <2>5, <2>6, <2>7 DEF HistoryInv
  <2> QED
    BY <2>4, <2>8 DEF AInv
<1> QED
  BY <1>2, <1>3, <1>4, <1>5, <1>6, <1>7 DEF Next, ServerStep

(* Each unit of output belongs to the reply to some request, replies are   *)
(* given in the order of the requests, none twice, header before body: for *)
(* every peer that sends plain requests, however it cuts them, whatever    *)
(* the socket takes, and whether or not it leaves (handleRead, parseURI,   *)
(* parseHeaders, analysisRequest, reset).                                  *)
THEOREM AnswersBelongToRequests == PlainTraffics => (Spec => []AnswersInOrder)
<1>1. Init => CInv /\ OutputInv /\ MemberInv
  BY InitCInv, InitOInv, InitMemberInv DEF OInv
<1>2. Init /\ PlainTraffics => AInv
  BY InitAInv
<1>3. ASSUME CInv, OutputInv, MemberInv, AInv, [Next]_vars
      PROVE  (CInv /\ OutputInv /\ MemberInv /\ AInv)'
  <2>1. CInv' /\ OutputInv'
    BY <1>3, ShapeStep, MaskStep, IdleStep, BusyStep, OutputStep DEF CInv, OInv
  <2>2. MemberInv'
    BY <1>3, MemberStep
  <2>3. AInv'
    BY <1>3, AStep DEF AllInv, OInv, CInv
  <2> QED
    BY <2>1, <2>2, <2>3
<1>4. AInv => AnswersInOrder
  BY DEF AInv, HistoryInv, Attributes, AnswersInOrder
<1> SUFFICES ASSUME PlainTraffics PROVE Spec => []AnswersInOrder
  OBVIOUS
<1>5. Init => CInv /\ OutputInv /\ MemberInv /\ AInv
  BY <1>1, <1>2
<1> QED
  BY <1>3, <1>4, <1>5, PTL DEF Spec

------------------------------------------------------------------------------
(* Each request read is answered.                                          *)

(* A whole request: parseURI takes its line and leaves the header.         *)
TakesLine(u, r) ==
  /\ u.result = "SUCCESS" /\ u.method = r.method /\ u.file = Target(r)
  /\ u.rest = SubSeq(Encode(r), Len(r.file) + 9, Len(r.file) + 17)

LEMMA WholeLine ==
  ASSUME NEW r \in Requests, PlainRequest(r), r.method \in Verbs, NEW method, NEW file
  PROVE  TakesLine(ParseURI(Encode(r), method, file), r)
<1> DEFINE E == Encode(r)
           L == Len(r.file)
           n == L + 8
           line == SubSeq(E, 1, n - 1)
           get == Find(line, "GET", 1)
           head == Find(line, "HEAD", 1)
           verb == IF get # 0 THEN get ELSE head
<1>1. LineOf(E, r.method, r.file) /\ L \in Nat /\ E \in Text
  BY EncodedLine, RequestIsText
<1>2. /\ Len(E) = L + 17 /\ E[1] = r.method /\ E[n] = "CR"
  BY <1>1 DEF LineOf
<1>3. ASSUME NEW i \in 1..(n - 1) PROVE E[i] # "CR" /\ (E[i] \in Verbs => i = 1)
  <2>1. i \in 1..Len(E)
    BY <1>1, <1>2
  <2>2. E[i] \in Verbs => i = 1
    BY <2>1, VerbComesFirst
  <2>3. \A j \in 1..L : r.file[j] # "CR"
    <3>1. DOMAIN r.file = 1..L
      BY DEF Requests
    <3> QED
      BY <3>1 DEF PlainRequest
  <2>4. CASE i \in 4..(L + 3)
    <3> DEFINE j == i - 3
    <3>1. j \in 1..L /\ 3 + j = i
      BY <1>1, <2>4
    <3> HIDE DEF j, L, E
    <3>2. E[3 + j] = r.file[j]
      BY <1>1, <3>1 DEF LineOf, L
    <3> QED
      BY <2>2, <2>3, <3>1, <3>2
  <2>5. CASE i \in {2, 3, L + 4, L + 5, L + 6, L + 7}
    <3>1. E[i] \in {" ", "/", "HTTP", "1.1"}
      <4> HIDE DEF L, E
      <4> QED
        BY <1>1, <2>5 DEF LineOf, L
    <3> QED
      BY <2>2, <3>1
  <2>6. CASE i = 1
    BY <1>2, <2>6 DEF Verbs
  <2>7. i \in 4..(L + 3) \/ i \in {2, 3, L + 4, L + 5, L + 6, L + 7} \/ i = 1
    <3> HIDE DEF L
    <3>2. i \in 1..3 \/ i \in 4..(L + 3) \/ i \in (L + 4)..(L + 7)
      BY <1>1
    <3>3. ASSUME i \in (L + 4)..(L + 7) PROVE i \in {L + 4, L + 5, L + 6, L + 7}
      BY <1>1, <3>3
    <3> QED
      BY <3>2, <3>3
  <2> QED
    BY <2>4, <2>5, <2>6, <2>7
<1> HIDE DEF E, L
<1>4. n \in 1..Len(E) /\ 1 \in Nat \ {0} /\ E \in Seq(Token) /\ n \in Nat
  BY <1>1, <1>2 DEF Text
<1>5. Find(E, "CR", 1) = n
  <2>1. FirstAt(E, "CR", 1, n)
    BY <1>2, <1>3, <1>4 DEF FirstAt
  <2> HIDE DEF n
  <2> QED
    BY <1>4, <2>1, FindIsFirst
<1>6. line \in Seq(Token) /\ Len(line) = n - 1 /\ \A i \in 1..(n - 1) : line[i] = E[i]
  <2> DEFINE k == n - 1
  <2>1. k \in 0..Len(E)
    BY <1>1, <1>2
  <2> HIDE DEF k
  <2>2. /\ SubSeq(E, 1, k) \in Seq(Token) /\ Len(SubSeq(E, 1, k)) = k
        /\ \A i \in 1..k : SubSeq(E, 1, k)[i] = E[i]
    BY <1>4, <2>1, PrefixProperties
  <2> QED
    BY <2>2 DEF k
<1> HIDE DEF line
<1>7. 1 \in 1..(n - 1) /\ n - 1 = L + 7
  BY <1>1
<1> HIDE DEF n
<1>8. /\ get # 0 => get \in 1..Len(line) /\ line[get] = "GET"
      /\ head # 0 => head \in 1..Len(line) /\ line[head] = "HEAD"
  BY <1>6, FoundFirst
<1>9. verb = 1
  <2>1. CASE r.method = "GET"
    <3>1. line[1] = "GET" /\ 1 \in 1..Len(line)
      BY <1>2, <1>6, <1>7, <2>1
    <3>2. FirstAt(line, "GET", 1, 1)
      BY <3>1 DEF FirstAt
    <3>3. get = 1
      BY <1>4, <1>6, <3>2, FindIsFirst
    <3> QED
      BY <3>3
  <2>2. CASE r.method = "HEAD"
    <3>1. line[1] = "HEAD" /\ 1 \in 1..Len(line)
      BY <1>2, <1>6, <1>7, <2>2
    <3>2. FirstAt(line, "HEAD", 1, 1)
      BY <3>1 DEF FirstAt
    <3>3. head = 1
      BY <1>4, <1>6, <3>2, FindIsFirst
    <3>4. get = 0
      <4> HIDE DEF get
      <4> SUFFICES ASSUME get # 0 PROVE FALSE
        OBVIOUS
      <4>1. get \in 1..(n - 1) /\ E[get] = "GET"
        BY <1>6, <1>8
      <4>2. get = 1
        BY <1>3, <4>1 DEF Verbs
      <4> QED
        BY <1>2, <2>2, <4>1, <4>2
    <3> QED
      BY <3>3, <3>4
  <2> QED
    BY <2>1, <2>2 DEF Verbs
<1>10. LineFromVerb(r, E, n, line, 1)
  <2>1. n = 1 + L + 7
    BY <1>1 DEF n
  <2>2. \A d \in 0..(L + 6) : E[1 + d] = E[1 + d]
    OBVIOUS
  <2>3. 1 = IF get # 0 THEN get ELSE head
    BY <1>9
  <2>4. line = SubSeq(E, 1, n - 1)
    BY DEF line
  <2> HIDE DEF get, head, verb
  <2> QED
    BY <1>4, <1>5, <2>1, <2>2, <2>3, <2>4 DEF LineFromVerb, E, L, get, head
<1> DEFINE u == ParseURI(E, method, file)
<1>11. /\ u.result = "SUCCESS" /\ u.rest = SubSeq(E, n + 1, Len(E))
       /\ u.method = r.method /\ u.file = Target(r)
  BY <1>1, <1>10, LineOfRequest
<1>12. n + 1 = L + 9 /\ Len(E) = L + 17
  BY <1>1, <1>2 DEF n
<1>13. u.rest = SubSeq(E, L + 9, L + 17)
  BY <1>11, <1>12
<1> HIDE DEF u
<1>14. TakesLine(u, r)
  BY <1>11, <1>13 DEF TakesLine, E, L
<1> QED
  BY <1>14 DEF u, E

(* What the line leaves: its end and one header.                           *)
EndText(t, keep) ==
  /\ Len(t) = 9
  /\ t[1] = "LF" /\ t[2] = (IF keep THEN "Connection" ELSE "Host")
  /\ t[3] = ":" /\ t[4] = " " /\ t[5] = (IF keep THEN "Keep-Alive" ELSE "host")
  /\ t[6] = "CR" /\ t[7] = "LF" /\ t[8] = "CR" /\ t[9] = "LF"

LEMMA RestOfRequest ==
  ASSUME NEW r \in Requests, NEW t, t = SubSeq(Encode(r), Len(r.file) + 9, Len(r.file) + 17)
  PROVE  t \in Text /\ EndText(t, r.keep)
<1> DEFINE E == Encode(r)
           L == Len(r.file)
           from == L + 9
           to == L + 17
<1>1. LineOf(E, r.method, r.file) /\ L \in Nat /\ HeaderOf(E, L, r.keep) /\ E \in Text
  BY EncodedRequest, RequestIsText
<1>2. Len(E) = L + 17
  BY <1>1 DEF LineOf
<1> HIDE DEF E, L
<1>3. from \in Int /\ to \in Int /\ \A i \in from..to : E[i] \in Token
  <2>1. ASSUME NEW i \in from..to PROVE E[i] \in Token
    <3>1. i \in 1..Len(E) /\ E \in Seq(Token)
      BY <1>1, <1>2 DEF Text
    <3> HIDE DEF Token
    <3> QED
      BY <3>1, ElementOfSeq
  <2> QED
    BY <1>1, <2>1
<1>4. t = SubSeq(E, from, to)
  BY DEF E, L
<1>5. /\ t \in Seq(Token) /\ Len(t) = IF from <= to THEN to - from + 1 ELSE 0
      /\ \A i \in 1..(to - from + 1) : t[i] = E[from + i - 1]
  <2> HIDE DEF from, to, Token
  <2>1. /\ SubSeq(E, from, to) \in Seq(Token)
        /\ Len(SubSeq(E, from, to)) = IF from <= to THEN to - from + 1 ELSE 0
        /\ \A i \in 1..(to - from + 1) : SubSeq(E, from, to)[i] = E[from + i - 1]
    BY <1>3, SubSeqProperties
  <2> QED
    BY <1>4, <2>1, Zenon
<1>6. Len(t) = 9 /\ to - from + 1 = 9
  BY <1>1, <1>5
<1>7. \A i \in 1..9 : t[i] = E[from + i - 1]
  BY <1>5, <1>6, Zenon
<1>8. /\ from + 1 - 1 = L + 9 /\ from + 2 - 1 = L + 10 /\ from + 3 - 1 = L + 11
      /\ from + 4 - 1 = L + 12 /\ from + 5 - 1 = L + 13 /\ from + 6 - 1 = L + 14
      /\ from + 7 - 1 = L + 15 /\ from + 8 - 1 = L + 16 /\ from + 9 - 1 = L + 17
  BY <1>1
<1>9. /\ 1 \in 1..9 /\ 2 \in 1..9 /\ 3 \in 1..9 /\ 4 \in 1..9 /\ 5 \in 1..9 /\ 6 \in 1..9
      /\ 7 \in 1..9 /\ 8 \in 1..9 /\ 9 \in 1..9
  OBVIOUS
<1> HIDE DEF from, to
<1>10. /\ t[1] = E[L + 9] /\ t[2] = E[L + 10] /\ t[3] = E[L + 11] /\ t[4] = E[L + 12]
       /\ t[5] = E[L + 13] /\ t[6] = E[L + 14] /\ t[7] = E[L + 15] /\ t[8] = E[L + 16]
       /\ t[9] = E[L + 17]
  <2>1. t[1] = E[L + 9] /\ t[2] = E[L + 10] /\ t[3] = E[L + 11]
    BY <1>7, <1>8, <1>9, Zenon
  <2>2. t[4] = E[L + 12] /\ t[5] = E[L + 13] /\ t[6] = E[L + 14]
    BY <1>7, <1>8, <1>9, Zenon
  <2>3. t[7] = E[L + 15] /\ t[8] = E[L + 16] /\ t[9] = E[L + 17]
    BY <1>7, <1>8, <1>9, Zenon
  <2> QED
    BY <2>1, <2>2, <2>3
<1> QED
  BY <1>1, <1>5, <1>6, <1>10 DEF HeaderOf, EndText, Text

(* The header loop after i tokens without an end.                          *)
At(p, s, i) == p \in Runs(9) /\ p.verdict = "AGAIN" /\ p.hState = s /\ p.i = i

(* parseHeaders on such a text finds the one header and the blank line.    *)
LEMMA HeaderFound ==
  ASSUME NEW t \in Text, NEW keep \in BOOLEAN, EndText(t, keep),
         NEW r, r = ParseHeaders(t, "H_START", <<>>),
         NEW key, key = (IF keep THEN "Connection" ELSE "Host"),
         NEW value, value = (IF keep THEN "Keep-Alive" ELSE "host")
  PROVE  /\ r.result = "SUCCESS" /\ r.rest = <<>>
         /\ r.headers = WithHeader(<<>>, <<key>>, <<value>>)
<1> DEFINE Def(run) == run = [k \in 0..Len(t) |->
                               IF k = 0 THEN LoopBegin("H_START", <<>>)
                               ELSE LET q == run[k - 1]
                                    IN  IF q.verdict = "AGAIN" THEN Step(t, q, t[k]) ELSE q]
           run == CHOOSE f : Def(f)
<1>0. "H_START" \in HStates /\ <<>> \in Headers
  BY NoHeaders DEF HStates
<1>1. Def(run)
  <2>1. \E f : Def(f)
    <3>1. \A f : IsHeaderLoop(f, t, "H_START", <<>>) => Def(f)
      BY DEF IsHeaderLoop, Turn
    <3> QED
      BY <1>0, <3>1, HeaderLoopExists
  <2> HIDE DEF Def
  <2> QED
    BY <2>1, Zenon
<1>2. Len(t) = 9
  BY DEF EndText
<1>3. r = LET p == run[9]
              parsed(result, rest) ==
                [result |-> result, rest |-> rest, hState |-> p.hState, headers |-> p.headers]
              from(k) == SubSeq(t, k + 1, Len(t))
          IN  IF p.verdict = "ERROR" THEN parsed("ERROR", t)
              ELSE IF p.verdict = "SUCCESS" THEN parsed("SUCCESS", WithoutFirst(from(p.i - 1)))
              ELSE IF p.hState = "H_BLANK_LINE_LF" THEN parsed("SUCCESS", <<>>)
              ELSE parsed("AGAIN", from(p.lineBegin))
  BY <1>2 DEF ParseHeaders, LoopBegin
<1>4. \A k \in 0..9 : run[k] = IF k = 0 THEN LoopBegin("H_START", <<>>)
                               ELSE IF run[k - 1].verdict = "AGAIN" THEN Step(t, run[k - 1], t[k])
                               ELSE run[k - 1]
  <2> HIDE DEF run
  <2> QED
    BY <1>1, <1>2
<1> HIDE DEF run
<1>5. ASSUME NEW k \in 1..9, run[k - 1] \in Runs(9), run[k - 1].verdict = "AGAIN", run[k - 1].i = k - 1
      PROVE  /\ run[k] = Step(t, run[k - 1], t[k])
             /\ run[k] \in Runs(9) /\ run[k].i = k
  <2>1. run[k] = Step(t, run[k - 1], t[k])
    BY <1>4, <1>5
  <2>2. run[k - 1].i < Len(t)
    BY <1>2, <1>5
  <2>3. Step(t, run[k - 1], t[k]) \in Runs(9) /\ Step(t, run[k - 1], t[k]).i = k - 1 + 1
    <3>1. run[k - 1] \in Runs(Len(t))
      BY <1>2, <1>5
    <3>2. /\ Step(t, run[k - 1], t[k]) \in Runs(Len(t))
          /\ Step(t, run[k - 1], t[k]).i = run[k - 1].i + 1
      BY <2>2, <3>1, StepTypes
    <3> QED
      BY <1>2, <1>5, <3>2
  <2> QED
    BY <2>1, <2>3
<1> HIDE DEF Def
<1>10. At(run[0], "H_START", 0) /\ run[0].headers = <<>>
  <2>1. run[0] = LoopBegin("H_START", <<>>)
    BY <1>4
  <2>2. Reached(0, LoopBegin("H_START", <<>>), 9)
    BY <1>0, BeginReaches
  <2> QED
    BY <2>1, <2>2 DEF Reached, LoopBegin, At
<1>11. At(run[1], "H_START", 1) /\ run[1].headers = <<>>
  <2>1. 1 \in 1..9 /\ 1 - 1 = 0
    OBVIOUS
  <2>2. run[1] = Step(t, run[0], t[1]) /\ run[1] \in Runs(9) /\ run[1].i = 1
    BY <1>5, <1>10, <2>1 DEF At
  <2> QED
    BY <1>10, <2>2 DEF At, Step, Runs, EndText
<1>12. At(run[2], "H_KEY", 2) /\ run[2].headers = <<>> /\ run[2].keyStart = 1
  <2>1. 2 \in 1..9 /\ 2 - 1 = 1
    OBVIOUS
  <2>2. run[2] = Step(t, run[1], t[2]) /\ run[2] \in Runs(9) /\ run[2].i = 2
    BY <1>5, <1>11, <2>1 DEF At
  <2>3. run[2] = [[[[run[1] EXCEPT !.i = run[1].i + 1] EXCEPT !.hState = "H_KEY"]
                   EXCEPT !.keyStart = run[1].i] EXCEPT !.lineBegin = run[1].i]
    <3>1. t[2] \notin {"CR", "LF"} /\ run[1].hState = "H_START"
      BY <1>11 DEF EndText, At
    <3> QED
      BY <2>2, <3>1 DEF Step
  <2> QED
    BY <1>11, <2>2, <2>3 DEF At, Runs
<1>13. At(run[3], "H_COLON", 3) /\ run[3].headers = <<>> /\ run[3].keyStart = 1 /\ run[3].keyEnd = 2
  <2>1. 3 \in 1..9 /\ 3 - 1 = 2
    OBVIOUS
  <2>2. run[3] = Step(t, run[2], t[3]) /\ run[3] \in Runs(9) /\ run[3].i = 3
    BY <1>5, <1>12, <2>1 DEF At
  <2>3. run[3] = [[[run[2] EXCEPT !.i = run[2].i + 1] EXCEPT !.hState = "H_COLON"] EXCEPT !.keyEnd = run[2].i]
    <3>1. t[3] = ":"
      BY DEF EndText
    <3>2. run[2].hState = "H_KEY" /\ run[2].i = 2 /\ run[2].keyStart = 1
      BY <1>12 DEF At
    <3>3. ~(run[2].i <= run[2].keyStart)
      BY <3>2
    <3> QED
      BY <2>2, <3>1, <3>2, <3>3 DEF Step
  <2> QED
    BY <1>12, <2>2, <2>3 DEF At, Runs
<1>14. /\ At(run[4], "H_SPACES_AFTER_COLON", 4) /\ run[4].headers = <<>>
       /\ run[4].keyStart = 1 /\ run[4].keyEnd = 2
  <2>1. 4 \in 1..9 /\ 4 - 1 = 3
    OBVIOUS
  <2>2. run[4] = Step(t, run[3], t[4]) /\ run[4] \in Runs(9) /\ run[4].i = 4
    BY <1>5, <1>13, <2>1 DEF At
  <2>3. run[4] = [[run[3] EXCEPT !.i = run[3].i + 1] EXCEPT !.hState = "H_SPACES_AFTER_COLON"]
    <3>1. t[4] = " " /\ run[3].hState = "H_COLON"
      BY <1>13 DEF EndText, At
    <3> QED
      BY <2>2, <3>1 DEF Step
  <2> QED
    BY <1>13, <2>2, <2>3 DEF At, Runs
<1>15. /\ At(run[5], "H_VALUE", 5) /\ run[5].headers = <<>>
       /\ run[5].keyStart = 1 /\ run[5].keyEnd = 2 /\ run[5].valueStart = 4
  <2>1. 5 \in 1..9 /\ 5 - 1 = 4
    OBVIOUS
  <2>2. run[5] = Step(t, run[4], t[5]) /\ run[5] \in Runs(9) /\ run[5].i = 5
    BY <1>5, <1>14, <2>1 DEF At
  <2>3. run[5] = [[[run[4] EXCEPT !.i = run[4].i + 1] EXCEPT !.hState = "H_VALUE"]
                  EXCEPT !.valueStart = run[4].i]
    <3>1. t[5] # "long" /\ run[4].hState = "H_SPACES_AFTER_COLON"
      BY <1>14 DEF EndText, At
    <3> QED
      BY <2>2, <3>1 DEF Step
  <2> QED
    BY <1>14, <2>2, <2>3 DEF At, Runs
<1>16. /\ At(run[6], "H_CR", 6) /\ run[6].headers = <<>>
       /\ run[6].keyStart = 1 /\ run[6].keyEnd = 2 /\ run[6].valueStart = 4 /\ run[6].valueEnd = 5
  <2>1. 6 \in 1..9 /\ 6 - 1 = 5
    OBVIOUS
  <2>2. run[6] = Step(t, run[5], t[6]) /\ run[6] \in Runs(9) /\ run[6].i = 6
    BY <1>5, <1>15, <2>1 DEF At
  <2>3. run[6] = [[[run[5] EXCEPT !.i = run[5].i + 1] EXCEPT !.hState = "H_CR"] EXCEPT !.valueEnd = run[5].i]
    <3>1. t[6] = "CR"
      BY DEF EndText
    <3>2. run[5].hState = "H_VALUE" /\ run[5].i = 5 /\ run[5].valueStart = 4
      BY <1>15 DEF At
    <3>3. ~(run[5].i <= run[5].valueStart)
      BY <3>2
    <3> QED
      BY <2>2, <3>1, <3>2, <3>3 DEF Step
  <2> QED
    BY <1>15, <2>2, <2>3 DEF At, Runs
<1>17. At(run[7], "H_LF", 7) /\ run[7].headers = WithHeader(<<>>, Between(t, 1, 2), Between(t, 4, 5))
  <2>1. 7 \in 1..9 /\ 7 - 1 = 6
    OBVIOUS
  <2>2. run[7] = Step(t, run[6], t[7]) /\ run[7] \in Runs(9) /\ run[7].i = 7
    BY <1>5, <1>16, <2>1 DEF At
  <2> DEFINE found == WithHeader(run[6].headers, Between(t, run[6].keyStart, run[6].keyEnd),
                                 Between(t, run[6].valueStart, run[6].valueEnd))
  <2>3. run[7] = [[[run[6] EXCEPT !.i = run[6].i + 1] EXCEPT !.hState = "H_LF"]
                  EXCEPT !.lineBegin = run[6].i, !.headers = found]
    BY <1>16, <2>2 DEF At, Step, EndText
  <2>4. found = WithHeader(<<>>, Between(t, 1, 2), Between(t, 4, 5))
    BY <1>16
  <2> HIDE DEF found
  <2> QED
    BY <1>16, <2>2, <2>3, <2>4 DEF At, Runs
<1>18. At(run[8], "H_BLANK_LINE_CR", 8) /\ run[8].headers = run[7].headers
  <2>1. 8 \in 1..9 /\ 8 - 1 = 7
    OBVIOUS
  <2>2. run[8] = Step(t, run[7], t[8]) /\ run[8] \in Runs(9) /\ run[8].i = 8
    BY <1>5, <1>17, <2>1 DEF At
  <2> QED
    BY <1>17, <2>2 DEF At, Step, Runs, EndText
<1>19. At(run[9], "H_BLANK_LINE_LF", 9) /\ run[9].headers = run[7].headers
  <2>1. 9 \in 1..9 /\ 9 - 1 = 8
    OBVIOUS
  <2>2. run[9] = Step(t, run[8], t[9]) /\ run[9] \in Runs(9) /\ run[9].i = 9
    BY <1>5, <1>18, <2>1 DEF At
  <2> QED
    BY <1>18, <2>2 DEF At, Step, Runs, EndText
<1>20. r.result = "SUCCESS" /\ r.rest = <<>> /\ r.headers = run[7].headers
  BY <1>3, <1>19 DEF At
<1>21. Between(t, 1, 2) = <<key>> /\ Between(t, 4, 5) = <<value>>
  <2>1. ASSUME NEW n \in 1..9 PROVE SubSeq(t, n, n) = <<t[n]>>
    <3>1. n \in Int /\ n - n + 1 = 1 /\ 1 \in 1..1 /\ n + 1 - 1 = n
      OBVIOUS
    <3>2. \A i \in n..n : t[i] \in {t[n]}
      BY <3>1
    <3> DEFINE u == SubSeq(t, n, n)
    <3>3. u \in Seq({t[n]}) /\ Len(u) = IF n <= n THEN n - n + 1 ELSE 0
      BY <3>1, <3>2, SubSeqProperties
    <3> HIDE DEF u
    <3>4. Len(u) = 1
      BY <3>1, <3>3
    <3>5. u[1] = t[n]
      <4>1. 1 \in 1..Len(u)
        BY <3>4
      <4>2. u[1] \in {t[n]}
        BY <3>3, <4>1, ElementOfSeq
      <4> QED
        BY <4>2
    <3>6. u = <<t[n]>>
      <4> DEFINE x == t[n]
      <4> HIDE DEF x
      <4>1. <<x>> \in Seq({x}) /\ Len(<<x>>) = 1 /\ <<x>>[1] = x
        OBVIOUS
      <4>2. u \in Seq({x}) /\ u[1] = x
        BY <3>3, <3>5 DEF x
      <4>3. u = <<x>>
        BY <3>4, <4>1, <4>2, SeqEqual
      <4> QED
        BY <4>3 DEF x
    <3> QED
      BY <3>6 DEF u
  <2>2. Between(t, 1, 2) = SubSeq(t, 2, 2) /\ Between(t, 4, 5) = SubSeq(t, 5, 5)
    BY DEF Between
  <2>3. t[2] = key /\ t[5] = value
    BY DEF EndText
  <2>4. 2 \in 1..9 /\ 5 \in 1..9
    OBVIOUS
  <2>5. SubSeq(t, 2, 2) = <<t[2]>> /\ SubSeq(t, 5, 5) = <<t[5]>>
    BY <2>1, <2>4
  <2> QED
    BY <2>2, <2>3, <2>5
<1> QED
  BY <1>17, <1>20, <1>21

(* Only the header of a request that asks for it asks to be kept alive.    *)
LEMMA HeaderAsks ==
  ASSUME NEW keep \in BOOLEAN, NEW key, key = (IF keep THEN "Connection" ELSE "Host"),
         NEW value, value = (IF keep THEN "Keep-Alive" ELSE "host")
  PROVE  AsksKeepAlive(WithHeader(<<>>, <<key>>, <<value>>)) = keep
<1> DEFINE headers == WithHeader(<<>>, <<key>>, <<value>>)
<1>1. DOMAIN headers = {<<key>>} /\ headers[<<key>>] = <<value>>
  BY DEF WithHeader
<1> HIDE DEF headers
<1>2. \A x, y : <<x>> = <<y>> => x = y
  <2> SUFFICES ASSUME NEW x, NEW y, <<x>> = <<y>> PROVE x = y
    OBVIOUS
  <2>1. <<x>>[1] = x /\ <<y>>[1] = y
    OBVIOUS
  <2> QED
    BY <2>1
<1>3. CASE keep
  <2>1. key = "Connection" /\ value = "Keep-Alive"
    BY <1>3
  <2> QED
    BY <1>1, <1>3, <2>1 DEF AsksKeepAlive, headers
<1>4. CASE ~keep
  <2>1. key # "Connection"
    BY <1>4
  <2>2. <<"Connection">> \notin DOMAIN headers
    BY <1>1, <1>2, <2>1
  <2> QED
    BY <1>4, <2>2 DEF AsksKeepAlive, headers
<1> QED
  BY <1>3, <1>4

(* What a request is answered with.                                        *)
Gives(a, r, out) ==
  \/ a.result = "SUCCESS" /\ a.out = out \o Reply(r)
  \/ a.result = "ERROR" /\ a.out \in {out, <<>>} /\ Reply(r) = <<Complaint("404")>>

LEMMA AnalysisReplies ==
  ASSUME NEW r, r.method \in Verbs, PlainRequest(r), NEW out
  PROVE  Gives(AnalysisRequest(r.method, Target(r), out), r, out)
<1> SUFFICES ASSUME NEW a, a = AnalysisRequest(r.method, Target(r), out)
             PROVE  \/ a.result = "SUCCESS" /\ a.out = out \o Reply(r)
                    \/ a.result = "ERROR" /\ a.out \in {out, <<>>} /\ Reply(r) = <<Complaint("404")>>
  BY DEF Gives
<1> DEFINE t == Target(r)
           head == <<Header(t)>>
           whole == <<Header(t), Body(t)>>
<1>1. ~(r.method = "HEAD" /\ t = <<"favicon.ico">>)
  BY DEF PlainRequest
<1>2. <<"favicon.ico">> \notin Readable \cup Unopenable /\ Readable \cap Unopenable = {}
  BY DEF Readable, Unopenable
<1>3. r.method = "GET" \/ r.method = "HEAD"
  BY DEF Verbs
<1>4. Reply(r) = IF r.method = "HEAD" /\ t \in Readable \cup {<<"favicon.ico">>} \cup Unopenable THEN head
                 ELSE IF t \in Readable \cup {<<"favicon.ico">>} THEN whole
                 ELSE <<Complaint("404")>>
  BY DEF Reply
<1> HIDE DEF t, head, whole
<1>5. CASE t = <<"favicon.ico">>
  <2>1. a.result = "SUCCESS" /\ a.out = out \o whole
    BY <1>2, <1>5 DEF AnalysisRequest, t, whole
  <2>2. Reply(r) = whole
    BY <1>1, <1>4, <1>5
  <2> QED
    BY <2>1, <2>2
<1>6. CASE t # <<"favicon.ico">> /\ t \in Readable \cup Unopenable /\ r.method = "HEAD"
  <2>1. a.result = "SUCCESS" /\ a.out = out \o head
    BY <1>6 DEF AnalysisRequest, t, head
  <2>2. Reply(r) = head
    BY <1>4, <1>6
  <2> QED
    BY <2>1, <2>2
<1>7. CASE t # <<"favicon.ico">> /\ t \in Readable /\ r.method = "GET"
  <2>1. a.result = "SUCCESS" /\ a.out = out \o whole
    BY <1>2, <1>7 DEF AnalysisRequest, t, whole
  <2>2. Reply(r) = whole
    BY <1>4, <1>7
  <2> QED
    BY <2>1, <2>2
<1>8. CASE t # <<"favicon.ico">> /\ t \in Unopenable /\ r.method = "GET"
  <2>1. a.result = "ERROR" /\ a.out = <<>>
    BY <1>2, <1>8 DEF AnalysisRequest, t
  <2>2. Reply(r) = <<Complaint("404")>>
    BY <1>2, <1>4, <1>8
  <2> QED
    BY <2>1, <2>2
<1>9. CASE t # <<"favicon.ico">> /\ t \notin Readable \cup Unopenable
  <2>1. a.result = "ERROR" /\ a.out = out
    BY <1>9 DEF AnalysisRequest, t
  <2>2. Reply(r) = <<Complaint("404")>>
    BY <1>4, <1>9
  <2> QED
    BY <2>1, <2>2
<1> QED
  BY <1>3, <1>5, <1>6, <1>7, <1>8, <1>9

(* The parser at work on a whole request, from its first token on.         *)
Fresh(h) == h.state = "PARSE_URI" /\ h.hState = "H_START" /\ h.headers = <<>>

Taken(h, g, r) ==
  /\ DOMAIN g = Fields /\ g.in = <<>> /\ g.connectionState = h.connectionState
  /\ g.keepAlive = (h.keepAlive \/ r.keep)
  /\ \/ /\ g.state = "FINISH" /\ g.out = h.out \o Reply(r)
        /\ g.error = h.error /\ g.complaint = h.complaint
     \/ /\ g.error /\ g.complaint = "404"
        /\ g.out \in {h.out, <<>>} /\ Reply(r) = <<Complaint("404")>>

LEMMA WholeRequest ==
  ASSUME NEW r \in Requests, PlainRequest(r), r.method \in Verbs,
         NEW h, DOMAIN h = Fields, h.in = Encode(r), Fresh(h)
  PROVE  Taken(h, Parse(h), r)
<1> DEFINE t == SubSeq(Encode(r), Len(r.file) + 9, Len(r.file) + 17)
           u == ParseURI(h.in, h.method, h.file)
           l == LineStage(h)
           key == IF r.keep THEN "Connection" ELSE "Host"
           value == IF r.keep THEN "Keep-Alive" ELSE "host"
           p == ParseHeaders(l.in, l.hState, l.headers)
           n == HeaderStage(l)
           a == AnalysisRequest(n.method, n.file, n.out)
           analysed == [n EXCEPT !.out = a.out, !.keepAlive = @ \/ AsksKeepAlive(n.headers)]
           g == Parse(h)
<1>1. u.result = "SUCCESS" /\ u.method = r.method /\ u.file = Target(r) /\ u.rest = t
  <2>1. TakesLine(u, r)
    BY WholeLine
  <2> QED
    BY <2>1 DEF TakesLine
<1>2. t \in Text /\ EndText(t, r.keep) /\ r.keep \in BOOLEAN
  BY RestOfRequest DEF Requests
<1> HIDE DEF u, t
<1>3. /\ DOMAIN l = Fields /\ l.in = t /\ l.method = r.method /\ l.file = Target(r)
      /\ l.state = "PARSE_HEADERS" /\ l.hState = "H_START" /\ l.headers = <<>>
      /\ l.out = h.out /\ l.error = h.error /\ l.complaint = h.complaint
      /\ l.keepAlive = h.keepAlive /\ l.connectionState = h.connectionState
  <2>1. l = [h EXCEPT !.in = t, !.method = r.method, !.file = Target(r), !.state = "PARSE_HEADERS"]
    BY <1>1 DEF LineStage, AfterLine, Fresh, u
  <2> QED
    BY <2>1 DEF Fields, Fresh
<1> HIDE DEF l
<1>4. p.result = "SUCCESS" /\ p.rest = <<>> /\ AsksKeepAlive(p.headers) = r.keep
  <2>1. p = ParseHeaders(t, "H_START", <<>>)
    BY <1>3
  <2> HIDE DEF p
  <2>2. p.result = "SUCCESS" /\ p.rest = <<>> /\ p.headers = WithHeader(<<>>, <<key>>, <<value>>)
    BY <1>2, <2>1, HeaderFound
  <2>3. AsksKeepAlive(WithHeader(<<>>, <<key>>, <<value>>)) = r.keep
    BY <1>2, HeaderAsks
  <2> QED
    BY <2>2, <2>3
<1> HIDE DEF p
<1>5. /\ DOMAIN n = Fields /\ n.in = <<>> /\ n.method = r.method /\ n.file = Target(r)
      /\ n.state = "ANALYSIS" /\ AsksKeepAlive(n.headers) = r.keep
      /\ n.out = h.out /\ n.error = h.error /\ n.complaint = h.complaint
      /\ n.keepAlive = h.keepAlive /\ n.connectionState = h.connectionState
  <2>1. n = [[l EXCEPT !.in = p.rest, !.hState = p.hState, !.headers = p.headers] EXCEPT !.state = "ANALYSIS"]
    BY <1>3, <1>4 DEF HeaderStage, AfterHeaders, p
  <2>2. /\ DOMAIN n = Fields /\ n.in = p.rest /\ n.headers = p.headers /\ n.state = "ANALYSIS"
        /\ n.method = l.method /\ n.file = l.file /\ n.out = l.out /\ n.error = l.error
        /\ n.complaint = l.complaint /\ n.keepAlive = l.keepAlive
        /\ n.connectionState = l.connectionState
    BY <1>3, <2>1 DEF Fields
  <2> QED
    BY <1>3, <1>4, <2>2
<1>6. g = IF a.result = "SUCCESS" THEN [analysed EXCEPT !.state = "FINISH"]
          ELSE [analysed EXCEPT !.error = TRUE, !.complaint = "404"]
  <2>1. g = AnalysisStage(n)
    BY DEF Parse, l
  <2>2. n.state = "ANALYSIS"
    BY <1>5
  <2> HIDE DEF n, g
  <2> QED
    BY <2>1, <2>2 DEF AnalysisStage
<1>7. \/ a.result = "SUCCESS" /\ a.out = h.out \o Reply(r)
      \/ a.result = "ERROR" /\ a.out \in {h.out, <<>>} /\ Reply(r) = <<Complaint("404")>>
  <2>1. a = AnalysisRequest(r.method, Target(r), h.out)
    BY <1>5
  <2>2. Gives(AnalysisRequest(r.method, Target(r), h.out), r, h.out)
    BY AnalysisReplies
  <2> HIDE DEF a, n
  <2> QED
    BY <2>1, <2>2 DEF Gives
<1> HIDE DEF n, a, g
<1>8. /\ DOMAIN analysed = Fields /\ analysed.out = a.out /\ analysed.in = <<>>
      /\ analysed.keepAlive = (h.keepAlive \/ r.keep) /\ analysed.error = h.error
      /\ analysed.complaint = h.complaint /\ analysed.connectionState = h.connectionState
  BY <1>5 DEF Fields
<1> HIDE DEF analysed
<1>9. Taken(h, g, r)
  <2>1. CASE a.result = "SUCCESS"
    BY <1>6, <1>7, <1>8, <2>1 DEF Fields, Taken
  <2>2. CASE a.result # "SUCCESS"
    BY <1>6, <1>7, <1>8, <2>2 DEF Fields, Taken
  <2> QED
    BY <2>1, <2>2
<1> QED
  BY <1>9 DEF g

------------------------------------------------------------------------------
(* Replies to a sequence of requests.                                      *)
LEMMA ReplyUnit == ASSUME NEW r PROVE Reply(r) \in Units /\ Reply(r) # <<>>
<1> DEFINE t == Target(r)
           head == <<Header(t)>>
           whole == <<Header(t), Body(t)>>
           none == <<Complaint("404")>>
<1>1. \A S, x, y : /\ x \in S => <<x>> \in Seq(S)
                   /\ x \in S /\ y \in S => <<x, y>> \in Seq(S)
                   /\ Len(<<x>>) = 1 /\ Len(<<x, y>>) = 2
  OBVIOUS
<1>2. head # <<>> /\ whole # <<>> /\ none # <<>>
  BY <1>1, EmptySeq
<1>3. t \in Files => head \in Units /\ whole \in Units
  BY <1>1, UnitsOfOutput DEF Units
<1>4. none \in Units
  BY <1>1, UnitsOfOutput DEF Units
<1>5. \/ t \in Files /\ (Reply(r) = head \/ Reply(r) = whole)
      \/ Reply(r) = none
  BY DEF Reply, Files
<1> HIDE DEF head, whole, none
<1> QED
  BY <1>2, <1>3, <1>4, <1>5

Answers(s) == [i \in DOMAIN s |-> Reply(s[i])]

LEMMA AnswersEach ==
  ASSUME NEW S, NEW s \in Seq(S)
  PROVE  /\ Answers(s) \in Seq(Units) /\ Len(Answers(s)) = Len(s)
         /\ \A i \in 1..Len(s) : Answers(s)[i] = Reply(s[i])
<1>1. DOMAIN s = 1..Len(s) /\ Len(s) \in Nat
  OBVIOUS
<1>2. \A i \in 1..Len(s) : Reply(s[i]) \in Units
  BY ReplyUnit
<1>3. Answers(s) \in [1..Len(s) -> Units]
  BY <1>1, <1>2 DEF Answers
<1>4. Answers(s) \in Seq(Units)
  BY <1>1, <1>3, IsASeq
<1>5. DOMAIN Answers(s) = 1..Len(s) /\ DOMAIN Answers(s) = 1..Len(Answers(s)) /\ Len(Answers(s)) \in Nat
  BY <1>3, <1>4
<1>6. Len(Answers(s)) = Len(s)
  BY <1>1, <1>5
<1> QED
  BY <1>1, <1>4, <1>6 DEF Answers

LEMMA RepliesConcat ==
  ASSUME NEW S, NEW s \in Seq(S), NEW t \in Seq(S)
  PROVE  /\ Replies(s) \in Units /\ Replies(t) \in Units
         /\ Replies(s \o t) = Replies(s) \o Replies(t)
<1> DEFINE a == Answers(s)
           b == Answers(t)
           st == s \o t
           ab == Answers(st)
<1>1. /\ a \in Seq(Units) /\ Len(a) = Len(s) /\ \A i \in 1..Len(s) : a[i] = Reply(s[i])
      /\ b \in Seq(Units) /\ Len(b) = Len(t) /\ \A i \in 1..Len(t) : b[i] = Reply(t[i])
  BY AnswersEach
<1>2. /\ st \in Seq(S) /\ Len(st) = Len(s) + Len(t)
      /\ \A i \in 1..Len(st) : st[i] = IF i <= Len(s) THEN s[i] ELSE t[i - Len(s)]
      /\ Len(s) \in Nat /\ Len(t) \in Nat
  BY ConcatProperties, LenProperties
<1> HIDE DEF st
<1>3. /\ ab \in Seq(Units) /\ Len(ab) = Len(st) /\ \A i \in 1..Len(st) : ab[i] = Reply(st[i])
  BY <1>2, AnswersEach
<1> HIDE DEF a, b, ab
<1>4. /\ a \o b \in Seq(Units) /\ Len(a \o b) = Len(a) + Len(b)
      /\ \A i \in 1..Len(a \o b) : (a \o b)[i] = IF i <= Len(a) THEN a[i] ELSE b[i - Len(a)]
  <2>1. a \in Seq(Units) /\ b \in Seq(Units)
    BY <1>1
  <2> QED
    BY <2>1, ConcatProperties, Zenon
<1>5. ab = a \o b
  <2>1. ASSUME NEW i \in 1..Len(ab) PROVE ab[i] = (a \o b)[i]
    <3>1. i \in 1..Len(st) /\ i \in 1..Len(a \o b) /\ ab[i] = Reply(st[i])
      BY <1>1, <1>2, <1>3, <1>4
    <3>2. CASE i <= Len(s)
      <4>1. i \in 1..Len(s)
        BY <1>2, <3>1, <3>2
      <4> QED
        BY <1>1, <1>2, <1>4, <3>1, <3>2, <4>1
    <3>3. CASE ~(i <= Len(s))
      <4>1. i - Len(s) \in 1..Len(t)
        BY <1>2, <3>1, <3>3
      <4> QED
        BY <1>1, <1>2, <1>4, <3>1, <3>3, <4>1
    <3> QED
      BY <3>2, <3>3
  <2>2. Len(ab) = Len(a \o b)
    BY <1>1, <1>2, <1>3, <1>4
  <2> DEFINE c == a \o b
  <2> HIDE DEF c
  <2>3. ab \in Seq(Units) /\ c \in Seq(Units) /\ Len(ab) = Len(c) /\ \A i \in 1..Len(ab) : ab[i] = c[i]
    BY <1>3, <1>4, <2>1, <2>2 DEF c
  <2> QED
    BY <2>3, SeqEqual DEF c
<1>6. Replies(s) = FlattenSeq(a) /\ Replies(t) = FlattenSeq(b) /\ Replies(s \o t) = FlattenSeq(ab)
  BY DEF Replies, Answers, a, b, ab, st
<1>7. a \in Seq(Seq(Unit)) /\ b \in Seq(Seq(Unit))
  BY <1>1 DEF Units
<1>8. FlattenSeq(a) \in Units /\ FlattenSeq(b) \in Units
  BY <1>7, FlattenType DEF Units
<1>9. FlattenSeq(a \o b) = FlattenSeq(a) \o FlattenSeq(b)
  BY <1>7, FlattenConcat
<1> QED
  BY <1>5, <1>6, <1>8, <1>9

LEMMA RepliesNone == Replies(<<>>) = <<>>
<1>1. Answers(<<>>) = <<>>
  BY DEF Answers
<1>2. Replies(<<>>) = FlattenSeq(Answers(<<>>))
  BY DEF Replies, Answers
<1> QED
  BY <1>1, <1>2, FlattenEmpty

LEMMA RepliesOne == ASSUME NEW r PROVE Replies(<<r>>) = Reply(r)
<1> DEFINE s == <<r>>
           a == Answers(s)
           u == Reply(r)
<1>1. s \in Seq({r}) /\ Len(s) = 1 /\ s[1] = r
  OBVIOUS
<1> HIDE DEF s
<1>2. a \in Seq(Units) /\ Len(a) = 1 /\ a[1] = u
  <2>1. /\ Answers(s) \in Seq(Units) /\ Len(Answers(s)) = Len(s)
        /\ \A i \in 1..Len(s) : Answers(s)[i] = Reply(s[i])
    BY <1>1, AnswersEach
  <2> HIDE DEF a
  <2> QED
    BY <1>1, <2>1 DEF a
<1>3. u \in Units
  BY ReplyUnit
<1> HIDE DEF a, u
<1>4. a = Append(<<>>, u)
  <2>1. Append(<<>>, u) = <<u>> /\ <<u>> \in Seq(Units) /\ Len(<<u>>) = 1 /\ <<u>>[1] = u
    BY <1>3
  <2>2. a = <<u>>
    BY <1>2, <2>1, SeqEqual
  <2> QED
    BY <2>1, <2>2
<1>5. FlattenSeq(Append(<<>>, u)) = FlattenSeq(<<>>) \o u
  <2>1. <<>> \in Seq(Seq(Unit)) /\ u \in Seq(Unit)
    BY <1>3, EmptySeq DEF Units
  <2> QED
    BY <2>1, FlattenAppend
<1>6. <<>> \o u = u
  BY <1>3, ConcatEmptySeq DEF Units
<1>7. Replies(<<r>>) = FlattenSeq(a)
  BY DEF Replies, Answers, a, s
<1> QED
  BY <1>4, <1>5, <1>6, <1>7, FlattenEmpty DEF u

(* The replies to the first k requests, and one more; and the others.      *)
LEMMA RepliesNext ==
  ASSUME NEW S, NEW s \in Seq(S), NEW k \in 0..Len(s)
  PROVE  /\ Replies(SubSeq(s, 1, k)) \in Units
         /\ Replies(s) = Replies(SubSeq(s, 1, k)) \o Replies(SubSeq(s, k + 1, Len(s)))
         /\ Replies(SubSeq(s, k + 1, Len(s))) \in Units
         /\ k < Len(s) => Replies(SubSeq(s, 1, k + 1)) = Replies(SubSeq(s, 1, k)) \o Reply(s[k + 1])
<1> DEFINE p == SubSeq(s, 1, k)
           q == SubSeq(s, k + 1, Len(s))
<1>1. p \in Seq(S) /\ q \in Seq(S) /\ p \o q = s
  BY SplitAt
<1>2. ASSUME k < Len(s) PROVE Replies(SubSeq(s, 1, k + 1)) = Replies(p) \o Reply(s[k + 1])
  <2> DEFINE m == 1
             n == k + 1
             x == s[n]
             one == <<x>>
  <2>1. m \in 1..Len(s) /\ n \in 1..Len(s) /\ n - 1 = k /\ m <= n /\ n \in m..Len(s)
    BY <1>2, LenProperties
  <2>2. x \in S /\ one \in Seq(S)
    <3>1. x \in S
      BY <2>1, ElementOfSeq
    <3> HIDE DEF x
    <3> QED
      BY <3>1
  <2> HIDE DEF m, n
  <2>3. SubSeq(s, m, n) = SubSeq(s, m, n - 1) \o one
    BY <2>1, SubSeqRecursiveSecond
  <2>4. SubSeq(s, m, n) = p \o one
    BY <2>1, <2>3 DEF m
  <2> HIDE DEF p
  <2>5. Replies(p \o one) = Replies(p) \o Replies(one)
    BY <1>1, <2>2, RepliesConcat
  <2>6. Replies(one) = Reply(x)
    BY RepliesOne
  <2> QED
    BY <2>4, <2>5, <2>6 DEF m, n
<1> HIDE DEF p, q
<1>3. Replies(p) \in Units /\ Replies(q) \in Units /\ Replies(s) = Replies(p) \o Replies(q)
  BY <1>1, RepliesConcat
<1> QED
  BY <1>2, <1>3 DEF p, q

------------------------------------------------------------------------------
(* The invariant of a polite peer.                                         *)
PolitePeer == Polite /\ ~SplitAnywhere /\ ~PeerMayLeave /\ PlainTraffics /\ KnownVerbs

Sent == Len(script) - Len(toSend)
ReadCount == Sent - (IF inbox = <<>> THEN 0 ELSE 1)

(* The peer sends whole requests, each when nothing is left of the others. *)
PeerInv ==
  /\ script \in Seq(Requests)
  /\ \A i \in 1..Len(script) : PlainRequest(script[i]) /\ script[i].method \in Verbs
  /\ peer = "open" /\ cut = 0
  /\ Sent \in 0..Len(script) /\ toSend = SubSeq(script, Sent + 1, Len(script))
  /\ inbox # <<>> =>
       Sent > 0 /\ inbox = Encode(script[Sent]) /\ outbox = <<>> /\ http.out = <<>>

(* What has been read has been answered, and is forgotten but for the wish *)
(* to be kept alive.                                                       *)
AnswerInv ==
  /\ Delivered \o http.out = Replies(ReadSoFar)
  /\ http.keepAlive <=> \E i \in 1..ReadCount : script[i].keep
  /\ http.in = <<>>
  /\ pc # "flush" /\ ~http.error => Fresh(http)
  /\ http.error => /\ pc \in {"flush", "conn", "closed"} /\ http.out = <<>>
                   /\ ReadCount > 0 /\ Reply(script[ReadCount]) = <<Complaint("404")>>

(* handleEvent goes one of two ways, from a request read to its output, or *)
(* on with the output left over.                                           *)
TurnInv ==
  /\ pc # "closed" => Connected
  /\ pc = "idle" /\ interest = {"OUT", "ET"} => http.out # <<>>
  /\ pc = "read" => inbox # <<>>
  /\ pc = "flush" => http.state = "FINISH" \/ http.error
  /\ pc \in {"flush", "write", "conn", "closed"} => ReadCount > 0
  /\ pc \in {"read", "flush"} => revents = {"IN"}
  /\ pc = "write" => revents = {"OUT"}
  /\ pc \in {"read", "flush", "write"} => events = {}
  /\ pc = "conn" => events = IF http.out = <<>> THEN {} ELSE {"OUT"}
  /\ pc = "closed" => http.out = <<>> /\ (~http.error => ~http.keepAlive)

PoliteInv == PeerInv /\ AnswerInv /\ TurnInv

LEMMA ReadIsPrefix == ReadSoFar = SubSeq(script, 1, ReadCount)
  BY DEF ReadSoFar, ReadCount, Sent

(* How many requests have been read.                                       *)
LEMMA Counts ==
  ASSUME PeerInv
  PROVE  /\ ReadCount \in 0..Len(script) /\ Len(script) \in Nat /\ Sent \in Nat
         /\ inbox = <<>> => ReadCount = Sent
         /\ inbox # <<>> => ReadCount = Sent - 1
<1>1. Len(script) \in Nat /\ Sent \in 0..Len(script) /\ (inbox # <<>> => Sent > 0)
  BY DEF PeerInv
<1> HIDE DEF Sent
<1> QED
  BY <1>1 DEF ReadCount

LEMMA SameCounts ==
  ASSUME UNCHANGED <<script, toSend, inbox>>
  PROVE  Sent' = Sent /\ ReadCount' = ReadCount /\ ReadSoFar' = ReadSoFar
  BY DEF Sent, ReadCount, ReadSoFar

LEMMA InitPoliteInv == Init /\ PolitePeer => PoliteInv
<1> SUFFICES ASSUME Init, PolitePeer PROVE PoliteInv
  OBVIOUS
<1>1. /\ script \in Traffics /\ toSend = script /\ cut = 0 /\ peer = "open"
      /\ inbox = <<>> /\ outbox = <<>> /\ got = <<>> /\ pc = "idle"
      /\ interest = DEFAULT_EVENT
  BY DEF Init
<1>2. /\ http.in = <<>> /\ http.out = <<>> /\ ~http.error /\ http.connectionState = "CONNECTED"
      /\ Fresh(http) /\ ~http.keepAlive
  BY DEF Init, Fresh
<1>3. /\ script \in Seq(Requests)
      /\ \A i \in DOMAIN script : PlainRequest(script[i]) /\ script[i].method \in Verbs
  BY <1>1, ConnectionAssumption DEF PolitePeer, PlainTraffics, KnownVerbs, Requests, Verbs
<1>4. Len(script) \in Nat /\ DOMAIN script = 1..Len(script)
  BY <1>3
<1>5. Sent = 0 /\ ReadCount = 0
  BY <1>1, <1>4 DEF Sent, ReadCount
<1>6. SubSeq(script, 1, Len(script)) = script
  BY <1>3, SubSeqFull
<1>7. PeerInv
  <2>1. toSend = SubSeq(script, Sent + 1, Len(script)) /\ Sent \in 0..Len(script)
    BY <1>1, <1>4, <1>5, <1>6
  <2> QED
    BY <1>1, <1>3, <1>4, <2>1 DEF PeerInv
<1>8. AnswerInv
  <2>1. ReadSoFar = <<>>
    BY <1>3, <1>5, ReadIsPrefix, SubSeqEmpty
  <2>2. Delivered \o http.out = <<>>
    BY <1>1, <1>2, ConcatEmptySeq, EmptySeq DEF Delivered
  <2>3. ~\E i \in 1..ReadCount : script[i].keep
    BY <1>5
  <2> QED
    BY <1>2, <2>1, <2>2, <2>3, RepliesNone DEF AnswerInv
<1>9. TurnInv
  BY <1>1, <1>2, MaskFacts DEF TurnInv, Connected
<1> QED
  BY <1>7, <1>8, <1>9 DEF PoliteInv

(* A polite peer's invariant is its request's: Delivered and the rest.     *)
LEMMA PoliteUnits ==
  ASSUME OInv
  PROVE  /\ got \in Units /\ outbox \in Units /\ http.out \in Units /\ Delivered \in Units
         /\ Delivered \o http.out = got \o (outbox \o http.out)
         /\ DOMAIN http = Fields
<1>1. got \in Units /\ outbox \in Units /\ http.out \in Units /\ Delivered \in Units
  BY DeliveredUnits DEF OInv, OutputInv
<1>2. (got \o outbox) \o http.out = got \o (outbox \o http.out)
  BY <1>1, UnitsConcat
<1> QED
  BY <1>1, <1>2 DEF Delivered, OInv, ShapeInv, HttpShape

------------------------------------------------------------------------------
(* The next request is sent when all answers have arrived.                 *)
LEMMA AllAnswered ==
  ASSUME OInv, PoliteInv, PolitePeer, Send
  PROVE  inbox = <<>> /\ outbox = <<>> /\ http.out = <<>>
<1>1. inbox = <<>> /\ Len(got) = Len(Replies(script)) - Len(Replies(toSend))
  BY DEF Send, PolitePeer, PoliteInv, PeerInv
<1>2. script \in Seq(Requests) /\ Sent \in 0..Len(script) /\ toSend = SubSeq(script, Sent + 1, Len(script))
  BY DEF PoliteInv, PeerInv
<1>3. ReadSoFar = SubSeq(script, 1, Sent)
  BY <1>1, Counts, ReadIsPrefix DEF PoliteInv
<1> DEFINE k == Sent
           p == Replies(SubSeq(script, 1, k))
           q == Replies(SubSeq(script, k + 1, Len(script)))
           all == Replies(script)
           s == outbox \o http.out
<1> HIDE DEF k
<1>4. p \in Units /\ q \in Units /\ all = p \o q
  BY <1>2, RepliesNext DEF k
<1>5. got \in Units /\ outbox \in Units /\ http.out \in Units /\ Delivered \o http.out = got \o s
  BY PoliteUnits
<1>6. got \o s = p
  BY <1>3, <1>5 DEF PoliteInv, AnswerInv, k
<1>7. Len(got) = Len(all) - Len(q)
  BY <1>1, <1>2 DEF k
<1>8. s \in Units /\ Len(s) = Len(outbox) + Len(http.out)
  BY <1>5, ConcatProperties DEF Units
<1> HIDE DEF p, q, s, all
<1>9. Len(all) = Len(p) + Len(q) /\ Len(p) \in Nat /\ Len(q) \in Nat
  BY <1>4, ConcatProperties, LenProperties DEF Units
<1>10. Len(p) = Len(got) + Len(s) /\ Len(got) \in Nat /\ Len(s) \in Nat
  BY <1>5, <1>6, <1>8, ConcatProperties, LenProperties DEF Units
<1>11. Len(outbox) \in Nat /\ Len(http.out) \in Nat
  BY <1>5, LenProperties DEF Units
<1>12. Len(outbox) = 0 /\ Len(http.out) = 0
  BY <1>7, <1>8, <1>9, <1>10, <1>11
<1> QED
  BY <1>1, <1>5, <1>12, EmptySeq DEF Units

LEMMA SendPolite == ASSUME OInv, PoliteInv, PolitePeer, Send PROVE PoliteInv'
<1> DEFINE k == Sent
           r == Head(toSend)
           E == Encode(r)
<1>1. /\ script \in Seq(Requests) /\ k \in 0..Len(script) /\ Len(script) \in Nat
      /\ toSend = SubSeq(script, k + 1, Len(script)) /\ toSend # <<>> /\ cut = 0
  <2>1. PeerInv /\ toSend # <<>>
    BY DEF PoliteInv, Send
  <2>2. Len(script) \in Nat
    BY <2>1, Counts
  <2> QED
    BY <2>1, <2>2 DEF PeerInv
<1>2. inbox = <<>> /\ outbox = <<>> /\ http.out = <<>>
  BY AllAnswered
<1>3. /\ UNCHANGED <<script, peer, outbox, got, interest, http, pc, events, lastEvents, revents>>
      /\ pc # "closed"
  BY DEF Send, channelVars
<1>4. k < Len(script) /\ r = script[k + 1] /\ Tail(toSend) = SubSeq(script, k + 2, Len(script))
      /\ r \in Requests /\ Len(Tail(toSend)) = Len(toSend) - 1 /\ Len(toSend) \in Nat
  <2> HIDE DEF k
  <2>1. k # Len(script)
    BY <1>1, SubSeqEmpty
  <2>2. toSend \in Seq(Requests) /\ Len(toSend) = Len(script) - k
        /\ \A i \in 1..(Len(script) - k) : toSend[i] = script[k + i]
    <3>1. \A i \in (k + 1)..Len(script) : script[i] \in Requests
      BY <1>1
    <3> QED
      BY <1>1, <2>1, <3>1, SubSeqProperties
  <2>3. Tail(toSend) \in Seq(Requests) /\ Len(Tail(toSend)) = Len(toSend) - 1
        /\ \A i \in 1..Len(Tail(toSend)) : Tail(toSend)[i] = toSend[i + 1]
        /\ Head(toSend) = toSend[1] /\ Head(toSend) \in Requests
    BY <1>1, <2>2, HeadTailProperties
  <2>4. SubSeq(script, k + 2, Len(script)) \in Seq(Requests)
        /\ Len(SubSeq(script, k + 2, Len(script))) = Len(script) - k - 1
        /\ \A i \in 1..(Len(script) - k - 1) : SubSeq(script, k + 2, Len(script))[i] = script[k + 1 + i]
    <3>1. \A i \in (k + 2)..Len(script) : script[i] \in Requests
      BY <1>1
    <3>2. CASE k + 2 <= Len(script) + 1
      BY <1>1, <2>1, <3>1, <3>2, SubSeqProperties
    <3> QED
      BY <1>1, <2>1, <3>2
  <2>5. k < Len(script) /\ Len(toSend) \in Nat /\ Len(Tail(toSend)) = Len(script) - k - 1
    BY <1>1, <2>1, <2>2, <2>3
  <2>6. ASSUME NEW i \in 1..Len(Tail(toSend))
        PROVE  Tail(toSend)[i] = SubSeq(script, k + 2, Len(script))[i]
    <3>1. i + 1 \in 1..(Len(script) - k) /\ i \in 1..(Len(script) - k - 1) /\ k + (i + 1) = k + 1 + i
      BY <1>1, <2>5
    <3> QED
      BY <2>2, <2>3, <2>4, <3>1
  <2> DEFINE rest == SubSeq(script, k + 2, Len(script))
             tail == Tail(toSend)
  <2>7. /\ tail \in Seq(Requests) /\ rest \in Seq(Requests) /\ Len(tail) = Len(rest)
        /\ \A i \in 1..Len(tail) : tail[i] = rest[i]
    BY <2>3, <2>4, <2>5, <2>6
  <2>8. r = script[k + 1]
    BY <1>1, <2>2, <2>3, <2>5
  <2> HIDE DEF rest, tail, r
  <2>9. tail = rest
    BY <2>7, SeqEqual
  <2>10. Tail(toSend) = SubSeq(script, k + 2, Len(script))
    BY <2>9 DEF rest, tail
  <2>11. r \in Requests
    BY <2>3 DEF r
  <2> QED
    BY <2>3, <2>5, <2>8, <2>10, <2>11
<1>5. E \in Text /\ Len(E) \in Nat \ {0}
  BY <1>4, RequestIsText
<1>6. inbox' = E /\ toSend' = Tail(toSend) /\ cut' = 0
  <2> HIDE DEF r, E
  <2>1. SegmentLengths = {Len(E)}
    BY <1>1, <1>5 DEF SegmentLengths, PolitePeer, r, E
  <2>2. /\ inbox' = inbox \o SubSeq(E, cut + 1, cut + Len(E))
        /\ IF cut + Len(E) = Len(E) THEN toSend' = Tail(toSend) /\ cut' = 0
           ELSE toSend' = toSend /\ cut' = cut + Len(E)
    BY <2>1 DEF Send, r, E
  <2>3. SubSeq(E, 1, Len(E)) = E /\ <<>> \o E = E
    BY <1>5, SubSeqFull, ConcatEmptySeq DEF Text
  <2>4. cut + 1 = 1 /\ cut + Len(E) = Len(E)
    BY <1>1, <1>5
  <2> QED
    BY <1>2, <2>2, <2>3, <2>4
<1>7. inbox' # <<>>
  BY <1>5, <1>6
<1>8. Sent' = k + 1
  <2>1. Sent' = Len(script) - Len(toSend')
    BY <1>3 DEF Sent
  <2>2. k = Len(script) - Len(toSend)
    BY DEF Sent
  <2>3. Len(toSend') = Len(toSend) - 1 /\ Len(toSend) \in Nat
    BY <1>4, <1>6
  <2> HIDE DEF k, r, E
  <2> QED
    BY <1>1, <2>1, <2>2, <2>3
<1>9. ReadCount' = k /\ ReadCount = k
  <2>1. ReadCount' = Sent' - 1
    BY <1>7 DEF ReadCount
  <2> QED
    BY <1>1, <1>2, <1>8, <2>1, Counts DEF PoliteInv
<1>10. ReadSoFar' = ReadSoFar
  <2>1. ReadSoFar' = SubSeq(script', 1, ReadCount') /\ ReadSoFar = SubSeq(script, 1, ReadCount)
    BY DEF ReadSoFar, ReadCount, Sent
  <2> QED
    BY <1>3, <1>9, <2>1
<1> HIDE DEF k, r, E
<1>11. PeerInv'
  <2>1. Sent' \in 0..Len(script') /\ toSend' = SubSeq(script', Sent' + 1, Len(script'))
    BY <1>1, <1>3, <1>4, <1>6, <1>8
  <2>2. Sent' > 0 /\ inbox' = Encode(script'[Sent'])
    BY <1>1, <1>3, <1>4, <1>6, <1>8 DEF E
  <2>3. peer' = "open" /\ cut' = 0 /\ outbox' = <<>> /\ http'.out = <<>>
    BY <1>2, <1>3, <1>6 DEF PoliteInv, PeerInv
  <2> QED
    BY <1>3, <2>1, <2>2, <2>3 DEF PoliteInv, PeerInv
<1>12. AnswerInv'
  BY <1>3, <1>9, <1>10 DEF PoliteInv, AnswerInv, Delivered
<1>13. TurnInv'
  BY <1>3, <1>7, <1>9 DEF PoliteInv, TurnInv, Connected
<1> QED
  BY <1>11, <1>12, <1>13 DEF PoliteInv

(* What the peer takes from the socket it has.                             *)
LEMMA ReceivePolite == ASSUME OInv, PoliteInv, Receive PROVE PoliteInv'
<1>1. /\ outbox # <<>> /\ got' = Append(got, Head(outbox)) /\ outbox' = Tail(outbox)
      /\ UNCHANGED <<script, toSend, cut, peer, inbox, interest, http, pc, events, lastEvents, revents>>
  BY DEF Receive, channelVars
<1>2. Sent' = Sent /\ ReadCount' = ReadCount /\ ReadSoFar' = ReadSoFar
  BY <1>1, SameCounts
<1>3. Delivered' = Delivered
  <2>1. got \in Seq(Unit) /\ outbox \in Seq(Unit)
    BY PoliteUnits DEF Units
  <2> QED
    BY <1>1, <2>1, MoveHead DEF Delivered
<1>4. inbox = <<>>
  BY <1>1 DEF PoliteInv, PeerInv
<1>5. PeerInv'
  BY <1>1, <1>2, <1>4 DEF PoliteInv, PeerInv
<1>6. AnswerInv'
  BY <1>1, <1>2, <1>3 DEF PoliteInv, AnswerInv
<1>7. TurnInv'
  BY <1>1, <1>2 DEF PoliteInv, TurnInv, Connected
<1> QED
  BY <1>5, <1>6, <1>7 DEF PoliteInv

(* Only a connection with output left is entered without a request read.   *)
LEMMA OutputMeansRead ==
  ASSUME OInv, PoliteInv, http.out # <<>>
  PROVE  ReadCount > 0
<1>1. Delivered \in Units /\ http.out \in Units /\ Delivered \o http.out = Replies(ReadSoFar)
  BY PoliteUnits DEF PoliteInv, AnswerInv
<1>2. Delivered \o http.out # <<>>
  <2>1. Len(Delivered \o http.out) = Len(Delivered) + Len(http.out) /\ Len(Delivered) \in Nat
        /\ Len(http.out) \in Nat \ {0} /\ Delivered \o http.out \in Units
    BY <1>1, ConcatProperties, LenProperties, EmptySeq DEF Units
  <2> HIDE DEF Delivered
  <2> QED
    BY <2>1, EmptySeq DEF Units
<1>3. ReadCount # 0
  <2>1. SubSeq(script, 1, 0) = <<>>
    BY SubSeqEmpty DEF PoliteInv, PeerInv
  <2>2. ReadSoFar # <<>>
    BY <1>1, <1>2, RepliesNone
  <2> QED
    BY <2>1, <2>2, ReadIsPrefix
<1> QED
  BY <1>3, Counts DEF PoliteInv

------------------------------------------------------------------------------
(* Epoll::poll.                                                            *)
LEMMA PollPolite == ASSUME CInv, OInv, PoliteInv, Poll PROVE PoliteInv'
<1>1. /\ pc = "idle" /\ peer = "open" /\ Connected /\ ~http.error
      /\ UNCHANGED <<script, toSend, cut, peer, got, inbox, outbox, http>>
  BY DEF Poll, peerVars, PoliteInv, PeerInv, TurnInv, OInv, OutputInv
<1>2. Sent' = Sent /\ ReadCount' = ReadCount /\ ReadSoFar' = ReadSoFar
  BY <1>1, SameCounts
<1>3. interest \in Masks
  BY <1>1 DEF CInv, MaskInv
<1> DEFINE reported == Reportable(interest)
<1>4. /\ reported \subseteq {"IN", "OUT"}
      /\ "IN" \in reported => "IN" \in interest /\ inbox # <<>>
      /\ "OUT" \in reported => "OUT" \in interest
  BY <1>1, <1>3 DEF Reportable, InputReady, Masks, DEFAULT_EVENT
<1>5. PeerInv'
  BY <1>1, <1>2 DEF PoliteInv, PeerInv
<1>6. pc' # "flush" /\ pc' \in {"idle", "read", "write"}
  <2>1. \A S : FirstHandler(S) \in {"read", "write", "conn"} /\ (FirstHandler(S) = "conn" => "IN" \notin S /\ "OUT" \notin S)
    BY DEF FirstHandler, AfterRead
  <2> HIDE DEF reported
  <2>2. reported = {} => pc' = "idle"
    BY <1>1 DEF Poll, reported
  <2>3. reported # {} => pc' = "idle" \/ pc' = FirstHandler(reported)
    BY DEF Poll, reported
  <2> QED
    BY <1>4, <2>1, <2>2, <2>3
<1>7. AnswerInv'
  BY <1>1, <1>2, <1>6 DEF PoliteInv, AnswerInv, Delivered
<1>9. ASSUME reported # {} PROVE TurnInv'
  <2>1. /\ events' = {} /\ revents' = reported /\ pc' = FirstHandler(reported)
    BY <1>4, <1>9 DEF Poll, Ignored
  <2>2. CASE "IN" \in reported
    <3>1. interest # {"OUT", "ET"}
      BY <1>4, <2>2
    <3>2. interest = {"IN", "ET"} \/ interest = DEFAULT_EVENT
      BY <1>3, <3>1 DEF Masks
    <3>3. "OUT" \notin reported
      BY <1>4, <3>2, MaskFacts
    <3>4. reported = {"IN"} /\ pc' = "read"
      BY <1>4, <2>1, <2>2, <3>3 DEF FirstHandler
    <3>5. inbox # <<>>
      BY <1>4, <2>2
    <3> HIDE DEF reported
    <3> QED
      BY <1>1, <1>2, <2>1, <3>4, <3>5 DEF PoliteInv, TurnInv, Connected
  <2>3. CASE "IN" \notin reported
    <3>1. reported = {"OUT"} /\ "OUT" \in interest
      BY <1>4, <1>9, <2>3
    <3>2. interest = {"OUT", "ET"}
      BY <1>3, <3>1, MaskFacts DEF Masks
    <3>3. http.out # <<>>
      BY <1>1, <3>2 DEF PoliteInv, TurnInv
    <3>4. ReadCount > 0
      BY <3>3, OutputMeansRead
    <3>5. pc' = "write"
      BY <2>1, <3>1 DEF FirstHandler, AfterRead
    <3> HIDE DEF reported
    <3> QED
      BY <1>1, <1>2, <2>1, <3>1, <3>4, <3>5 DEF PoliteInv, TurnInv, Connected
  <2> QED
    BY <2>2, <2>3
<1>10. TurnInv'
  <2>1. CASE reported = {}
    BY <1>1, <1>2, <2>1 DEF Poll, PoliteInv, TurnInv, Connected
  <2>2. CASE reported # {}
    BY <1>9, <2>2
  <2> QED
    BY <2>1, <2>2
<1> QED
  BY <1>5, <1>7, <1>10 DEF PoliteInv

------------------------------------------------------------------------------
(* handleRead: the socket holds one whole request, and nothing else is on  *)
(* its way to the peer.                                                    *)
LEMMA ReadTakes ==
  ASSUME OInv, PoliteInv, Read
  PROVE  /\ Sent > 0 /\ ReadCount = Sent - 1 /\ Sent \in 1..Len(script)
         /\ outbox = <<>> /\ http.out = <<>> /\ inbox' = <<>> /\ pc' = "flush"
         /\ DOMAIN http' = Fields /\ http'.in = <<>> /\ http'.connectionState = "CONNECTED"
         /\ http'.keepAlive = (http.keepAlive \/ script[Sent].keep)
         /\ \/ /\ http'.state = "FINISH" /\ http'.out = Reply(script[Sent]) /\ ~http'.error
               /\ outbox' = outbox
            \/ /\ http'.error /\ http'.out = <<>> /\ outbox' = <<Complaint("404")>>
               /\ Reply(script[Sent]) = <<Complaint("404")>>
<1> DEFINE k == Sent
           r == script[k]
           f == [http EXCEPT !.in = @ \o inbox, !.connectionState = @]
<1>1. /\ pc = "read" /\ inbox # <<>> /\ peer = "open" /\ Connected /\ ~http.error
      /\ http.complaint = "none"
  BY DEF Read, PoliteInv, PeerInv, TurnInv, OInv, OutputInv
<1>2. /\ k > 0 /\ k \in 1..Len(script) /\ inbox = Encode(r) /\ outbox = <<>> /\ http.out = <<>>
      /\ r \in Requests /\ PlainRequest(r) /\ r.method \in Verbs
  BY <1>1 DEF PoliteInv, PeerInv
<1>3. ReadCount = k - 1
  BY <1>1, Counts DEF PoliteInv
<1>4. http.in = <<>> /\ Fresh(http) /\ DOMAIN http = Fields
  BY <1>1, PoliteUnits DEF PoliteInv, AnswerInv
<1>5. <<>> \o inbox = inbox
  BY <1>2, RequestIsText, ConcatEmptySeq DEF Text
<1>6. /\ DOMAIN f = Fields /\ f.in = Encode(r) /\ Fresh(f) /\ f.out = <<>> /\ ~f.error
      /\ f.keepAlive = http.keepAlive /\ f.connectionState = "CONNECTED" /\ f.complaint = "none"
  BY <1>1, <1>2, <1>4, <1>5 DEF Fields, Fresh, Connected
<1>7. AfterReadn(http, inbox, FALSE, FALSE) = Parse(f)
  BY <1>1 DEF AfterReadn, Connected
<1>8. /\ http' = Parse(f)
      /\ outbox' = IF http'.complaint = "none" THEN outbox ELSE HandleError(http'.complaint)
      /\ inbox' = <<>> /\ pc' = "flush"
  BY <1>1, <1>7 DEF Read
<1> HIDE DEF f, r
<1>9. Taken(f, http', r)
  BY <1>2, <1>6, <1>8, WholeRequest
<1>10. /\ DOMAIN http' = Fields /\ http'.in = <<>> /\ http'.connectionState = "CONNECTED"
       /\ http'.keepAlive = (http.keepAlive \/ r.keep)
  BY <1>6, <1>9 DEF Taken
<1>11. CASE http'.state = "FINISH" /\ http'.out = f.out \o Reply(r)
            /\ http'.error = f.error /\ http'.complaint = f.complaint
  <2>1. <<>> \o Reply(r) = Reply(r)
    BY ReplyUnit, ConcatEmptySeq DEF Units
  <2>2. http'.out = Reply(r) /\ ~http'.error /\ outbox' = outbox
    BY <1>6, <1>8, <1>11, <2>1
  <2> QED
    BY <1>2, <1>3, <1>8, <1>10, <1>11, <2>2 DEF r
<1>12. CASE http'.error /\ http'.complaint = "404"
            /\ http'.out \in {f.out, <<>>} /\ Reply(r) = <<Complaint("404")>>
  <2>1. outbox' = Append(<<>>, Complaint("404"))
    BY <1>1, <1>2, <1>8, <1>12, ConnectionAssumption DEF HandleError
  <2>2. outbox' = <<Complaint("404")>> /\ http'.out = <<>>
    BY <1>6, <1>12, <2>1
  <2> QED
    BY <1>2, <1>3, <1>8, <1>10, <1>12, <2>2 DEF r
<1> QED
  BY <1>9, <1>11, <1>12 DEF Taken

LEMMA ReadPolite == ASSUME OInv, PoliteInv, Read PROVE PoliteInv'
<1> DEFINE k == Sent
           r == script[k]
<1>1. /\ UNCHANGED <<script, toSend, cut, peer, got, interest, events, lastEvents, revents>>
      /\ pc = "read"
  BY DEF Read, peerVars, channelVars
<1>2. /\ k > 0 /\ ReadCount = k - 1 /\ k \in 1..Len(script) /\ Len(script) \in Nat
      /\ outbox = <<>> /\ http.out = <<>> /\ inbox' = <<>> /\ pc' = "flush"
      /\ DOMAIN http' = Fields /\ http'.in = <<>> /\ http'.connectionState = "CONNECTED"
      /\ http'.keepAlive = (http.keepAlive \/ r.keep)
  BY ReadTakes, Counts DEF PoliteInv
<1>3. \/ /\ http'.state = "FINISH" /\ http'.out = Reply(r) /\ ~http'.error /\ outbox' = <<>>
      \/ /\ http'.error /\ http'.out = <<>> /\ outbox' = <<Complaint("404")>>
         /\ Reply(r) = <<Complaint("404")>>
  BY ReadTakes
<1>4. Sent' = k /\ ReadCount' = k
  <2>1. Sent' = k
    BY <1>1 DEF Sent
  <2> HIDE DEF k
  <2> QED
    BY <1>2, <2>1 DEF ReadCount
<1>5. ReadSoFar' = SubSeq(script, 1, k)
  <2>1. ReadSoFar' = SubSeq(script', 1, ReadCount')
    BY DEF ReadSoFar, ReadCount, Sent
  <2> QED
    BY <1>1, <1>4, <2>1
<1> HIDE DEF k
<1>6. Replies(ReadSoFar)' = Replies(ReadSoFar) \o Reply(r) /\ script \in Seq(Requests)
  <2> DEFINE n == k - 1
  <2>1. script \in Seq(Requests) /\ n \in 0..Len(script) /\ n < Len(script) /\ n + 1 = k
    BY <1>2 DEF PoliteInv, PeerInv
  <2>2. ReadSoFar = SubSeq(script, 1, n)
    BY <1>2, ReadIsPrefix
  <2> HIDE DEF n
  <2>3. Replies(SubSeq(script, 1, n + 1)) = Replies(SubSeq(script, 1, n)) \o Reply(script[n + 1])
    BY <2>1, RepliesNext
  <2>4. Replies(ReadSoFar)' = Replies(ReadSoFar')
    BY DEF Replies
  <2> QED
    BY <1>5, <2>1, <2>2, <2>3, <2>4
<1>7. (Delivered \o http.out)' = Replies(ReadSoFar)'
  <2> DEFINE c == <<Complaint("404")>>
             u == Reply(r)
  <2>1. got \in Units /\ u \in Units /\ got \o <<>> = got /\ u \o <<>> = u /\ <<>> \o u = u
    BY PoliteUnits, ReplyUnit, ConcatEmptySeq DEF Units
  <2>2. Replies(ReadSoFar) = got
    BY <1>2, <2>1 DEF PoliteInv, AnswerInv, Delivered
  <2>3. got \o u \in Units /\ (got \o u) \o <<>> = got \o u
    <3>1. got \o u \in Units
      BY <2>1, UnitsConcat
    <3> QED
      BY <3>1, ConcatEmptySeq DEF Units
  <2>4. (Delivered \o http.out)' = (got \o outbox') \o http'.out
    BY <1>1 DEF Delivered
  <2> HIDE DEF u
  <2>5. CASE http'.out = u /\ outbox' = <<>>
    BY <1>6, <2>1, <2>2, <2>4, <2>5 DEF u
  <2>6. CASE http'.out = <<>> /\ outbox' = u
    BY <1>6, <2>2, <2>3, <2>4, <2>6 DEF u
  <2> QED
    BY <1>3, <2>5, <2>6 DEF u
<1>8. http'.keepAlive <=> \E i \in 1..ReadCount' : script'[i].keep
  <2>1. http.keepAlive <=> \E i \in 1..(k - 1) : script[i].keep
    BY <1>2 DEF PoliteInv, AnswerInv
  <2>2. 1..k = 1..(k - 1) \cup {k}
    BY <1>2
  <2>3. (\E i \in 1..k : script[i].keep) <=> (\E i \in 1..(k - 1) : script[i].keep) \/ script[k].keep
    BY <2>2
  <2> QED
    BY <1>1, <1>2, <1>4, <2>1, <2>3
<1> HIDE DEF r
<1>9. PeerInv'
  BY <1>1, <1>2, <1>4, <1>6 DEF PoliteInv, PeerInv, k
<1>10. AnswerInv'
  <2>1. http'.error => http'.out = <<>> /\ Reply(script'[ReadCount']) = <<Complaint("404")>> /\ ReadCount' > 0
    BY <1>1, <1>2, <1>3, <1>4 DEF r
  <2> QED
    BY <1>2, <1>7, <1>8, <2>1 DEF AnswerInv
<1>11. TurnInv'
  <2>1. ReadCount' > 0 /\ (http'.state = "FINISH" \/ http'.error)
    BY <1>2, <1>3, <1>4
  <2> QED
    BY <1>1, <1>2, <2>1 DEF PoliteInv, TurnInv, Connected
<1> QED
  BY <1>9, <1>10, <1>11 DEF PoliteInv

------------------------------------------------------------------------------
(* handleWrite moves output from outBuffer_ to the socket.                 *)
LEMMA WriteMoves ==
  ASSUME OInv, PoliteInv, Flush \/ Write
  PROVE  /\ DOMAIN http' = Fields /\ http'.in = <<>> /\ http'.error = http.error
         /\ http'.connectionState = http.connectionState /\ http'.keepAlive = http.keepAlive
         /\ Delivered' \o http'.out = Delivered \o http.out
         /\ http.out = <<>> => http'.out = <<>> /\ outbox' = outbox
         /\ events = {} => EventsAfterWrite(http, events) =
                             IF ~http.error /\ http'.out # <<>> THEN {"OUT"} ELSE {}
<1> DEFINE w == HandleWrite(http)
           n == Written(http)
           p == SubSeq(http.out, 1, n)
           q == SubSeq(http.out, n + 1, Len(http.out))
<1>1. /\ peer = "open" /\ http.in = <<>> /\ DOMAIN http = Fields /\ got' = got
      /\ http.error \in BOOLEAN
  BY PoliteUnits DEF PoliteInv, PeerInv, AnswerInv, Flush, Write, peerVars, OInv, ShapeInv, HttpShape
<1>2. n \in 0..Len(http.out)
  BY WrittenBounds DEF OInv, ShapeInv
<1>3. ~WriteFails(http)
  BY <1>1 DEF WriteFails
<1>4. /\ DOMAIN w = Fields /\ w.in = <<>> /\ w.error = http.error /\ w.out = q
      /\ w.connectionState = http.connectionState /\ w.keepAlive = http.keepAlive
  BY <1>1, <1>3 DEF HandleWrite, Fields
<1>5. http' = w \/ http' = ResetRequest(w)
  BY DEF Flush, Write
<1>6. outbox' = outbox \o p
  BY DEF Flush, Write, OutboxAfterWrite
<1>7. got \in Units /\ outbox \in Units /\ http.out \in Units /\ Delivered \in Units
  BY PoliteUnits
<1> HIDE DEF n
<1>8. p \in Units /\ q \in Units /\ p \o q = http.out
  BY <1>2, <1>7, SplitAt DEF Units
<1>9. http.out = <<>> => p = <<>> /\ q = <<>>
  <2>1. ASSUME http.out = <<>> PROVE n = 0
    BY <1>2, <2>1
  <2>2. SubSeq(<<>>, 1, 0) = <<>>
    OBVIOUS
  <2>3. Len(<<>>) = 0
    OBVIOUS
  <2>4. ASSUME http.out = <<>> PROVE p = <<>>
    BY <2>1, <2>2, <2>4
  <2>5. ASSUME http.out = <<>> PROVE q = <<>>
    <3>1. p \o q = q
      BY <1>8, <2>4, <2>5, ConcatEmptySeq DEF Units
    <3> QED
      BY <1>8, <2>5, <3>1
  <2> QED
    BY <2>4, <2>5
<1> HIDE DEF w, p, q
<1>10. /\ DOMAIN http' = Fields /\ http'.in = <<>> /\ http'.error = http.error
       /\ http'.connectionState = http.connectionState /\ http'.keepAlive = http.keepAlive
       /\ http'.out = q
  BY <1>4, <1>5 DEF ResetRequest, Fields
<1>11. Delivered' \o http'.out = Delivered \o http.out
  <2>1. Delivered' = got \o (outbox \o p)
    BY <1>1, <1>6 DEF Delivered
  <2> DEFINE Regroup == \A s, t, u \in Units : (s \o t) \o u = s \o (t \o u)
  <2>0. Regroup
    BY UnitsConcat
  <2>2. (got \o outbox) \o p = got \o (outbox \o p)
    <3>1. got \in Units /\ outbox \in Units /\ p \in Units
      BY <1>7, <1>8
    <3> QED
      BY <2>0, <3>1, Zenon
  <2>3. got \o (outbox \o p) = Delivered \o p
    BY <2>2 DEF Delivered
  <2>4. (Delivered \o p) \o q = Delivered \o (p \o q)
    <3>1. Delivered \in Units /\ p \in Units /\ q \in Units
      BY <1>7, <1>8
    <3> QED
      BY <2>0, <3>1, Zenon
  <2> QED
    BY <1>8, <1>10, <2>1, <2>3, <2>4
<1>12. http.out = <<>> => http'.out = <<>> /\ outbox' = outbox
  BY <1>6, <1>7, <1>9, <1>10, ConcatEmptySeq DEF Units
<1>13. events = {} => EventsAfterWrite(http, events) =
                        IF ~http.error /\ http'.out # <<>> THEN {"OUT"} ELSE {}
  BY <1>3, <1>4, <1>10 DEF EventsAfterWrite, w
<1> QED
  BY <1>10, <1>11, <1>12, <1>13

LEMMA FlushPolite == ASSUME OInv, PoliteInv, Flush \/ Write PROVE PoliteInv'
<1>1. /\ UNCHANGED <<script, toSend, cut, peer, got, inbox, interest, lastEvents, revents>>
      /\ pc \in {"flush", "write"} /\ events = {} /\ ReadCount > 0 /\ Connected
  BY DEF Flush, Write, peerVars, PoliteInv, TurnInv
<1>2. Sent' = Sent /\ ReadCount' = ReadCount /\ ReadSoFar' = ReadSoFar
  BY <1>1, SameCounts
<1>3. /\ DOMAIN http' = Fields /\ http'.in = <<>> /\ http'.error = http.error
      /\ http'.connectionState = "CONNECTED" /\ http'.keepAlive = http.keepAlive
      /\ Delivered' \o http'.out = Delivered \o http.out
      /\ http.out = <<>> => http'.out = <<>> /\ outbox' = outbox
      /\ EventsAfterWrite(http, events) = IF ~http.error /\ http'.out # <<>> THEN {"OUT"} ELSE {}
  BY <1>1, WriteMoves DEF Connected
<1>4. http.error => http.out = <<>> /\ pc = "flush"
  BY <1>1 DEF PoliteInv, AnswerInv
<1>5. EventsAfterWrite(http, events) = IF http'.out = <<>> THEN {} ELSE {"OUT"}
  BY <1>3, <1>4
<1>6. ASSUME Flush
      PROVE  /\ pc' = "conn" /\ events' = IF http'.out = <<>> THEN {} ELSE {"OUT"}
             /\ ~http'.error => Fresh(http')
  <2> DEFINE w == HandleWrite(http)
             finished == ~w.error /\ w.state = "FINISH"
  <2>1. pc = "flush" /\ revents = {"IN"} /\ (http.state = "FINISH" \/ http.error)
    BY <1>6 DEF Flush, PoliteInv, TurnInv
  <2>2. w.error = http.error /\ w.state = http.state /\ w.in = <<>> /\ DOMAIN w = Fields
    <3>1. ~WriteFails(http)
      BY DEF PoliteInv, PeerInv, WriteFails
    <3>2. http.in = <<>> /\ DOMAIN http = Fields /\ http.error \in BOOLEAN
      BY PoliteUnits DEF PoliteInv, AnswerInv, OInv, ShapeInv, HttpShape
    <3> QED
      BY <3>1, <3>2 DEF HandleWrite, Fields
  <2>3. /\ http' = IF finished THEN ResetRequest(w) ELSE w
        /\ events' = IF w.error \/ finished THEN EventsAfterWrite(http, events)
                     ELSE EventsAfterWrite(http, events) \cup {"IN"}
        /\ pc' = IF finished /\ w.in # <<>> /\ w.connectionState # "DISCONNECTING"
                 THEN "read" ELSE AfterRead(revents)
    BY <1>6 DEF Flush
  <2> HIDE DEF w
  <2>4. pc' = "conn"
    <3>1. AfterRead({"IN"}) = "conn"
      BY DEF AfterRead
    <3> QED
      BY <2>1, <2>2, <2>3, <3>1
  <2>5. events' = IF http'.out = <<>> THEN {} ELSE {"OUT"}
    BY <1>5, <2>1, <2>2, <2>3
  <2>6. ~http'.error => Fresh(http')
    <3>1. Fresh(ResetRequest(w))
      BY <2>2 DEF Fresh, ResetRequest, Fields
    <3> QED
      BY <1>3, <2>1, <2>2, <2>3, <3>1
  <2> QED
    BY <2>4, <2>5, <2>6
<1>7. ASSUME Write
      PROVE  /\ pc' = "conn" /\ events' = IF http'.out = <<>> THEN {} ELSE {"OUT"}
             /\ ~http'.error => Fresh(http')
  <2>1. pc = "write" /\ pc' = "conn" /\ events' = EventsAfterWrite(http, events)
        /\ http' = HandleWrite(http)
    BY <1>7 DEF Write
  <2>2. ~http.error /\ Fresh(http) /\ DOMAIN http = Fields
    BY <1>4, <2>1, PoliteUnits DEF PoliteInv, AnswerInv
  <2>3. Fresh(HandleWrite(http))
    BY <2>2 DEF Fresh, HandleWrite, Fields
  <2> QED
    BY <1>5, <2>1, <2>3
<1>8. /\ pc' = "conn" /\ events' = IF http'.out = <<>> THEN {} ELSE {"OUT"}
      /\ ~http'.error => Fresh(http')
  BY <1>6, <1>7
<1>9. PeerInv'
  BY <1>1, <1>2, <1>3 DEF PoliteInv, PeerInv
<1>10. AnswerInv'
  BY <1>1, <1>2, <1>3, <1>8 DEF PoliteInv, AnswerInv
<1>11. TurnInv'
  BY <1>1, <1>2, <1>3, <1>8 DEF TurnInv, Connected
<1> QED
  BY <1>9, <1>10, <1>11 DEF PoliteInv

(* handleConn.                                                             *)
LEMMA GoOnPolite == ASSUME CInv, OInv, PoliteInv, GoOn, MaskInv' PROVE PoliteInv'
<1>1. /\ UNCHANGED <<script, toSend, cut, peer, got, inbox, outbox, http>>
      /\ pc = "conn" /\ pc' = "idle" /\ ~http.error /\ Connected /\ Connected'
  BY DEF GoOn, peerVars, Connected
<1>2. Sent' = Sent /\ ReadCount' = ReadCount /\ ReadSoFar' = ReadSoFar
  BY <1>1, SameCounts
<1>3. interest' = Wanted(events)
  BY <1>1 DEF MaskInv, GoOn, EpollMod
<1>4. events = IF http.out = <<>> THEN {} ELSE {"OUT"}
  BY <1>1 DEF PoliteInv, TurnInv
<1>5. interest' = {"OUT", "ET"} => http.out # <<>>
  BY <1>3, <1>4, MaskFacts DEF Wanted
<1>6. PeerInv'
  BY <1>1, <1>2 DEF PoliteInv, PeerInv
<1>7. AnswerInv'
  BY <1>1, <1>2 DEF PoliteInv, AnswerInv, Delivered
<1>8. TurnInv'
  BY <1>1, <1>5 DEF TurnInv
<1> QED
  BY <1>6, <1>7, <1>8 DEF PoliteInv

LEMMA ClosePolite == ASSUME OInv, PoliteInv, Close PROVE PoliteInv'
<1>1. /\ UNCHANGED <<script, toSend, cut, peer, got, inbox, outbox>>
      /\ pc = "conn" /\ pc' = "closed" /\ Connected
      /\ http.error \/ (events = {} /\ ~http.keepAlive)
      /\ http' = [http EXCEPT !.connectionState = "DISCONNECTED"]
  BY DEF Close, peerVars, Connected, PoliteInv, TurnInv
<1>2. Sent' = Sent /\ ReadCount' = ReadCount /\ ReadSoFar' = ReadSoFar
  BY <1>1, SameCounts
<1>3. DOMAIN http = Fields
  BY PoliteUnits
<1>4. /\ http'.in = http.in /\ http'.out = http.out /\ http'.error = http.error
      /\ http'.state = http.state /\ http'.hState = http.hState /\ http'.headers = http.headers
      /\ http'.keepAlive = http.keepAlive
  BY <1>1, <1>3 DEF Fields
<1>5. events = {} => http.out = <<>>
  BY <1>1 DEF PoliteInv, TurnInv
<1>6. http'.out = <<>> /\ (~http'.error => ~http'.keepAlive) /\ ReadCount > 0
  BY <1>1, <1>4, <1>5 DEF PoliteInv, AnswerInv, TurnInv
<1>7. PeerInv'
  BY <1>1, <1>2, <1>4 DEF PoliteInv, PeerInv
<1>8. AnswerInv'
  BY <1>1, <1>2, <1>4 DEF PoliteInv, AnswerInv, Delivered, Fresh
<1>9. TurnInv'
  BY <1>1, <1>2, <1>6 DEF TurnInv
<1> QED
  BY <1>7, <1>8, <1>9 DEF PoliteInv

LEMMA PoliteStep ==
  ASSUME CInv, OInv, PoliteInv, PolitePeer, [Next]_vars, MaskInv'
  PROVE  PoliteInv'
<1>1. CASE Finish \/ Reset
  BY <1>1 DEF Finish, Reset, PolitePeer
<1>2. CASE AwaitOutput
  BY <1>2 DEF AwaitOutput, OwesOutput, PoliteInv, TurnInv, Connected
<1>3. CASE UNCHANGED vars
  <2>1. UNCHANGED <<script, toSend, cut, peer, inbox, outbox, got, interest, events, revents, http, pc>>
    BY <1>3 DEF vars
  <2>2. Sent' = Sent /\ ReadCount' = ReadCount /\ ReadSoFar' = ReadSoFar
    BY <2>1, SameCounts
  <2>3. PeerInv' /\ AnswerInv' /\ TurnInv'
    BY <2>1, <2>2 DEF PoliteInv, PeerInv, AnswerInv, TurnInv, Delivered, Connected
  <2> QED
    BY <2>3 DEF PoliteInv
<1> QED
  BY <1>1, <1>2, <1>3, SendPolite, ReceivePolite, PollPolite, ReadPolite, FlushPolite,
     GoOnPolite, ClosePolite DEF Next, ServerStep

LEMMA AnsweredFollows == ASSUME CInv, OInv, PoliteInv PROVE AnsweredSoFar
<1>1. got \o outbox \o http.out = Replies(ReadSoFar)
  BY DEF PoliteInv, AnswerInv, Delivered
<1>2. ASSUME pc = "idle", ~edge, outbox = <<>> PROVE http.out = <<>> /\ inbox = <<>>
  <2>1. Connected /\ peer = "open" /\ MaskInv /\ interest \in Masks
    BY <1>2 DEF PoliteInv, TurnInv, PeerInv, CInv, MaskInv
  <2>2. Reportable(interest) = {}
    BY <1>2, <2>1 DEF CInv, IdleInv
  <2>3. OutputReady
    BY <1>2, ConnectionAssumption DEF OutputReady
  <2>4. http.out = <<>>
    BY <1>2, <2>1, <2>2, <2>3, ReportNow DEF CInv, IdleInv
  <2>5. interest # {"OUT", "ET"}
    BY <1>2, <2>4 DEF PoliteInv, TurnInv
  <2>6. "IN" \in interest
    BY <2>1, <2>5, MaskFacts
  <2>7. ~InputReady
    BY <1>2, <2>1, <2>2, <2>6, ReportNow
  <2> QED
    BY <2>4, <2>7 DEF InputReady
<1>3. ASSUME pc = "closed"
      PROVE  /\ http.out = <<>> /\ ReadSoFar # <<>>
             /\ \/ Reply(Last(ReadSoFar)) = <<Complaint("404")>>
                \/ \A i \in DOMAIN ReadSoFar : ~ReadSoFar[i].keep
  <2>1. /\ http.out = <<>> /\ ReadCount > 0 /\ ReadCount \in 0..Len(script)
        /\ script \in Seq(Requests) /\ (~http.error => ~http.keepAlive)
    BY <1>3, Counts DEF PoliteInv, TurnInv, PeerInv
  <2>2. /\ ReadSoFar \in Seq(Requests) /\ Len(ReadSoFar) = ReadCount
        /\ \A i \in 1..ReadCount : ReadSoFar[i] = script[i]
    BY <2>1, ReadIsPrefix, PrefixProperties
  <2>3. ReadSoFar # <<>> /\ DOMAIN ReadSoFar = 1..ReadCount
    BY <2>1, <2>2
  <2>4. Last(ReadSoFar) = script[ReadCount]
    BY <2>1, <2>2 DEF Last
  <2>5. http.error => Reply(Last(ReadSoFar)) = <<Complaint("404")>>
    BY <2>4 DEF PoliteInv, AnswerInv
  <2>6. ~http.error => \A i \in DOMAIN ReadSoFar : ~ReadSoFar[i].keep
    BY <2>1, <2>2, <2>3 DEF PoliteInv, AnswerInv
  <2> QED
    BY <2>1, <2>3, <2>5, <2>6
<1> QED
  BY <1>1, <1>2, <1>3 DEF AnsweredSoFar

(* At every moment a peer that sends whole requests and waits for each     *)
(* answer has received, or is about to receive, exactly the replies to the *)
(* requests read so far; while the loop has nothing to do none of them is  *)
(* left over; and its connection is closed with the last reply given       *)
(* (handleRead, handleWrite, handleConn, the parser).                      *)
THEOREM PolitePeerIsAnswered == PolitePeer => (Spec => []AnsweredSoFar)
<1>1. Init => CInv /\ OutputInv
  BY InitCInv, InitOInv DEF OInv
<1>2. Init /\ PolitePeer => PoliteInv
  BY InitPoliteInv
<1>3. ASSUME PolitePeer, CInv, OutputInv, PoliteInv, [Next]_vars
      PROVE  (CInv /\ OutputInv /\ PoliteInv)'
  <2>1. CInv' /\ OutputInv'
    BY <1>3, ShapeStep, MaskStep, IdleStep, BusyStep, OutputStep DEF CInv, OInv
  <2>2. PoliteInv'
    BY <1>3, <2>1, PoliteStep DEF OInv, CInv
  <2> QED
    BY <2>1, <2>2
<1>4. CInv /\ OutputInv /\ PoliteInv => AnsweredSoFar
  BY AnsweredFollows DEF OInv, CInv
<1> SUFFICES ASSUME PolitePeer PROVE Spec => []AnsweredSoFar
  OBVIOUS
<1>5. Init => CInv /\ OutputInv /\ PoliteInv
  BY <1>1, <1>2
<1>6. CInv /\ OutputInv /\ PoliteInv /\ [Next]_vars => (CInv /\ OutputInv /\ PoliteInv)'
  BY <1>3
<1> QED
  BY <1>4, <1>5, <1>6, PTL DEF Spec
==============================================================================
