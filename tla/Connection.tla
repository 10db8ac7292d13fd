----------------------------- MODULE Connection ------------------------------
(***************************************************************************)
(* One connection: HttpData's handlers, its Channel, its entry in Epoll,   *)
(* the socket and the peer.                                                *)
(*                                                                         *)
(* handleEvent calls handleRead, handleWrite and handleConn as the         *)
(* reported events demand; the peer may send, read, finish or reset        *)
(* between any two of their system calls.  The functors runInLoop is given *)
(* here run at once, for they are handed over on the loop's own thread.    *)
(* add_timer queues nothing, so timer_ never refers to a timer and         *)
(* seperateTimer does nothing.                                             *)
(***************************************************************************)
EXTENDS Naturals, Sequences, FiniteSets, HttpParser

CONSTANTS
  Traffics,      \* the sequences of requests a peer may have in mind
  SplitAnywhere, \* a request may arrive in any pieces (else: as one)
  Polite,        \* the peer waits for an answer before its next request
  PeerMayLeave,  \* the peer may finish sending, or reset the connection
  SndCap         \* units the socket takes before a write would block

ASSUME ConnectionAssumption ==
  /\ SplitAnywhere \in BOOLEAN /\ Polite \in BOOLEAN /\ PeerMayLeave \in BOOLEAN
  /\ SndCap \in Nat \ {0}
  /\ Traffics \subseteq Seq([method : STRING, file : Seq(STRING), keep : BOOLEAN])

VARIABLES
  script,        \* the requests of this peer (never changes)
  toSend,        \* those of them it has not sent completely
  cut,           \* how many tokens of the first of those it has sent
  peer,          \* "open", "finished" (sent its FIN) or "reset"
  inbox,         \* what the socket holds for read()
  outbox,        \* what write() has put into the socket
  got,           \* what the peer has received
  interest,      \* the events epoll watches the descriptor for
  edge,          \* the descriptor is on epoll's ready list
  events, lastEvents, revents,  \* Channel's masks
  http,          \* HttpData's members, see HttpTypes
  pc,            \* where handleEvent is
  made           \* history: all output of successful requests

peerVars == <<script, toSend, cut, peer, got>>
channelVars == <<events, lastEvents, revents>>
vars == <<script, toSend, cut, peer, inbox, outbox, got, interest, edge,
          events, lastEvents, revents, http, pc, made>>

Flags == {"IN", "OUT", "ET", "ONESHOT", "HUP", "ERR"}

HttpTypes(h) ==
  /\ h.error \in BOOLEAN
  /\ h.connectionState \in {"CONNECTED", "DISCONNECTING", "DISCONNECTED"}
  /\ h.state \in {"PARSE_URI", "PARSE_HEADERS", "ANALYSIS", "FINISH"}
  /\ h.method \in {"GET", "HEAD"}
  /\ h.keepAlive \in BOOLEAN
  /\ h.complaint \in {"none", "400", "404"}

Places == {"idle", "read", "flush", "write", "conn", "closed"}

TypeOK ==
  /\ script \in Traffics
  /\ peer \in {"open", "finished", "reset"}
  /\ Len(outbox) <= SndCap
  /\ interest \subseteq Flags
  /\ edge \in BOOLEAN
  /\ events \subseteq Flags /\ lastEvents \subseteq Flags /\ revents \subseteq Flags
  /\ HttpTypes(http)
  /\ pc \in Places
  /\ http.connectionState = "DISCONNECTED" <=> pc = "closed"

------------------------------------------------------------------------------
(* The peer's requests (external).                                         *)

Request(method, file, keep) == [method |-> method, file |-> file, keep |-> keep]

Encode(r) ==
  <<r.method, " ", "/">> \o r.file \o <<" ", "HTTP", "/", "1.1", "CR", "LF">>
  \o (IF r.keep THEN <<"Connection", ":", " ", "Keep-Alive", "CR", "LF">>
      ELSE <<"Host", ":", " ", "host", "CR", "LF">>)
  \o <<"CR", "LF">>

Complaint(code) == [file |-> <<>>, part |-> code]

(* The file a request is for: no name stands for index.html, and a query   *)
(* is not part of the name.                                                *)
Target(r) == IF r.file = <<>> THEN <<"index.html">> ELSE CutQuery(r.file)

(* What the peer expects for a request; for the header alone the file need *)
(* not be opened.                                                          *)
Reply(r) ==
  LET readable == Target(r) \in Readable \cup {<<"favicon.ico">>}
  IN  IF r.method = "HEAD" /\ (readable \/ Target(r) \in Unopenable) THEN <<Header(Target(r))>>
      ELSE IF readable THEN <<Header(Target(r)), Body(Target(r))>>
      ELSE <<Complaint("404")>>

Replies(requests) == FlattenSeq([i \in DOMAIN requests |-> Reply(requests[i])])

(* Requests as a URI and the parser allow them: no blank, line end or verb *)
(* is part of a name, and nobody asks for the header of favicon.ico alone, *)
(* which is sent with its body.                                            *)
PlainRequest(r) ==
  /\ \A i \in DOMAIN r.file : r.file[i] \notin {" ", "CR", "GET", "HEAD"}
  /\ ~(r.method = "HEAD" /\ Target(r) = <<"favicon.ico">>)

PlainTraffics == \A requests \in Traffics : \A i \in DOMAIN requests : PlainRequest(requests[i])

(* Nobody uses a verb the parser does not know.                            *)
KnownVerbs ==
  \A requests \in Traffics : \A i \in DOMAIN requests : requests[i].method \in {"GET", "HEAD"}

------------------------------------------------------------------------------
(* Epoll and the kernel.                                                   *)

DEFAULT_EVENT == {"IN", "ET", "ONESHOT"}

InputReady == inbox # <<>> \/ peer # "open"
OutputReady == Len(outbox) < SndCap \/ peer = "reset"

(* What epoll_wait would report.  A one-shot entry that has fired is not   *)
(* watched for anything, not even for a hang-up.                           *)
Reportable(mask) ==
  IF mask = {} THEN {}
  ELSE {f \in mask : \/ f = "IN" /\ InputReady
                     \/ f = "OUT" /\ OutputReady}
       \cup (IF peer = "reset" THEN {"HUP", "ERR"} ELSE {})

(* epoll_mod: nothing if the mask is the last one asked for; else the      *)
(* kernel takes it over and looks at once whether there is something to    *)
(* report.  EPOLL_CTL_MOD of a registered descriptor is not refused, so    *)
(* Epoll's error branch has no counterpart.  A faulty comparison overlooks *)
(* the one-shot bit.                                                       *)
EqualButOneShot(mask) == lastEvents \ {"ONESHOT"} = mask
EqualLastEvents(mask) == lastEvents = mask

EpollMod(mask) ==
  /\ events' = mask
  /\ lastEvents' = mask
  /\ IF EqualLastEvents(mask) THEN UNCHANGED <<interest, edge>>
     ELSE /\ interest' = mask
          /\ edge' = (edge \/ Reportable(mask) # {})

------------------------------------------------------------------------------
(* The constructor and newEvent.                                           *)
Init ==
  /\ script \in Traffics
  /\ toSend = script
  /\ cut = 0
  /\ peer = "open"
  /\ inbox = <<>> /\ outbox = <<>> /\ got = <<>>
  /\ interest = DEFAULT_EVENT
  /\ edge = FALSE
  /\ events = DEFAULT_EVENT /\ lastEvents = DEFAULT_EVENT /\ revents = {}
  /\ http = [in |-> <<>>, out |-> <<>>, error |-> FALSE,
             connectionState |-> "CONNECTED", method |-> "GET", file |-> <<>>,
             state |-> "PARSE_URI", hState |-> "H_START", keepAlive |-> FALSE,
             headers |-> <<>>, complaint |-> "none"]
  /\ pc = "idle"
  /\ made = <<>>

------------------------------------------------------------------------------
(* The peer (external).                                                    *)

SegmentLengths ==
  LET left == Len(Encode(Head(toSend))) - cut
  IN  IF SplitAnywhere THEN 1..left ELSE {left}

Send ==
  /\ pc # "closed" /\ peer = "open" /\ toSend # <<>>
  /\ Polite => /\ inbox = <<>>
               /\ cut = 0 => Len(got) = Len(Replies(script)) - Len(Replies(toSend))
  /\ \E n \in SegmentLengths :
       LET request == Encode(Head(toSend))
       IN  /\ inbox' = inbox \o SubSeq(request, cut + 1, cut + n)
           /\ IF cut + n = Len(request) THEN toSend' = Tail(toSend) /\ cut' = 0
              ELSE toSend' = toSend /\ cut' = cut + n
  /\ edge' = (edge \/ "IN" \in interest)
  /\ UNCHANGED <<script, peer, outbox, got, interest, http, pc, made>>
  /\ UNCHANGED channelVars

Finish ==
  /\ PeerMayLeave /\ pc # "closed" /\ peer = "open"
  /\ peer' = "finished"
  /\ edge' = (edge \/ "IN" \in interest)
  /\ UNCHANGED <<script, toSend, cut, inbox, outbox, got, interest, http, pc, made>>
  /\ UNCHANGED channelVars

(* What was in flight is lost.                                             *)
Reset ==
  /\ PeerMayLeave /\ pc # "closed" /\ peer # "reset"
  /\ peer' = "reset"
  /\ inbox' = <<>> /\ outbox' = <<>>
  /\ edge' = (edge \/ interest # {})
  /\ UNCHANGED <<script, toSend, cut, got, interest, http, pc, made>>
  /\ UNCHANGED channelVars

Receive ==
  /\ outbox # <<>>
  /\ got' = Append(got, Head(outbox))
  /\ outbox' = Tail(outbox)
  /\ edge' = (edge \/ "OUT" \in interest)
  /\ UNCHANGED <<script, toSend, cut, peer, inbox, interest, http, pc, made>>
  /\ UNCHANGED channelVars

------------------------------------------------------------------------------
(* Epoll::poll and Channel::handleEvent.                                   *)

(* handleEvent calls readHandler_, writeHandler_ and connHandler_ in this  *)
(* order; there is no errorHandler_.                                       *)
AfterRead(reported) == IF "OUT" \in reported THEN "write" ELSE "conn"
FirstHandler(reported) == IF "IN" \in reported THEN "read" ELSE AfterRead(reported)

(* A hang-up without input is not handled at all; in a faulty version no   *)
(* hang-up is.                                                             *)
IgnoresHangups(reported) == "HUP" \in reported
Ignored(reported) == "HUP" \in reported /\ "IN" \notin reported

(* Being edge-triggered the descriptor leaves the ready list.  If by now   *)
(* there is nothing to report, that is all.                                *)
Poll ==
  LET reported == Reportable(interest)
  IN  /\ pc = "idle" /\ edge
      /\ edge' = FALSE
      /\ IF reported = {} THEN UNCHANGED <<interest, events, revents, pc>>
         ELSE /\ interest' = IF "ONESHOT" \in interest THEN {} ELSE interest
              /\ events' = {}
              /\ revents' = reported
              /\ pc' = IF Ignored(reported) THEN "idle" ELSE FirstHandler(reported)
      /\ UNCHANGED <<inbox, outbox, lastEvents, http, made>>
      /\ UNCHANGED peerVars

------------------------------------------------------------------------------
(* handleRead, up to the end of its do-while: each stage maps HttpData's   *)
(* members to what they become, and does nothing in another state_.        *)

(* A malformed line leaves the loop without a word, and an incomplete one  *)
(* is taken for a good one: both tests compare with PARSE_URI_ERROR.       *)
AfterLine(h, u) ==
  [h EXCEPT !.in = u.rest, !.method = u.method, !.file = u.file,
            !.state = IF u.result = "ERROR" THEN @ ELSE "PARSE_HEADERS"]

LineStage(h) ==
  IF h.state = "PARSE_URI" THEN AfterLine(h, ParseURI(h.in, h.method, h.file)) ELSE h

AfterHeaders(h, p) ==
  LET parsed == [h EXCEPT !.in = p.rest, !.hState = p.hState, !.headers = p.headers]
  IN  CASE p.result = "SUCCESS" -> [parsed EXCEPT !.state = "ANALYSIS"]
        [] p.result = "AGAIN"   -> parsed
        [] p.result = "ERROR"   -> [parsed EXCEPT !.error = TRUE, !.complaint = "400"]

HeaderStage(h) ==
  IF h.state = "PARSE_HEADERS"
  THEN AfterHeaders(h, ParseHeaders(h.in, h.hState, h.headers)) ELSE h

AnalysisStage(h) ==
  LET a == AnalysisRequest(h.method, h.file, h.out)
      analysed == [h EXCEPT !.out = a.out, !.keepAlive = @ \/ AsksKeepAlive(h.headers)]
  IN  IF h.state # "ANALYSIS" THEN h
      ELSE IF a.result = "SUCCESS" THEN [analysed EXCEPT !.state = "FINISH"]
      ELSE [analysed EXCEPT !.error = TRUE, !.complaint = "404"]

Parse(h) ==
  LET lineRead == LineStage(h)
      headersRead == HeaderStage(lineRead)
  IN  AnalysisStage(headersRead)

(* readn has emptied the socket: data is what it got, zero that it came to *)
(* the peer's FIN, failed that read() failed.                              *)
AfterReadn(h, data, zero, failed) ==
  LET filled == [h EXCEPT !.in = @ \o data,
                          !.connectionState = IF zero THEN "DISCONNECTING" ELSE @]
  IN  IF h.connectionState = "DISCONNECTING" THEN [h EXCEPT !.in = <<>>]
      ELSE IF failed THEN [h EXCEPT !.error = TRUE, !.complaint = "400"]
      ELSE IF zero /\ data = <<>> THEN filled
      ELSE Parse(filled)

(* handleError writes straight to the descriptor, and what the socket does *)
(* not take is dropped.                                                    *)
HandleError(code) ==
  IF peer = "reset" \/ Len(outbox) = SndCap THEN outbox
  ELSE Append(outbox, Complaint(code))

Read ==
  /\ pc = "read"
  /\ \E h \in {AfterReadn(http, inbox, peer = "finished", peer = "reset")} :
       /\ http' = h
       /\ outbox' = IF h.complaint = "none" THEN outbox ELSE HandleError(h.complaint)
       /\ made' = IF h.state = "FINISH"
                  THEN made \o SubSeq(h.out, Len(http.out) + 1, Len(h.out)) ELSE made
  /\ inbox' = <<>>
  /\ pc' = "flush"
  /\ UNCHANGED <<interest, edge>>
  /\ UNCHANGED peerVars
  /\ UNCHANGED channelVars

------------------------------------------------------------------------------
(* handleWrite: how many units write() takes, and what it leaves behind.   *)
(* Faulty: partial writes are not thought of; what was written is kept.    *)

TakenWhole(h) == IF h.error \/ peer = "reset" THEN 0 ELSE Len(h.out)

Written(h) ==
  LET room == SndCap - Len(outbox)
  IN  IF h.error \/ peer = "reset" THEN 0
      ELSE IF Len(h.out) < room THEN Len(h.out) ELSE room

WriteFails(h) == ~h.error /\ h.out # <<>> /\ peer = "reset"

NothingRemoved(h) == [h EXCEPT !.error = @ \/ WriteFails(h)]

HandleWrite(h) ==
  [h EXCEPT !.out = SubSeq(@, Written(h) + 1, Len(@)), !.error = @ \/ WriteFails(h)]

EventsAfterWrite(h, ev) ==
  LET kept == IF WriteFails(h) THEN {} ELSE ev
  IN  IF ~h.error /\ HandleWrite(h).out # <<>> THEN kept \cup {"OUT"} ELSE kept

OutboxAfterWrite(h) == outbox \o SubSeq(h.out, 1, Written(h))

(* reset(): the members that belong to one request.  Faulty: it goes back  *)
(* by one state only.                                                      *)
StepBack(h) == [h EXCEPT !.state = "ANALYSIS"]

ResetRequest(h) ==
  [h EXCEPT !.file = <<>>, !.state = "PARSE_URI", !.hState = "H_START", !.headers = <<>>]

(* The end of handleRead.  A finished request makes room for the next; if  *)
(* there is some of it already, handleRead calls itself.                   *)
Flush ==
  LET h == HandleWrite(http)
      ev == EventsAfterWrite(http, events)
      finished == ~h.error /\ h.state = "FINISH"
  IN  /\ pc = "flush"
      /\ outbox' = OutboxAfterWrite(http)
      /\ http' = IF finished THEN ResetRequest(h) ELSE h
      /\ events' = IF h.error \/ finished THEN ev ELSE ev \cup {"IN"}
      /\ pc' = IF finished /\ h.in # <<>> /\ h.connectionState # "DISCONNECTING"
               THEN "read" ELSE AfterRead(revents)
      /\ UNCHANGED <<inbox, interest, edge, lastEvents, revents, made>>
      /\ UNCHANGED peerVars

Write ==
  /\ pc = "write"
  /\ outbox' = OutboxAfterWrite(http)
  /\ http' = HandleWrite(http)
  /\ events' = EventsAfterWrite(http, events)
  /\ pc' = "conn"
  /\ UNCHANGED <<inbox, interest, edge, lastEvents, revents, made>>
  /\ UNCHANGED peerVars

------------------------------------------------------------------------------
(* handleConn.                                                             *)

(* Output first: with both events wanted only EPOLLOUT is asked for, or    *)
(* only EPOLLIN in a faulty version.                                       *)
InputFirst(ev) ==
  IF ev = {} \/ {"IN", "OUT"} \subseteq ev THEN {"IN", "ET"} ELSE ev \cup {"ET"}

Wanted(ev) ==
  IF ev = {} THEN {"IN", "ET"}
  ELSE IF {"IN", "OUT"} \subseteq ev THEN {"OUT", "ET"}
  ELSE ev \cup {"ET"}

GoOn ==
  /\ pc = "conn" /\ ~http.error /\ http.connectionState = "CONNECTED"
  /\ events # {} \/ http.keepAlive
  /\ EpollMod(Wanted(events))
  /\ pc' = "idle"
  /\ UNCHANGED <<inbox, outbox, revents, http, made>>
  /\ UNCHANGED peerVars

(* A peer that has finished is still owed some output: the mask is set,    *)
(* but nobody tells epoll.                                                 *)
OwesOutput ==
  ~http.error /\ http.connectionState = "DISCONNECTING" /\ "OUT" \in events

AwaitOutput ==
  /\ pc = "conn" /\ OwesOutput
  /\ events' = {"OUT", "ET"}
  /\ pc' = "idle"
  /\ UNCHANGED <<inbox, outbox, interest, edge, lastEvents, revents, http, made>>
  /\ UNCHANGED peerVars

(* handleClose, preceded by shutdown() where the connection was healthy:   *)
(* what the socket holds still reaches the peer.                           *)
Close ==
  /\ pc = "conn" /\ ~OwesOutput
  /\ (http.error \/ http.connectionState # "CONNECTED" \/ (events = {} /\ ~http.keepAlive))
  /\ http' = [http EXCEPT !.connectionState = "DISCONNECTED"]
  /\ interest' = {}
  /\ edge' = FALSE
  /\ pc' = "closed"
  /\ UNCHANGED <<inbox, outbox, made>>
  /\ UNCHANGED peerVars
  /\ UNCHANGED channelVars

------------------------------------------------------------------------------
ServerStep == Poll \/ Read \/ Flush \/ Write \/ GoOn \/ AwaitOutput \/ Close

Next == ServerStep \/ Send \/ Finish \/ Reset \/ Receive

Spec == Init /\ [][Next]_vars

(* The loop keeps turning.  Its steps are named here by what only they     *)
(* change: they clear edge, and they move pc.                              *)
LoopMoves ==
  \/ pc = "idle" /\ edge /\ edge' = FALSE /\ pc' \in Places
  \/ pc \notin {"idle", "closed"} /\ pc' \in Places \ {pc} /\ edge' \in BOOLEAN

LoopFairness == WF_<<pc, edge>>(LoopMoves)

(* A peer that reads what it is sent, and one that also has requests to    *)
(* make, makes them.                                                       *)
FairSpec == Spec /\ LoopFairness
ReaderSpec == Spec /\ LoopFairness /\ WF_vars(Receive)
PoliteSpec == ReaderSpec /\ WF_vars(Send)

------------------------------------------------------------------------------
(* Properties.                                                             *)

(* Output is neither lost, repeated nor reordered, and an error answer is  *)
(* the last thing sent: as long as all is well, what was received, what is *)
(* in the socket and what is in outBuffer_ make up all output there was;   *)
(* after an error or a reset the peer has a beginning of it (handleWrite,  *)
(* handleError, writen, analysisRequest).                                  *)
InOrder ==
  LET delivered == got \o outbox
  IN  IF http.complaint = "none" /\ peer # "reset"
      THEN delivered \o http.out = made
      ELSE \/ IsPrefix(delivered, made)
           \/ /\ delivered # <<>>
              /\ IsPrefix(Front(delivered), made)
              /\ Last(delivered) = Complaint(http.complaint)

(* However the requests were cut into pieces, each unit of output belongs  *)
(* to the reply to some request of the peer: replies are given in the      *)
(* order of the requests, none twice, header before body (parseURI,        *)
(* parseHeaders, analysisRequest, reset).                                  *)
AnswersInOrder ==
  \E f \in [DOMAIN made -> DOMAIN script] :
    /\ \A i \in DOMAIN made : made[i] \in ToSet(Reply(script[f[i]]))
    /\ \A i, j \in DOMAIN made : i < j =>
         \/ f[i] < f[j]
         \/ f[i] = f[j] /\ made[i].part = "header" /\ made[j].part = "body"

(* Two ways the code loses sight of a connection: a reset reported while   *)
(* only output is awaited (Channel.h:66), and output owed to a peer that   *)
(* has finished (HttpData.cpp:226).                                        *)
ForgottenHangup == pc = "idle" /\ peer = "reset" /\ interest = {"OUT", "ET"} /\ ~edge
ForgottenOutput == pc = "idle" /\ http.connectionState = "DISCONNECTING"
Forgotten == ForgottenHangup \/ ForgottenOutput

(* Between two turns a connection that is not forgotten is without error   *)
(* and watched, for output if there is some, and whatever it is watched    *)
(* for and is there already, the loop is going to be told (handleRead,     *)
(* handleWrite, handleConn, epoll_mod).                                    *)
WaitsForRightThing ==
  pc = "idle" /\ ~Forgotten =>
    /\ ~http.error
    /\ interest \cap {"IN", "OUT"} # {}
    /\ http.out # <<>> => "OUT" \in interest
    /\ Reportable(interest) # {} => edge

(* A reset is noticed and the connection closed, unless it is forgotten.   *)
ResetNoticed == (peer = "reset") ~> (pc = "closed" \/ Forgotten)

(* A peer that sends whole requests, waits for each answer and reads what  *)
(* it is sent receives exactly the replies it asked for.                   *)
Served == <>[](got = Replies(script))

(* The requests of a polite peer that have been read: all it has sent but  *)
(* the one the socket holds.                                               *)
ReadSoFar ==
  SubSeq(script, 1, Len(script) - Len(toSend) - (IF inbox = <<>> THEN 0 ELSE 1))

(* At every moment what such a peer has received, what the socket holds    *)
(* for it and what is in outBuffer_ are the replies to the requests that   *)
(* have been read; once the peer has read all and the loop has nothing to  *)
(* do, none is left over; and the connection is closed with the last reply *)
(* given, when that is a complaint or no request asked to be kept alive    *)
(* (handleRead, handleWrite, handleConn, the parser).                      *)
AnsweredSoFar ==
  /\ got \o outbox \o http.out = Replies(ReadSoFar)
  /\ pc = "idle" /\ ~edge /\ outbox = <<>> => http.out = <<>> /\ inbox = <<>>
  /\ pc = "closed" =>
       /\ http.out = <<>> /\ ReadSoFar # <<>>
       /\ \/ Reply(Last(ReadSoFar)) = <<Complaint("404")>>
          \/ \A i \in DOMAIN ReadSoFar : ~ReadSoFar[i].keep

(* If it never asks to be kept alive the connection is closed in the end.  *)
KeptAsAsked == (\A i \in DOMAIN script : ~script[i].keep) => <>(pc = "closed")

(* HttpData.cpp:266 says the request is parsed once its whole first line   *)
(* has been read: beyond PARSE_URI there is a file name.                   *)
LineParsedWhole == http.state # "PARSE_URI" => http.file # <<>>

(* HttpData.cpp:83 says a read of zero is handled as the peer's close: the *)
(* connection is taken down in the end.                                    *)
PeerCloseHandled ==
  (http.connectionState = "DISCONNECTING") ~> (http.connectionState = "DISCONNECTED")
==============================================================================
