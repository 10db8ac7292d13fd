---------------------------- MODULE MCConnection -----------------------------
(* Peers for TLC.                                                          *)
EXTENDS Connection

Get(file, keep) == Request("GET", <<file>>, keep)

(* Requests that come in pieces, one on the heels of the other: a good     *)
(* pair, one that takes back pending output, one with a malformed line;    *)
(* a request without a name and one with a query.                          *)
PipelinedTraffics ==
  {<<Get("p1", TRUE), Request("GET", <<>>, FALSE)>>,
   <<Get("p1", TRUE), Get("locked", TRUE)>>,
   <<Request("POST", <<"p1">>, TRUE), Request("HEAD", <<"p2", "?", "q">>, FALSE)>>}

(* Peers that wait for their answers; with a file that is missing or       *)
(* unreadable the connection ends.                                         *)
PoliteTraffics ==
  {<<Get("p1", TRUE), Get("p2", TRUE), Get("p1", TRUE)>>,
   <<Get("p1", TRUE), Get("p2", FALSE)>>,
   <<Request("HEAD", <<"p1">>, TRUE), Get("missing", TRUE)>>,
   <<Request("HEAD", <<"p2">>, FALSE)>>,
   <<Get("p1", FALSE)>>, <<Get("locked", TRUE)>>}

(* The requests here are of the kind AnswersBelongToRequests is about.     *)
ASSUME RequestsArePlain == PlainTraffics

(* And where the peer is polite, of the kind PolitePeerIsAnswered is about. *)
ASSUME VerbsAreKnown == Polite => KnownVerbs
==============================================================================
