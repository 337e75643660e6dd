----------------------------- MODULE HttpClient -----------------------------
(***************************************************************************)
(* HttpClient::execute (common/src/net/HttpClient.cpp) with what it uses   *)
(* of ClientWithHttp and SocketBase: one call of get or post, from the URL *)
(* to the response, over every socket that redirects make it open.         *)
(* A response is a status line, headers and body, each a piece of the      *)
(* stream; recv gives what has arrived, 0 at the end of the connection and *)
(* when nothing has arrived since (the sockets do not block), and -1 after *)
(* an error.                                                               *)
(***************************************************************************)
EXTENDS Naturals

CONSTANTS
  Pieces,       \* pieces of the longest response
  MaxHops       \* bound: redirects the servers send in a row

ASSUME HttpAssumption ==
  Pieces \in Nat \ {0, 1} /\ MaxHops \in Nat

VARIABLES
  hc,           \* place in execute
  hop,          \* redirects followed
  link,         \* the socket: "none", "open", "ended" by the peer, "broken"
  reply,        \* the server's answer to this request: status and pieces
  arrived,      \* pieces of it that have arrived
  answer,       \* pieces in responseBody
  response,     \* errorCode (0, -1 as 1, -2 as 2), statusCode, pieces kept
  asked,        \* history: servers of this call that answer the request
  cut,          \* history: a connection was refused, ended early or broke
  paused        \* history: a read was empty with more still to come

httpVars ==
  <<hc, hop, link, reply, arrived, answer, response, asked, cut, paused>>

HttpStatus == {200, 302, 404}
NoReply == [status |-> 0, pieces |-> 0]
Reply == [status : HttpStatus, pieces : 2..Pieces]
NoResponse == [errorCode |-> 0, statusCode |-> 0, pieces |-> 0]

HttpTypeOK ==
  /\ hc \in {"start", "connect", "send", "recv", "parse", "close", "done"}
  /\ hop \in 0..MaxHops /\ asked \in 0..MaxHops + 1
  /\ link \in {"none", "open", "ended", "broken"}
  /\ reply \in Reply \cup {NoReply}
  /\ arrived \in 0..Pieces /\ answer \in 0..arrived
  /\ response \in [errorCode : 0..2, statusCode : HttpStatus \cup {0},
                   pieces : 0..Pieces]
  /\ cut \in BOOLEAN /\ paused \in BOOLEAN

HttpInit ==
  /\ hc = "start" /\ hop = 0 /\ link = "none" /\ reply = NoReply
  /\ arrived = 0 /\ answer = 0 /\ response = NoResponse
  /\ asked = 0 /\ cut = FALSE /\ paused = FALSE

-----------------------------------------------------------------------------
(* parseURL: an address of a websocket, or of nothing, is turned down.     *)
BadUrl ==
  /\ hc = "start"
  /\ response' = [NoResponse EXCEPT !.errorCode = 1]
  /\ hc' = "done"
  /\ UNCHANGED <<hop, link, reply, arrived, answer, asked, cut, paused>>
MakeSocket ==
  /\ hc = "start"
  /\ hc' = "connect"
  /\ reply' = NoReply /\ arrived' = 0 /\ answer' = 0
  /\ UNCHANGED <<hop, link, response, asked, cut, paused>>

(* What connect returns is dropped: the request is tried in any case.      *)
Connect ==
  /\ hc = "connect"
  /\ link' \in {"open", "broken"}
  /\ cut' = (cut \/ link' = "broken")
  /\ hc' = "send"
  /\ UNCHANGED <<hop, reply, arrived, answer, response, asked, paused>>

SendAll ==
  /\ hc = "send"
  /\ link # "broken"
  /\ hc' = "recv"
  /\ asked' = asked + 1
  /\ reply' \in {r \in Reply : r.status = 302 => hop < MaxHops}
  /\ UNCHANGED <<hop, link, arrived, answer, response, cut, paused>>
(* It fails on a connection that is lost, and on one that takes no more.   *)
SendFails ==
  /\ hc = "send"
  /\ link' = "none"
  /\ response' = [NoResponse EXCEPT !.errorCode = 2]
  /\ hc' = "done"
  /\ UNCHANGED <<hop, reply, arrived, answer, asked, cut, paused>>

(* The loop over recv: it goes on after every piece and after an empty     *)
(* read before the first, and ends with an error or an empty read after    *)
(* one, be it the end of the connection or only a pause.  Mutants: it ends *)
(* by an empty read only; it takes a read that did not fill the buffer for *)
(* an empty one.                                                           *)
LoopEndsEmpty == answer > 0
LoopEnds == link = "broken" \/ answer > 0
EmptyReadShort == TRUE
EmptyRead == answer = arrived
RecvPiece ==
  /\ hc = "recv"
  /\ link # "broken" /\ answer < arrived
  /\ answer' = arrived
  /\ UNCHANGED <<hc, hop, link, reply, arrived, response, asked, cut, paused>>
RecvEnds ==
  /\ hc = "recv"
  /\ link = "broken" \/ EmptyRead
  /\ LoopEnds
  /\ hc' = "parse"
  /\ paused' = (paused \/ (link = "open" /\ arrived < reply.pieces))
  /\ UNCHANGED <<hop, link, reply, arrived, answer, response, asked, cut>>

(* parseResponse: the code of the first line, 0 when there is no line.     *)
ParseResponse ==
  /\ hc = "parse"
  /\ response' = [errorCode |-> 0, pieces |-> answer,
                  statusCode |-> IF answer > 0 THEN reply.status ELSE 0]
  /\ hc' = "close"
  /\ UNCHANGED <<hop, link, reply, arrived, answer, asked, cut, paused>>

(* A redirect is followed with the same method, headers and body once its  *)
(* headers are there to tell where to.                                     *)
Redirected == response.statusCode = 302 /\ response.pieces >= 2
CloseRedirect ==
  /\ hc = "close"
  /\ Redirected
  /\ link' = "none"
  /\ hop' = hop + 1
  /\ hc' = "start"
  /\ response' = NoResponse
  /\ UNCHANGED <<reply, arrived, answer, asked, cut, paused>>
CloseReturn ==
  /\ hc = "close"
  /\ ~Redirected
  /\ link' = "none"
  /\ hc' = "done"
  /\ UNCHANGED <<hop, reply, arrived, answer, response, asked, cut, paused>>

Execute ==
  \/ BadUrl \/ MakeSocket \/ Connect \/ SendAll \/ SendFails
  \/ RecvPiece \/ RecvEnds \/ ParseResponse \/ CloseRedirect \/ CloseReturn

-----------------------------------------------------------------------------
(* The peer and the network.  "Connection: close" asks for the end of the  *)
(* connection after the response.                                          *)
ServerSends ==
  /\ link = "open" /\ hc = "recv" /\ arrived < reply.pieces
  /\ arrived' = arrived + 1
  /\ UNCHANGED <<hc, hop, link, reply, answer, response, asked, cut, paused>>
ServerEnds ==
  /\ link = "open" /\ hc = "recv"
  /\ link' = "ended"
  /\ cut' = (cut \/ arrived < reply.pieces)
  /\ UNCHANGED <<hc, hop, reply, arrived, answer, response, asked, paused>>
LinkBreaks ==
  /\ link \in {"open", "ended"} /\ hc \in {"send", "recv"}
  /\ link' = "broken"
  /\ cut' = TRUE
  /\ UNCHANGED <<hc, hop, reply, arrived, answer, response, asked, paused>>

HttpNext == Execute \/ ServerSends \/ ServerEnds \/ LinkBreaks

HttpFairness == WF_httpVars(Execute)
HttpSpec == HttpInit /\ [][HttpNext]_httpVars /\ HttpFairness

-----------------------------------------------------------------------------
(* What a caller gets without an error is the answer of the last server,   *)
(* asked once per redirect, with its status or with none: all of it,       *)
(* however it was split on the way, unless a connection was lost or ended  *)
(* early, or the loop met a pause.  Then a part passes for the whole.      *)
AnswerIsWhole ==
  hc = "done" /\ response.errorCode = 0 =>
    /\ asked = hop + 1
    /\ response.statusCode \in {0, reply.status}
    /\ ~cut /\ ~paused => response = [errorCode |-> 0, pieces |-> reply.pieces,
                                      statusCode |-> reply.status]

(* The loop over recv ends when an error or some of the answer has come.   *)
(* Before, it sleeps and reads for ever, also when the peer has ended the  *)
(* connection without a word.                                              *)
HttpReturns ==
  (hc = "recv" /\ (link = "broken" \/ arrived > 0)) ~> hc # "recv"

(* Both: an exchange ends, and with the whole answer but for a cut or a    *)
(* pause.                                                                  *)
HttpAnswers == []AnswerIsWhole /\ HttpReturns
=============================================================================
