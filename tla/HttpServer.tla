---------------------------- MODULE HttpServer ----------------------------
(***************************************************************************)
(* rav::HttpServer with its Listener and ClientSessions, and the clients   *)
(* that connect to it.  Everything of the server runs on the io_context;   *)
(* the listener and the sessions are kept alive by their operations, so    *)
(* that they may outlive the server's interest in them: owner_ is null     *)
(* then.                                                                   *)
(***************************************************************************)
EXTENDS Naturals, Sequences, FiniteSets

CONSTANTS
  Connections,
  HttpRequests,  \* records [keep |-> keep_alive, effect |-> what the handler does]
  MaxRequests,   \* bound: requests of a client
  MaxStarts      \* bound: how often the server is started

Effects == {"answers", "unknown", "throws", "restarts"}
ASSUME RequestsAssumption == HttpRequests \subseteq [keep : BOOLEAN, effect : Effects]

VARIABLES
  server,   \* [up, accepting, listed, starts]: a listener, with an accept under way, and client_sessions_
  session,  \* of each connection: its session, or where the connection is without one
  client    \* of each connection: what the client has sent and got, and whether it has hung up

serverVars == <<server, session, client>>

\* A connection: nobody's, in the backlog, accepted by a listener (that was stopped
\* since: orphaned), with a session, or closed by the server.
\* A session has an operation: it reads, it writes or has "written" an answer.
AtStage(stage) == [stage |-> stage, owner |-> FALSE, op |-> "none", open |-> FALSE, keep |-> FALSE, status |-> 0, read |-> 0]
NewSession == [AtStage("session") EXCEPT !.owner = TRUE, !.op = "reading", !.open = TRUE]

Closed == AtStage("closed")

-----------------------------------------------------------------------------
(***************************************************************************)
(* The server, as operators on v = [server, session]                       *)
(***************************************************************************)
ServerState == [server |-> server, session |-> session]
Become(v) == server' = v.server /\ session' = v.session

\* start, which fails without another change when there is a listener or the port is in
\* use, and here at its bound.
StartServer(v) ==
  IF v.server.up \/ v.server.starts = MaxStarts THEN v
  ELSE [v EXCEPT !.server.up = TRUE, !.server.accepting = TRUE, !.server.starts = @ + 1]

\* Mutant of Disown: the session keeps its owner.
DisownLater(s) == [s EXCEPT !.open = FALSE]

\* set_owner(nullptr) of a session: the sending side is shut down, pending operations remain.
Disown(s) == [s EXCEPT !.owner = FALSE, !.open = FALSE]

\* set_owner(nullptr) of the listener closes its socket and with it the backlog.
Abandon(s) ==
  IF s.stage = "backlog" THEN Closed ELSE IF s.stage = "accepted" THEN AtStage("orphaned") ELSE s

\* HttpServer::stop
StopServer(v) ==
  [server |-> [v.server EXCEPT !.up = FALSE, !.accepting = FALSE, !.listed = {}],
   session |-> [c \in Connections |->
     IF c \in v.server.listed THEN Disown(v.session[c]) ELSE Abandon(v.session[c])]]

\* Mutant of Release: the session stays in the list.
ReleaseListed(v, c) == [v EXCEPT !.session[c] = Closed]

\* A handler of a session returns without another operation: the session is destroyed,
\* and with it the socket.
Release(v, c) == [v EXCEPT !.session[c] = Closed, !.server.listed = @ \ {c}]

\* do_accept, on_accept
OnAccept(v, c) ==
  IF v.session[c].stage = "orphaned" THEN [v EXCEPT !.session[c] = Closed]
  ELSE [v EXCEPT !.session[c] = NewSession, !.server.listed = @ \cup {c}, !.server.accepting = TRUE]

\* HttpServer::on_request: the handler of a route may stop the server and start it again.
Handled(v, effect) == IF effect = "restarts" THEN StartServer(StopServer(v)) ELSE v
StatusOf(effect) == CASE effect = "unknown" -> 404 [] effect = "throws" -> 500 [] OTHER -> 200

\* The answer to an exception has the keep-alive of a new response.
KeepAlive(request) == request.effect = "throws" \/ request.keep

\* send_response
SendResponse(v, c, request) ==
  IF ~v.session[c].owner THEN Release(v, c)
  ELSE [v EXCEPT !.session[c].op = "writing", !.session[c].keep = KeepAlive(request),
                 !.session[c].status = StatusOf(request.effect)]

\* on_read with a request
OnRead(v, c, request) ==
  IF ~v.session[c].owner THEN Release(v, c)
  ELSE SendResponse(Handled([v EXCEPT !.session[c].read = @ + 1], request.effect), c, request)

\* on_write without an error
OnWritten(v, c) ==
  IF ~v.session[c].owner \/ ~v.session[c].keep THEN Release(v, c)
  ELSE [v EXCEPT !.session[c].op = "reading"]

-----------------------------------------------------------------------------
(***************************************************************************)
(* Steps                                                                   *)
(***************************************************************************)
Connect(c) ==
  /\ server.up /\ session[c].stage = "none"
  /\ session' = [session EXCEPT ![c] = AtStage("backlog")]
  /\ UNCHANGED <<server, client>>

\* The pending accept takes a connection; its handler runs later.
Accept(c) ==
  /\ server.accepting /\ session[c].stage = "backlog"
  /\ Become([ServerState EXCEPT !.server.accepting = FALSE, !.session[c] = AtStage("accepted")])
  /\ UNCHANGED client

Accepted(c) ==
  /\ session[c].stage \in {"accepted", "orphaned"}
  /\ Become(OnAccept(ServerState, c))
  /\ UNCHANGED client

\* on_accept with an error: nothing is accepted any more.
AcceptFails ==
  /\ server.accepting
  /\ server' = [server EXCEPT !.accepting = FALSE]
  /\ UNCHANGED <<session, client>>

Send(c, request) ==
  /\ session[c].stage \notin {"none", "closed"} /\ ~client[c].hungUp /\ Len(client[c].sent) < MaxRequests
  /\ client' = [client EXCEPT ![c].sent = Append(@, request)]
  /\ UNCHANGED <<server, session>>

HangUp(c) ==
  /\ session[c].stage \notin {"none", "closed"} /\ ~client[c].hungUp
  /\ client' = [client EXCEPT ![c].hungUp = TRUE]
  /\ UNCHANGED <<server, session>>

Unread(c) == session[c].read < Len(client[c].sent)

TakeRequest(c) ==
  /\ session[c].op = "reading" /\ Unread(c)
  /\ Become(OnRead(ServerState, c, client[c].sent[session[c].read + 1]))
  /\ UNCHANGED client

\* on_read at the end of the stream
ReadEnds(c) ==
  /\ session[c].op = "reading" /\ ~Unread(c) /\ client[c].hungUp
  /\ Become(Release(ServerState, c))
  /\ UNCHANGED client

\* on_read and on_write with an error: the connection was reset, shut down, or the
\* 5 seconds that an exchange may take are over.
Fails(c) ==
  /\ session[c].op \in {"reading", "writing"}
  /\ Become(Release(ServerState, c))
  /\ UNCHANGED client

\* The answer reaches the client; the handler runs later.
Delivered(c) ==
  /\ session[c].op = "writing" /\ session[c].open
  /\ session' = [session EXCEPT ![c].op = "written"]
  /\ client' = [client EXCEPT ![c].got = Append(@, session[c].status)]
  /\ UNCHANGED server

Written(c) ==
  /\ session[c].op = "written"
  /\ Become(OnWritten(ServerState, c))
  /\ UNCHANGED client

StartServing ==
  /\ ~server.up /\ server.starts < MaxStarts
  /\ Become(StartServer(ServerState))
  /\ UNCHANGED client
StopServing ==
  /\ server.up
  /\ Become(StopServer(ServerState))
  /\ UNCHANGED client

ServerInit ==
  /\ server = [up |-> FALSE, accepting |-> FALSE, listed |-> {}, starts |-> 0]
  /\ session = [c \in Connections |-> AtStage("none")]
  /\ client = [c \in Connections |-> [sent |-> <<>>, got |-> <<>>, hungUp |-> FALSE]]

ServerNext ==
  \/ StartServing \/ StopServing \/ AcceptFails
  \/ \E c \in Connections :
       \/ Connect(c) \/ Accept(c) \/ Accepted(c) \/ HangUp(c)
       \/ TakeRequest(c) \/ ReadEnds(c) \/ Fails(c) \/ Delivered(c) \/ Written(c)
       \/ \E request \in HttpRequests : Send(c, request)

ServerSpec == ServerInit /\ [][ServerNext]_serverVars

-----------------------------------------------------------------------------
(***************************************************************************)
(* Properties                                                              *)
(***************************************************************************)
Served(c) == session[c].stage = "session"

\* The sessions in the list of the server are those that have it as their owner, they
\* all have an operation under way and a socket that is open, so that each of them is
\* served until it ends; and a server that was stopped, by its owner, by the handler
\* of a request or before an accept was handled, has none.
ListIsCurrent ==
  /\ server.listed = {c \in Connections : session[c].owner}
  /\ \A c \in Connections : Served(c) => session[c].op # "none"
  /\ \A c \in server.listed : Served(c) /\ session[c].open
  /\ ~server.up => server.listed = {} /\ ~server.accepting

\* A client gets the answers to its own requests, in their order, none of them twice and
\* none after one that was the last; at most one is under way.
ClientsGetTheirAnswers ==
  \A c \in Connections :
    LET got == client[c].got
        sent == client[c].sent
    IN  /\ Len(got) <= Len(sent)
        /\ \A i \in 1..Len(got) : got[i] = StatusOf(sent[i].effect)
        /\ \A i \in 1..Len(got) - 1 : KeepAlive(sent[i])
        /\ session[c].stage = "session" => session[c].read - Len(got) \in 0..1

\* HttpServer and its ClientSessions do both at all times.
ServerServesItsClients == ListIsCurrent /\ ClientsGetTheirAnswers
=============================================================================
