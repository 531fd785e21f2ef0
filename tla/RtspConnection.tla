--------------------------- MODULE RtspConnection ---------------------------
(***************************************************************************)
(* What rav::rtsp::Connection writes to a stream and reads from it: the    *)
(* texts of requests and responses, rav::Uri, and rav::rtsp::Parser; and   *)
(* the two ends of a connection, rav::rtsp::Client as RavennaRtspClient    *)
(* uses it and rav::rtsp::Server: output buffers, writes in flight, and    *)
(* what is read in pieces of any size.                                     *)
(*                                                                         *)
(* A write is taken by the network when it is started, in whole: the       *)
(* socket has room for it.                                                 *)
(***************************************************************************)
EXTENDS SessionDescription

CONSTANT Escapes   \* the words that no URI can hold |-> how they are written there

(***************************************************************************)
(* URIs                                                                    *)
(***************************************************************************)

Encode(text) == [i \in DOMAIN text |-> IF text[i] \in DOMAIN Escapes THEN Escapes[text[i]] ELSE text[i]]
Decode(text) ==
  [i \in DOMAIN text |->
    IF \E word \in DOMAIN Escapes : Escapes[word] = text[i]
    THEN CHOOSE word \in DOMAIN Escapes : Escapes[word] = text[i] ELSE text[i]]

\* Mutant of EncodeUri: the path is not encoded.
EncodeUriAsIs(host, path) == <<"rtsp", "://">> \o host \o path

\* Uri::encode
EncodeUri(host, path) == <<"rtsp", "://">> \o host \o Encode(path)

\* Uri::parse, the path of it.  Without a scheme it throws.
PathOfUri(uri) ==
  LET path == Rest(Rest(uri, "://"), "/")
  IN  Valid(Has(uri, "://"), Decode(<<"/">> \o Part(IF Has(path, "?") THEN Part(path, "?") ELSE path, "#")))

(***************************************************************************)
(* Headers: a name is found whatever its case                              *)
(***************************************************************************)

Indexes(headers, name) == {i \in DOMAIN headers : SameWord(headers[i].name, name)}

GetOr(headers, name, default) ==
  LET at == Indexes(headers, name) IN IF at = {} THEN default ELSE headers[Min(at)].value

\* set and emplace_back
SetHeader(headers, name, value) ==
  LET at == Indexes(headers, name)
  IN  IF at = {} THEN Append(headers, [name |-> name, value |-> value]) ELSE [headers EXCEPT ![Min(at)].value = value]

ContentLength == <<"content-length">>
ContentType == <<"content-type">>
CSeq == <<"cseq">>

\* get_content_length: none if the value is no number.
LengthOf(headers) == ReadInt(GetOr(headers, ContentLength, <<>>), Int32)

(***************************************************************************)
(* Texts of messages                                                       *)
(***************************************************************************)

Version == <<"RTSP/", "1", ".", "0">>

HeaderLine(name, value) == name \o <<":", " ">> \o value \o NewLine

\* The headers and the data, which has the length that it has.
EncodeBody(headers, data) ==
  LET others == SelectSeq(headers, LAMBDA h : ~SameWord(h.name, ContentLength))
  IN  FlattenSeq([i \in DOMAIN others |-> HeaderLine(others[i].name, others[i].value)])
        \o (IF data = <<>> THEN <<>> ELSE HeaderLine(ContentLength, Show(Len(data))))
        \o NewLine \o data

\* Request::encode and Response::encode
EncodeMessage(m) ==
  (IF m.kind = "request" THEN m.method \o <<" ">> \o m.uri \o <<" ">> \o Version
   ELSE Version \o <<" ">> \o Show(m.status) \o <<" ">> \o m.reason)
    \o NewLine \o EncodeBody(m.headers, m.data)

NewRequest(method, uri, headers, data) ==
  [kind |-> "request", method |-> method, uri |-> uri, headers |-> headers, data |-> data]
NewResponse(status, reason, headers, data) ==
  [kind |-> "response", status |-> status, reason |-> reason, headers |-> headers, data |-> data]

(***************************************************************************)
(* The parser: what of the message it is at is complete, and the input     *)
(* that is not used yet.                                                   *)
(***************************************************************************)

NewParser == [state |-> "start", start |-> <<>>, headers |-> <<>>, input |-> <<>>]

IsVersion(text) == /\ Len(text) >= 4 /\ text[1] = "RTSP/" /\ text[3] = "."
                   /\ ReadInt(<<text[2]>>, Int32) # Failed /\ ReadInt(<<text[4]>>, Int32) # Failed

\* handle_response and handle_request
Assembled(start, headers, data) ==
  LET status == Rest(start, " ")
      uri == Rest(start, " ")
  IN  IF StartsWith(start, "RTSP/")
      THEN Valid(/\ IsVersion(start) /\ Len(start) > 4 /\ start[5] = " "
                 /\ ReadInt(status, Int32) # Failed /\ Len(status) > 2 /\ status[2] = " ",
                 NewResponse(ReadInt(status, Int32), SubSeq(status, 3, Len(status)), headers, data))
      ELSE Valid(uri # <<>> /\ IsVersion(Rest(uri, " ")),
                 NewRequest(Part(start, " "), Part(uri, " "), headers, data))

\* A line of the headers.  One that begins with a space goes on with the last header.
WithHeader(headers, line) ==
  LET value == Rest(line, ":")
  IN  IF Head(line) \in {" ", "\t"}
      THEN Valid(headers # <<>>, [headers EXCEPT ![Len(headers)].value = @ \o Tail(line)])
      ELSE Valid(StartsWith(value, " ") /\ Len(value) > 1, SetHeader(headers, Part(line, ":"), Tail(value)))

BodyIsThere(p) == LengthOf(p.headers) = Failed \/ LengthOf(p.headers) <= Len(p.input)

\* parse: the messages that the input completes, and what is left for the next call.
\* After a message that is not understood nothing is read any more.
RECURSIVE Parsed(_, _)
Parsed(p, messages) ==
  LET line == TakenLine(p.input)
      rest == Rest(p.input, "\n")
      headers == WithHeader(p.headers, line)
      length == IF LengthOf(p.headers) = Failed THEN 0 ELSE LengthOf(p.headers)
      message == Assembled(p.start, p.headers, SubSeq(p.input, 1, Min({length, Len(p.input)})))
      stopped == [parser |-> [p EXCEPT !.state = "failed"], messages |-> messages]
  IN  CASE p.state = "data" /\ BodyIsThere(p) ->
             IF message = Failed THEN stopped
             ELSE Parsed([NewParser EXCEPT !.input = SubSeq(p.input, length + 1, Len(p.input))], Append(messages, message))
        [] p.state \in {"start", "headers"} /\ Has(p.input, "\n") ->
             IF p.state = "start" /\ line = <<>> THEN stopped
             ELSE IF p.state = "start" THEN Parsed([p EXCEPT !.state = "headers", !.start = line, !.input = rest], messages)
             ELSE IF line = <<>> THEN Parsed([p EXCEPT !.state = "data", !.input = rest], messages)
             ELSE IF headers = Failed THEN stopped
             ELSE Parsed([p EXCEPT !.headers = headers, !.input = rest], messages)
        [] OTHER -> [parser |-> p, messages |-> messages]

Feed(p, piece) == Parsed([p EXCEPT !.input = @ \o piece], <<>>)

-----------------------------------------------------------------------------
CONSTANTS
  Names,       \* the session names that the client may ask for
  Served,      \* those that the server has a handler for
  SenderOf,    \* name |-> the sender, whose description is the data of the answer
  MaxSent,     \* how many messages an end sends
  Cuts         \* the words after which what is read may end, before all is read

VARIABLES
  ends,        \* of each end: its phase, output buffer, the lengths of the writes in flight, and parser
  wire,        \* what is on its way to an end
  sent,        \* the messages that an end was asked to send
  got,         \* those that its parser emitted
  subscribed,  \* the names whose changes the server announces to the client
  given        \* the descriptions that the client was given

connection == <<ends, wire, sent, got, subscribed, given>>

Ends == {"client", "server"}
Other(e) == CHOOSE o \in Ends : o # e

Slash == <<"/">>
PathOf(name) == <<"/", "by-name", "/">> \o name

SdpType == <<"application/sdp">>

\* The data of a handler's answer, empty if the sender cannot be described
TextOf ==
  [name \in Served |-> LET sdp == GenerateSdp(SenderOf[name]) IN IF sdp = Failed THEN <<>> ELSE ShowSession(sdp)]

(***************************************************************************)
(* Writing                                                                 *)
(***************************************************************************)

\* async_write
StartWrite(w, e) ==
  LET out == w.ends[e].out
  IN  IF out = <<>> THEN w
      ELSE [w EXCEPT !.ends[e].writes = Append(@, Len(out)), !.wire[Other(e)] = @ \o out]

\* Mutant of SendData: a write is started whatever is in flight.
SendDataAtOnce(w, e, text) ==
  LET buffered == [w EXCEPT !.ends[e].out = @ \o text]
  IN  IF w.ends[e].phase # "closed" THEN StartWrite(buffered, e) ELSE buffered

\* async_send_data: only when nothing is in flight, and the socket is open.
SendData(w, e, text) ==
  LET buffered == [w EXCEPT !.ends[e].out = @ \o text]
  IN  IF w.ends[e].out = <<>> /\ w.ends[e].phase # "closed" THEN StartWrite(buffered, e) ELSE buffered

\* async_send_request and async_send_response
SendMessage(w, e, m) == SendData([w EXCEPT !.sent[e] = Append(@, m)], e, EncodeMessage(m))

(***************************************************************************)
(* What the ends do with a message                                         *)
(***************************************************************************)

CSeqOf(m) == SelectSeq(m.headers, LAMBDA h : SameWord(h.name, CSeq))

\* Server::on_request and RavennaSender::on_request: whatever the method.
Answer(m) ==
  LET name == CHOOSE n \in Names : PathOf(n) = PathOfUri(m.uri)
  IN  IF ~\E n \in Served : PathOf(n) = PathOfUri(m.uri)
      THEN NewResponse(404, <<"Not Found">>, <<>>, <<"No handler registered for URI">>)
      ELSE IF TextOf[name] = <<>> THEN NewResponse(204, <<"No Content">>, CSeqOf(m), <<>>)
      ELSE NewResponse(200, <<"OK">>, SetHeader(CSeqOf(m), ContentType, SdpType), TextOf[name])

\* The path is subscribed to before it is known whether it has a handler.
OnRequestAtServer(w, m) ==
  SendMessage([w EXCEPT !.subscribed = @ \cup {n \in Names : PathOf(n) = PathOfUri(m.uri)}], "server", Answer(m))

\* on_request_event of RavennaRtspClient.  What the type is need not be said.
OnRequestAtClient(w, m) ==
  IF m.method = <<"ANNOUNCE">>
  THEN IF GetOr(m.headers, ContentType, SdpType) = SdpType THEN [w EXCEPT !.given = Append(@, m.data)] ELSE w
  ELSE IF m.method = <<"GET_PARAMETER">> /\ m.data = <<>>
  THEN SendMessage(w, "client", NewResponse(200, <<"OK">>, <<>>, <<>>)) ELSE w

\* on_response_event: an answer without a type is none.
OnResponseAtClient(w, m) ==
  IF m.status = 200 /\ m.data # <<>> /\ GetOr(m.headers, ContentType, None) = SdpType
  THEN [w EXCEPT !.given = Append(@, m.data)] ELSE w

Handle(w, e, m) ==
  LET received == [w EXCEPT !.got[e] = Append(@, m)]
  IN  CASE e = "server" /\ m.kind = "request" -> OnRequestAtServer(received, m)
        [] e = "client" /\ m.kind = "request" -> OnRequestAtClient(received, m)
        [] e = "client" /\ m.kind = "response" -> OnResponseAtClient(received, m)
        [] OTHER -> received

(***************************************************************************)
(* Actions                                                                 *)
(***************************************************************************)

World == [ends |-> ends, wire |-> wire, sent |-> sent, got |-> got, subscribed |-> subscribed, given |-> given]

Becomes(w) ==
  /\ ends' = w.ends /\ wire' = w.wire /\ sent' = w.sent /\ got' = w.got
  /\ subscribed' = w.subscribed /\ given' = w.given

NewEnd(phase) == [phase |-> phase, out |-> <<>>, writes |-> <<>>, parser |-> NewParser]
Nothing == [e \in Ends |-> <<>>]

InitConnection ==
  /\ ends = [client |-> NewEnd("closed"), server |-> NewEnd("open")]
  /\ wire = Nothing /\ sent = Nothing /\ got = Nothing /\ subscribed = {} /\ given = <<>>

MaySend(e) == Len(sent[e]) < MaxSent

\* async_describe and async_teardown.  The first follows async_connect at once, while
\* the name of the host is resolved.
Requests(method, name) ==
  LET cseq == [name |-> <<"CSeq">>, value |-> Show(Len(sent["client"]))]
      accept == [name |-> <<"Accept">>, value |-> SdpType]
  IN  NewRequest(method, EncodeUri(<<"host">>, PathOf(name)),
                 IF method = <<"DESCRIBE">> THEN <<cseq, accept>> ELSE <<cseq>>, <<>>)

Ask(method, name) ==
  /\ MaySend("client")
  /\ sent["client"] = <<>> => method = <<"DESCRIBE">>
  /\ Becomes(SendMessage(World, "client", Requests(method, name)))

\* The name is resolved and connected to: what was asked so far is written.
Connect ==
  /\ ends["client"].phase = "closed" /\ sent["client"] # <<>>
  /\ Becomes(StartWrite([World EXCEPT !.ends["client"].phase = "open"], "client"))

\* send_announce, to the connections that asked for the path.
Announce(name) ==
  /\ MaySend("server") /\ name \in subscribed \cap Served /\ TextOf[name] # <<>>
  /\ Becomes(SendMessage(World, "server",
       NewRequest(<<"ANNOUNCE">>, EncodeUri(<<"address", ":", "port">>, PathOf(name)),
                  <<[name |-> ContentType, value |-> SdpType]>>, TextOf[name])))

\* Another implementation of the server asks whether the client is alive.
Ping ==
  /\ MaySend("server") /\ got["server"] # <<>>
  /\ Becomes(SendMessage(World, "server", NewRequest(<<"GET_PARAMETER">>, EncodeUri(<<"host">>, Slash), <<>>, <<>>)))

\* The callback of async_write
WriteCompletes(e) ==
  LET w == [World EXCEPT !.ends[e].out = SubSeq(@, Head(ends[e].writes) + 1, Len(@)),
                         !.ends[e].writes = Tail(@)]
  IN  /\ ends[e].writes # <<>>
      /\ Becomes(StartWrite(w, e))

\* The callback of async_read_some: a part of what has arrived.
Read(e) ==
  /\ ends[e].phase = "open" /\ ends[e].parser.state # "failed"
  /\ \E n \in {i \in DOMAIN wire[e] : wire[e][i] \in Cuts \/ i = Len(wire[e])} :
       LET parsed == Feed(ends[e].parser, SubSeq(wire[e], 1, n))
           read == [World EXCEPT !.ends[e].parser = parsed.parser, !.wire[e] = SubSeq(@, n + 1, Len(@))]
       IN  Becomes(FoldLeft(LAMBDA w, m : Handle(w, e, m), read, parsed.messages))

NextConnection(names) ==
  \/ \E name \in names : Ask(<<"DESCRIBE">>, name) \/ Ask(<<"TEARDOWN">>, name) \/ Announce(name)
  \/ Connect
  \/ Ping
  \/ \E e \in Ends : WriteCompletes(e) \/ Read(e)

(***************************************************************************)
(* Properties                                                              *)
(***************************************************************************)

\* Messages without the header that encoding adds.
Messages(ms) ==
  [i \in DOMAIN ms |-> [ms[i] EXCEPT !.headers = SelectSeq(@, LAMBDA h : h.name # ContentLength)]]

Quiet == \A e \in Ends : wire[e] = <<>> /\ ends[e].out = <<>>
HasAskedFor(name) ==
  \E i \in DOMAIN sent["client"] : LET m == sent["client"][i]
                                  IN  m.kind = "request" /\ m.method = <<"DESCRIBE">> /\ m.uri = EncodeUri(<<"host">>, PathOf(name))

\* However the stream is cut into pieces and whatever is sent while a write is in
\* flight, an end receives the messages that the other sent, as they were sent and
\* in their order, and has them all when nothing is on its way (rtsp_parser.cpp:27,
\* rtsp_connection.cpp:91).
MessagesArriveAsSent ==
  \A e \in Ends :
    /\ IsPrefix(Messages(got[e]), sent[Other(e)])
    /\ wire[e] = <<>> /\ ends[Other(e)].out = <<>> => Messages(got[e]) = sent[Other(e)]

\* Who asked for a session that is served has been given its description when all
\* answers are there, whatever its name is made of (uri.cpp:140, rtsp_server.cpp:124).
SessionsAreFound ==
  Quiet => \A name \in Served :
             HasAskedFor(name) /\ TextOf[name] # <<>> => \E i \in DOMAIN given : given[i] = TextOf[name]

\* A receiver that is given the description of a sender expects what the sender streams:
\* of each enabled destination the address, the port and the packet size, the format,
\* and packets of the sender and of no other host.  What it saves is what it was given
\* (ravenna_sender.cpp:552, ravenna_receiver.cpp:487, sdp_session_description.cpp:20).
Understood(text, s) ==
  LET parameters == CreateRtpReceiverParameters(ParseSession(text))
      streams == ToSet(parameters.streams)
      enabled == {d \in ToSet(s.dsts) : d.enabled}
      Expects(stream, d) ==
        /\ stream.address = d.address /\ stream.port = 5004 /\ stream.frames = PacketFrames(s)
        /\ \A address \in Addresses :
             IsValidSource(stream, d.address, <<address>>) <=> <<address>> = InterfaceAddress(s, d.rank)
  IN  /\ parameters # Failed /\ parameters.format = s.format
      /\ \A d \in enabled : \E stream \in streams : Expects(stream, d)
      /\ Cardinality(streams) = Cardinality(enabled)
      /\ ShowSession(ParseSession(text)) = text

ReceiversUnderstandSenders ==
  Quiet => \A text \in ToSet(given) : \E name \in Served : TextOf[name] = text /\ Understood(text, SenderOf[name])
=============================================================================
