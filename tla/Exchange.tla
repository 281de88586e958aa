------------------------------ MODULE Exchange ------------------------------
(***************************************************************************)
(* Requests and responses as bytes on a connection: what ClientBase writes *)
(* and ServerBase reads, what Response::write() puts out and ClientBase    *)
(* reads (src/client_http.hpp, src/server_http.hpp).  The bytes arrive in  *)
(* segments of any size, so that a read may end anywhere in a message and  *)
(* take up a part of what follows it.                                      *)
(*                                                                         *)
(* Timeouts, failures and the limits of the buffers are those of           *)
(* ServerConnection and ClientPool; here every byte arrives.               *)
(***************************************************************************)
EXTENDS Utility, Naturals

CONSTANTS
    Requests,     \* what callers ask: [method, path, header, content]
    Replies,      \* what scripts and other servers answer:
                  \*   [style, status, header, content]
    MaxExchanges  \* bound on the requests of one connection

VARIABLES
    client,    \* what ClientBase reads into, and how far it is
    server,    \* the same of ServerBase
    up, down,  \* bytes under way to the server and to the client
    closed,    \* the server has closed the connection behind what is under way
    asked,     \* the caller's request
    answered,  \* the script's reply
    exchanges, \* requests made
    misled     \* history: on this connection an earlier reply was not as long
               \* as its header said

vars == <<client, server, up, down, closed, asked, answered, exchanges, misled>>

-----------------------------------------------------------------------------
(* Numbers: a length is one digit; -1 is where stoull() throws. *)

Digits == <<"0", "1", "2", "3", "4", "5", "6", "7", "8", "9">>
Digit(n) == <<Digits[n + 1]>>
NumberOf(text) == SelectInSeq(Digits, LAMBDA d : <<d>> = text) - 1

Line(text) == text \o EOL
HeaderLines(header) ==
    FlattenSeq([i \in DOMAIN header |->
                  Line(header[i].name \o <<":", " ">> \o header[i].value)])

Has(header, name) == ValuesOf(header, name) # <<>>

\* The code looks at the first field of the name and compares its value.
IsChunked(header) ==
    LET values == ValuesOf(header, <<"Transfer-Encoding">>)
    IN  values # <<>> /\ values[1] = <<"chunked">>

-----------------------------------------------------------------------------
(* What is written *)

LengthField(n) == << Field(<<"Content-Length">>, Digit(n)) >>

Host == << Field(<<"Host">>, <<"localhost">>) >>

\* The fields of a request: Host, the caller's, and a length if it has content.
RequestHeader(r) ==
    Host \o r.header \o
    IF /\ r.content # <<>>
       /\ ~Has(r.header, <<"Content-Length">>)
       /\ ~IsChunked(r.header)
    THEN LengthField(Len(r.content)) ELSE <<>>

Target(r) == IF r.path = <<>> THEN <<"/">> ELSE r.path

\* create_request_header(), and the end of request().
RequestText(r) ==
    Line(r.method \o <<" ">> \o Target(r) \o <<" ">> \o HTTP \o <<"/", "1.1">>)
    \o HeaderLines(RequestHeader(r)) \o EOL \o r.content

\* write_header(): a length unless the script has given one, or sends chunks,
\* or has the connection closed after the response.
ReplyHeader(r) ==
    r.header \o
    IF \/ Has(r.header, <<"Content-Length">>)
       \/ \E i \in DOMAIN r.header :
             /\ CaseInsensitiveEqual(r.header[i].name, <<"Transfer-Encoding">>)
             /\ CaseInsensitiveEqual(r.header[i].value, <<"chunked">>)
       \/ r.style = "autoClose"
    THEN <<>> ELSE LengthField(IF r.style = "appended" THEN 0 ELSE Len(r.content))

\* Response::write(status_code, content, header); or without the content, that
\* the script appends by itself.
OwnReply(r) ==
    Line(HTTP \o <<"/", "1.1", " ">> \o r.status)
    \o HeaderLines(ReplyHeader(r)) \o EOL \o r.content

\* Other servers: lines that end with '\n' alone, and a response without a
\* length that ends with the connection.
WithoutCR(text) == SelectSeq(text, LAMBDA c : c # CR)

BareLineReply(r) ==
    WithoutCR(Line(HTTP \o <<"/", "1.1", " ">> \o r.status)
              \o HeaderLines(r.header \o LengthField(Len(r.content))) \o EOL)
    \o r.content

OldReply(r) ==
    Line(HTTP \o <<"/", "1.0", " ">> \o r.status)
    \o HeaderLines(r.header) \o EOL \o r.content

ReplyText(r) ==
    CASE r.style \in {"own", "appended", "autoClose"} -> OwnReply(r)
      [] r.style = "bareLines" -> BareLineReply(r)
      [] r.style = "old" -> OldReply(r)

\* write(status) announces a content of 0 bytes, whatever append() or sendFile()
\* puts behind it.
Misannounced(r) ==
    /\ r # NotParsed
    /\ LET lengths == ValuesOf(ReplyHeader(r), <<"Content-Length">>)
       IN  lengths # <<>> /\ NumberOf(lengths[1]) # Len(r.content)

-----------------------------------------------------------------------------
(* What is read.  A reader has the Session's streambuf, the chunks_streambuf *)
(* beside it, the operation that is pending, the bytes that it still needs,  *)
(* the length of the current chunk, and the message parsed.                  *)

Reader(stage) ==
    [stage |-> stage, buf |-> <<>>, chunks |-> <<>>, need |-> 0, length |-> 0,
     message |-> NotParsed]

\* Bytes up to and including the first occurrence of a delimiter, 0 if none.
EndOf(delimiter, s) ==
    LET at == {i \in 1 .. Len(s) - Len(delimiter) + 1 :
                  SubSeq(s, i, i + Len(delimiter) - 1) = delimiter}
    IN  IF at = {} THEN 0
        ELSE (CHOOSE i \in at : \A j \in at : i <= j) + Len(delimiter) - 1

ServerHeaderEnd(s) == EndOf(EOL \o EOL, s)

\* Bytes taken by HeaderEndMatch up to the end it reports, 0 if it does not.
ClientHeaderEnd(s) ==
    LET end[i \in 1 .. Len(s) + 1, m \in Matches] ==
            IF m.found THEN i - 1
            ELSE IF i > Len(s) THEN 0
            ELSE end[i + 1, MatchByte(m, s[i])]
    IN  end[1, NewMatch]

\* async_read_until() goes on until its delimiter is there, async_read() with
\* transfer_exactly() until it has its bytes, and without a condition to eof.
Incomplete(r, headerEnd) ==
    \/ r.stage = "header" /\ headerEnd = 0
    \/ r.stage = "chunk" /\ EndOf(EOL, r.chunks) = 0
    \/ r.stage \in {"body", "chunkBody"} /\ r.need > 0
    \/ r.stage = "rest"

\* A segment goes into the buffer of the pending operation.
Receive(r, bytes) ==
    CASE r.stage \in {"header", "rest"} -> [r EXCEPT !.buf = @ \o bytes]
      [] r.stage = "body" -> [r EXCEPT !.buf = @ \o bytes, !.need = @ - Len(bytes)]
      [] r.stage = "chunk" -> [r EXCEPT !.chunks = @ \o bytes]
      [] r.stage = "chunkBody" -> [r EXCEPT !.chunks = @ \o bytes,
                                            !.need = @ - Len(bytes)]

Fits(r, n) == r.stage \in {"body", "chunkBody"} => n <= r.need

\* The header is there: how the content is delimited.  num_additional_bytes is
\* what the buffer holds behind the header's end.
HeaderRead(r, end, message, undelimited) ==
    LET additional == Len(r.buf) - end
        length == NumberOf(ValuesOf(message.header, <<"Content-Length">>)[1])
        parsed == [r EXCEPT !.message = message, !.buf = message.rest]
    IN  CASE ~message.ok -> [r EXCEPT !.stage = "failed"]
          [] message.ok /\ Has(message.header, <<"Content-Length">>) /\ length = -1 ->
               [r EXCEPT !.stage = "failed"]
          [] message.ok /\ Has(message.header, <<"Content-Length">>) /\ length > additional ->
               [parsed EXCEPT !.stage = "body", !.need = length - additional]
          [] message.ok /\ Has(message.header, <<"Content-Length">>) /\ length \in 0..additional ->
               [parsed EXCEPT !.stage = "complete"]
          [] message.ok /\ ~Has(message.header, <<"Content-Length">>) /\ IsChunked(message.header) ->
               [parsed EXCEPT !.stage = "chunk", !.buf = <<>>, !.chunks = message.rest]
          [] OTHER -> [parsed EXCEPT !.stage = undelimited]

\* Mutant: the "\r\n" behind a chunk is left in the buffer.
ChunkReadKeepsEOL(r) ==
    [r EXCEPT !.stage = IF r.length > 0 THEN "chunk" ELSE "complete",
              !.buf = @ \o SubSeq(r.chunks, 1, r.length),
              !.chunks = From(@, r.length + 1)]

\* read_chunked_transfer_encoded_chunk(): the last chunk is the empty one.
ChunkRead(r) ==
    [r EXCEPT !.stage = IF r.length > 0 THEN "chunk" ELSE "complete",
              !.buf = @ \o SubSeq(r.chunks, 1, r.length),
              !.chunks = From(@, r.length + 2 + 1)]

\* read_chunked_transfer_encoded(): the line with the chunk's length is there.
ChunkLineRead(r) ==
    LET line == FirstLine(r.chunks)
        rest == BehindFirstLine(r.chunks)
        length == NumberOf(DropLast(line))
        sized == [r EXCEPT !.chunks = rest, !.length = length]
    IN  IF length = -1 THEN [sized EXCEPT !.stage = "failed"]
        ELSE IF 2 + length > Len(rest)
        THEN [sized EXCEPT !.stage = "chunkBody", !.need = 2 + length - Len(rest)]
        ELSE ChunkRead(sized)

-----------------------------------------------------------------------------
Init ==
    /\ client = Reader("idle") /\ server = Reader("header")
    /\ up = <<>> /\ down = <<>> /\ closed = FALSE
    /\ asked = NotParsed /\ answered = NotParsed
    /\ exchanges = 0 /\ misled = FALSE

\* request(): header and content are written, then the response is awaited.
\* A connection that the server has closed is replaced, here when the last
\* response has come out of it; what is left in one that stays open comes in
\* front of the next response.
Ask(r) ==
    /\ client.stage \in {"idle", "complete"}
    /\ closed => down = <<>>
    /\ exchanges < MaxExchanges
    /\ client' = Reader("header")
    /\ up' = IF closed THEN RequestText(r) ELSE up \o RequestText(r)
    /\ server' = IF closed THEN Reader("header") ELSE server
    /\ closed' = FALSE
    /\ asked' = r /\ answered' = NotParsed
    /\ exchanges' = exchanges + 1
    /\ misled' = (~closed /\ (misled \/ Misannounced(answered)))
    /\ UNCHANGED down

ServerReceives ==
    /\ Incomplete(server, ServerHeaderEnd(server.buf))
    /\ \E n \in 1 .. Len(up) :
          /\ Fits(server, n)
          /\ server' = Receive(server, SubSeq(up, 1, n))
          /\ up' = From(up, n + 1)
    /\ UNCHANGED <<client, down, closed, asked, answered, exchanges, misled>>

\* Mutant: what has been read with the header is not counted.
ServerHeaderReadAll(r) ==
    HeaderRead(r, Len(r.buf), RequestParse(r.buf), "complete")

\* ServerBase::read()'s completion handler: without a length and chunks a
\* request has no content.
ServerHeaderRead(r) ==
    HeaderRead(r, ServerHeaderEnd(r.buf), RequestParse(r.buf), "complete")

ServerMayRead ==
    /\ server.stage \in {"header", "body", "chunk", "chunkBody"}
    /\ ~Incomplete(server, ServerHeaderEnd(server.buf))

ServerReads ==
    /\ ServerMayRead
    /\ server' = CASE server.stage = "header" -> ServerHeaderRead(server)
                   [] server.stage = "body" -> [server EXCEPT !.stage = "complete"]
                   [] server.stage = "chunk" -> ChunkLineRead(server)
                   [] server.stage = "chunkBody" -> ChunkRead(server)
    /\ UNCHANGED <<client, up, down, closed, asked, answered, exchanges, misled>>

\* The request asks for it with a field of its own.
ClosesAfter(header) ==
    \E i \in DOMAIN header : /\ CaseInsensitiveEqual(header[i].name, <<"Connection">>)
                             /\ CaseInsensitiveEqual(header[i].value, <<"close">>)

\* The resource function has written its response, the deleter sends it and
\* goes on with a new Session, or leaves the connection to be closed.
Handle(reply) ==
    /\ server.stage = "complete"
    /\ answered' = reply
    /\ down' = down \o ReplyText(reply)
    /\ closed' = \/ reply.style \in {"autoClose", "old"}
                 \/ ClosesAfter(server.message.header)
    /\ server' = IF closed' THEN Reader("closed") ELSE Reader("header")
    /\ UNCHANGED <<client, up, asked, exchanges, misled>>

ClientReceives ==
    /\ Incomplete(client, ClientHeaderEnd(client.buf))
    /\ \E n \in 1 .. Len(down) :
          /\ Fits(client, n)
          /\ client' = Receive(client, SubSeq(down, 1, n))
          /\ down' = From(down, n + 1)
    /\ UNCHANGED <<server, up, closed, asked, answered, exchanges, misled>>

\* Mutant: a response without a length ends with its header.
ClientHeaderReadShort(r) ==
    HeaderRead(r, ClientHeaderEnd(r.buf), ResponseParse(r.buf), "complete")

\* ClientBase::read()'s completion handler: below HTTP/1.1, a response without
\* length and chunks has all that comes until the connection ends.  (The field
\* that would say so in HTTP/1.1 is looked up as "Session".)
ClientHeaderRead(r) ==
    LET message == ResponseParse(r.buf)
    IN  HeaderRead(r, ClientHeaderEnd(r.buf), message,
                   IF message.ok /\ message.version = <<"1.0">> THEN "rest" ELSE "complete")

ClientMayRead ==
    /\ client.stage \in {"header", "body", "chunk", "chunkBody"}
    /\ ~Incomplete(client, ClientHeaderEnd(client.buf))

ClientReads ==
    /\ ClientMayRead
    /\ client' = CASE client.stage = "header" -> ClientHeaderRead(client)
                   [] client.stage = "body" -> [client EXCEPT !.stage = "complete"]
                   [] client.stage = "chunk" -> ChunkLineRead(client)
                   [] client.stage = "chunkBody" -> ChunkRead(client)
    /\ UNCHANGED <<server, up, down, closed, asked, answered, exchanges, misled>>

\* eof ends the read of the rest, and is no error then.
ClientEof ==
    /\ client.stage = "rest"
    /\ closed /\ down = <<>>
    /\ client' = [client EXCEPT !.stage = "complete"]
    /\ UNCHANGED <<server, up, down, closed, asked, answered, exchanges, misled>>

Next ==
    \/ \E r \in Requests : Ask(r)
    \/ ServerReceives \/ ServerReads
    \/ \E reply \in Replies : Handle(reply)
    \/ ClientReceives \/ ClientReads \/ ClientEof

Spec == Init /\ [][Next]_vars

\* What is under way arrives, io threads run the handlers, and the script
\* answers every request.  The second conjunct is WF_vars of ServerReads and of
\* ClientReads, with their enabledness, that TLC is slow to find, written out.
Fairness ==
    /\ WF_vars(ServerReceives) /\ WF_vars(ClientReceives)
    /\ /\ []<>~ServerMayRead \/ []<><<ServerReads>>_vars
       /\ []<>~ClientMayRead \/ []<><<ClientReads>>_vars
    /\ WF_vars(\E reply \in Replies : Handle(reply)) /\ WF_vars(ClientEof)

FairSpec == Spec /\ Fairness

-----------------------------------------------------------------------------
(* Properties *)

\* The content behind a text of chunks: external, as callers and scripts
\* write it when they set Transfer-Encoding themselves.
Unchunked(text) ==
    LET chunk[i \in 1 .. Len(text) + 1] ==
            IF i > Len(text) \/ text[i] = "0" THEN <<>>
            ELSE LET n == NumberOf(<<text[i]>>)
                 IN  SubSeq(text, i + 3, i + 2 + n) \o chunk[i + 5 + n]
    IN  chunk[1]

ContentOf(r) == IF IsChunked(r.header) THEN Unchunked(r.content) ELSE r.content

(* The handler sees the request that the caller made: method, target,      *)
(* fields and content, however the bytes were cut and whatever bytes the   *)
(* content is made of (src/server_http.hpp:541-713,                        *)
(* src/client_http.hpp:292-304, 484-502).                                  *)
RequestArrives ==
    server.stage = "complete" =>
        LET m == server.message
        IN  /\ m.ok
            /\ m.method = asked.method
            /\ m.path \o (IF m.query = <<>> THEN <<>> ELSE <<"?">> \o m.query)
               = Target(asked)
            /\ m.version = <<"1.1">>
            /\ m.header = RequestHeader(asked)
            /\ server.buf = ContentOf(asked)

(* The caller's callback gets the response that was written: its status,   *)
(* its fields, its content.  A part of the content may be all it gets when *)
(* the server marks the end of an HTTP/1.1 response by closing, and when   *)
(* the script has appended to a response whose header says that it has no  *)
(* content.  After the latter nothing is said of the connection's further  *)
(* responses: they start with what was left of it                          *)
(* (src/server_http.hpp:57-73, 152-184; src/client_http.hpp:518-718).      *)
ResponseArrives ==
    client.stage = "complete" /\ ~misled =>
        LET m == client.message
        IN  /\ m.ok
            /\ m.status = answered.status
            /\ \A f \in ToSet(answered.header) : f \in ToSet(m.header)
            /\ IF answered.style = "autoClose" \/ Misannounced(answered)
               THEN IsPrefix(client.buf, answered.content)
               ELSE client.buf = ContentOf(answered)

(* A message is taken from the connection to its last byte, so that the    *)
(* next read starts with the next message: the Session's buffers, which    *)
(* are dropped with it, hold nothing else (src/server_http.hpp:764-768).   *)
(* Of requests that is so always; of responses unless the closing of the   *)
(* connection marks the end or the script has appended to one that was     *)
(* announced to be empty, whose bytes stay in front of the next response.  *)
NothingLeftBehind ==
    /\ server.stage = "complete" => up = <<>> /\ server.chunks = <<>>
    /\ client.stage = "complete" /\ ~misled =>
          \/ answered.style = "autoClose" \/ Misannounced(answered)
          \/ down = <<>> /\ client.chunks = <<>>

(* No read waits for a byte that does not come: every request reaches its  *)
(* handler, and every response its callback, unless an earlier response on *)
(* the connection was longer than it said.                                 *)
ExchangeEnds == client.stage = "header" ~> client.stage = "complete" \/ misled
=============================================================================
