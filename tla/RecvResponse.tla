---------------------------- MODULE RecvResponse ----------------------------
(***************************************************************************)
(* HttpConnection::recvResponse with its HttpResponseParser                *)
(* (http_connection.cc, http_parser.cc, httpclient_parser.rl.cc), reading  *)
(* what a server sends.                                                    *)
(*                                                                         *)
(* The server sends a response of RFC 7230, character by character: any    *)
(* headers, at most one that frames the message, and no body (HEAD, 204,   *)
(* 304), a body of Content-Length bytes, in chunks with extensions, after  *)
(* other codings or with trailers, or up to the end of the connection.     *)
(* Where a read() ends is up to the network: before any character a read   *)
(* may just have ended, and then httpclient_parser_execute starts anew     *)
(* with its pointers at the start of the buffer.                           *)
(*                                                                         *)
(* In names, values, the reason and extensions the server chooses only     *)
(* among characters that the parser can tell apart there.  The message is  *)
(* not bounded, only the digits of its numbers and the parts that a read   *)
(* ends in are.  long and int64_t have LongBits bits and int has IntBits.  *)
(***************************************************************************)
EXTENDS ResponseMachine, SequencesExt

CONSTANTS
  LongBits,   \* bits of long, int64_t and uint64_t
  IntBits,    \* bits of int
  MaxDigits,  \* bound on the digits of a Content-Length and of a chunk's size
  MaxCuts     \* bound on the parts of a message in CutPart that a read ends in

VARIABLES
  phase,    \* where recvResponse is: head; size (the line before a chunk); data
            \* (behind that line, in the buffer), chunk (reading the rest of one);
            \* buffered (behind a head without chunks), rest (in readFixSize)
  parser,   \* HttpResponseParser and what it has put into the HttpResponse
  offset,   \* bytes in the buffer that are not parsed: offset, and len for chunks
  left,     \* bytes that are still to be read for a chunk or by readFixSize
  ret,      \* "none" (not yet), "response", "nullptr", "abort" (an assert), "throw"
  server,   \* the message as far as it was sent
  cuts,     \* history: the parts of the message that a read ended in
  torn,     \* history: a byte was not taken for what it is
  eof       \* the connection ended, or the read timed out

vars == <<phase, parser, offset, left, ret, server, cuts, torn, eof>>

ContentLength == <<"c", "o", "n", "t", "e", "n", "t", "-", "l", "e", "n", "g", "t", "h">>
TransferEncoding == <<"t", "r", "a", "n", "s", "f", "e", "r", "-",
                      "e", "n", "c", "o", "d", "i", "n", "g">>
Connection == <<"c", "o", "n", "n", "e", "c", "t", "i", "o", "n">>

\* How much of a word has been read: -1 when it is another word
Progress(word, k, c) ==
  IF k \in 0..(Len(word) - 1) /\ c \in Either(word[k + 1]) THEN k + 1 ELSE -1
NextOf(word, k) == IF k \in 0..(Len(word) - 1) THEN {word[k + 1]} ELSE {}

\* The transition of the parser's state for a character
Edge(p, c) == IF c \in DOMAIN Switch[p.cs] THEN Switch[p.cs][c] ELSE <<0, <<>>>>

\* Text read as a number: Empty, NaN or the number, Beyond if uint64_t cannot hold it
Empty == -2
NaN == -1
Beyond == 2^LongBits
HexValue == "0" :> 0 @@ "1" :> 1 @@ "6" :> 6 @@ "a" :> 10 @@ "b" :> 11 @@ "c" :> 12 @@ "d" :> 13
              @@ "e" :> 14 @@ "f" :> 15
Number(v, c, base, digits) ==
  IF v = NaN \/ c \notin digits THEN NaN
  ELSE LET n == (IF v = Empty THEN 0 ELSE v) * base + HexValue[c]
       IN  IF n > Beyond THEN Beyond ELSE n

\* uint64_t to int64_t at http_connection.cc:113, size_t to int in readFixSize, long
\* to int for content_len, where strtol has LONG_MAX for what it cannot hold
Signed(n, bits) == LET k == n % 2^bits IN IF k < 2^(bits - 1) THEN k ELSE k - 2^bits
AsLong(n) == Signed(n, LongBits)
AsInt(n) == Signed(n, IntBits)
\* The first numbers that int64_t, and int, cannot hold
LongMin == 2^(LongBits - 1)
IntMin == 2^(IntBits - 1)
strtol(n) == IF n < LongMin THEN n ELSE LongMin - 1

-----------------------------------------------------------------------------
(***************************************************************************)
(* The server.  at: the part of the message it sends; i: characters of a   *)
(* fixed word, or digits, already sent; v: the number they make; then: what *)
(* comes after the line's LF.                                              *)
(***************************************************************************)
NewMessage ==
  [at |-> "version", i |-> 0, v |-> 0, then |-> "none",
   names |-> <<0, 0, 0>>,        \* progress of the name
   kind |-> "none", length |-> -1, chunked |-> FALSE,
   coded |-> FALSE,                 \* another coding before the chunks
   bodiless |-> FALSE,              \* of HEAD, 204 or 304 (set where it matters): no body
   huge |-> FALSE,                  \* a chunk that is too large for an int
   nameCut |-> FALSE,               \* a read ended in the current name
   padded |-> FALSE,                \* a blank after a length or after "chunked"
   empty |-> FALSE, stray |-> FALSE \* an empty Connection, at the very end
  ]

StatusVersion == <<"H", "T", "T", "P", "/", "1", ".">>
Send(c, m) == [c |-> c, m |-> m]
CrLf(m, then) == Send("CR", [m EXCEPT !.at = "lf", !.then = then])

\* What follows the empty line
BodyPart(m) ==
  CASE m.bodiless -> "end" [] m.chunked -> "size" [] m.length > 0 -> "data"
    [] m.length = 0 -> "end" [] OTHER -> "open"

SendStatus(m) ==
  CASE m.at = "version" /\ m.i < Len(StatusVersion) ->
         {Send(StatusVersion[m.i + 1], [m EXCEPT !.i = @ + 1])}
    [] m.at = "version" /\ m.i = Len(StatusVersion) ->
         {Send(c, [m EXCEPT !.i = @ + 1]) : c \in {"0", "1"}}
    [] m.at = "version" -> {Send("sp", [m EXCEPT !.at = "status", !.i = 0])}
    [] m.at = "status" /\ m.i = 0 -> {Send("1", [m EXCEPT !.i = 1])}
    [] m.at = "status" /\ m.i < 3 -> {Send(c, [m EXCEPT !.i = @ + 1]) : c \in {"0", "1"}}
    [] m.at = "status" -> {Send("sp", [m EXCEPT !.at = "reason", !.i = 0])}
    [] m.at = "reason" ->
         {Send(c, m) : c \in {"x", "sp"}} \cup {CrLf(m, "line")}

\* A field's name; one header may say how the message is framed
Kind(names) ==
  CASE names[1] = Len(ContentLength) -> "length"
    [] names[2] = Len(TransferEncoding) -> "coding"
    [] names[3] = Len(Connection) -> "connection"
    [] OTHER -> "other"
Framed(m) == m.length >= 0 \/ m.chunked
\* Characters that the state of the automaton tells apart, and those that continue
\* a name that matters for the server, or for the parser after a cut
Apart == {c \in {"c", "l", "o", "s", "e"} : Edge(parser, c) # Edge(parser, "x")} \cup {"x"}
NameChars(m) ==
  Apart \cup {"c"} \cup NextOf(ContentLength, m.names[1]) \cup NextOf(ContentLength, parser.name)
    \cup NextOf(TransferEncoding, m.names[2]) \cup NextOf(Connection, m.names[3])
NameChar(m, c) ==
  Send(c, [m EXCEPT !.at = "name",
             !.names = <<Progress(ContentLength, @[1], c),
                         Progress(TransferEncoding, @[2], c),
                         Progress(Connection, @[3], c)>>])
SendName(m) ==
  CASE m.at = "line" ->
         {NameChar(m, c) : c \in NameChars(m)}
           \cup {CrLf([m EXCEPT !.stray = m.empty, !.bodiless = b], "body") : b \in BOOLEAN}
    [] m.at = "name" ->
         {NameChar(m, c) : c \in NameChars(m)}
           \cup {Send(":", [m EXCEPT !.at = Kind(m.names), !.kind = Kind(m.names),
                                     !.names = <<0, 0, 0>>, !.i = 0, !.v = 0, !.empty = FALSE]) :
                 x \in {1} \ (IF Kind(m.names) \in {"length", "coding"} /\ Framed(m)
                                THEN {1} ELSE {})}

\* Its value
ChunkedWord == <<"c", "h", "u", "n", "k", "e", "d">>
EndOfValue(m) ==
  {CrLf(m, "line"), Send("sp", [m EXCEPT !.at = "pad", !.padded = TRUE])}
SendValue(m) ==
  CASE m.at = "length" ->
         (IF m.i = 0 THEN {Send("sp", m)} ELSE EndOfValue([m EXCEPT !.length = m.v]))
           \cup {Send(c, [m EXCEPT !.i = @ + 1, !.v = Number(@, c, 10, Digit)]) :
                 c \in IF m.i < MaxDigits THEN Digit ELSE {}}
    [] m.at = "coding" ->
         (IF m.i = 0 THEN {Send("sp", m), Send("x", [m EXCEPT !.at = "codings", !.coded = TRUE])}
          ELSE {})
           \cup (IF m.i = Len(ChunkedWord) THEN EndOfValue([m EXCEPT !.chunked = TRUE])
                 ELSE {Send(ChunkedWord[m.i + 1], [m EXCEPT !.i = @ + 1])})
    [] m.at = "codings" -> {Send(c, m) : c \in {"x", "sp"}} \cup {CrLf([m EXCEPT !.chunked = TRUE], "line")}
    [] m.at = "pad" -> {CrLf(m, "line")}
    [] m.at \in {"connection", "other"} ->
         {Send(c, [m EXCEPT !.i = IF c \in Blank THEN @ ELSE 1]) : c \in Apart \cup {"sp"}}
           \cup {CrLf([m EXCEPT !.empty = m.at = "connection" /\ m.i = 0], "line")}

\* The line before a chunk, the chunk and the line after it, a trailer instead of the
\* last one; a body, of which only a byte is sent when nothing says how long it is
ExtChars == {"x", "0", "H"}
EndOfSize(m) == CrLf([m EXCEPT !.huge = m.v + 2 >= IntMin], "chunk")
SendBody(m) ==
  CASE m.at = "size" ->
         {Send(c, [m EXCEPT !.i = @ + 1, !.v = Number(@, c, 16, Hex)]) :
            c \in IF m.i < MaxDigits THEN {"0", "1", "a", "e"} ELSE {}}
           \cup (IF m.i > 0 THEN {EndOfSize(m), Send(";", [m EXCEPT !.at = "ext"])} ELSE {})
    [] m.at = "ext" -> {Send(c, [m EXCEPT !.at = "extname"]) : c \in ExtChars}
    [] m.at = "extname" ->
         {Send(c, m) : c \in ExtChars}
           \cup {Send("=", [m EXCEPT !.at = "exteq"]), Send(";", [m EXCEPT !.at = "ext"]),
                 EndOfSize(m)}
    [] m.at = "exteq" ->
         {Send(c, [m EXCEPT !.at = "extvalue"]) : c \in ExtChars}
           \cup {Send("hi", [m EXCEPT !.at = "quoted"])}
    [] m.at = "extvalue" ->
         {Send(c, m) : c \in ExtChars} \cup {Send(";", [m EXCEPT !.at = "ext"]), EndOfSize(m)}
    [] m.at = "data" /\ ~m.chunked /\ m.length >= LongMin /\ m.v < m.length -> {}
    [] m.at = "data" ->
         {Send("hi", [m EXCEPT !.v = @ - 1,
                               !.at = IF m.v > 1 THEN "data" ELSE IF m.chunked THEN "after" ELSE "end"])}
    [] m.at = "after" -> {CrLf(m, "size")}
    [] m.at = "last" -> {CrLf(m, "end")}
    [] m.at = "trailer" -> {Send("x", m)}
    [] m.at = "open" -> IF m.i = 0 THEN {Send("hi", [m EXCEPT !.i = 1])} ELSE {}

\* What is sent next; of a body whose length int64_t cannot hold only the first byte
Sends(m) ==
  CASE m.at \in {"version", "status", "reason"} -> SendStatus(m)
    [] m.at \in {"line", "name"} -> SendName(m)
    [] m.at \in {"length", "coding", "codings", "pad", "connection", "other"} -> SendValue(m)
    [] m.at = "lf" ->
         {Send("LF", [m EXCEPT !.at = to, !.i = 0, !.then = "none",
                               !.v = IF m.then = "chunk" THEN @
                                     ELSE IF to = "data" THEN m.length ELSE 0]) :
            to \in CASE m.then = "body" -> {BodyPart(m)}
                     [] m.then = "chunk" -> IF m.v = 0 THEN {"last", "trailer"} ELSE {"data"}
                     [] OTHER -> {m.then}}
    [] m.at \in {"end", "quoted"} -> {}
    [] OTHER -> SendBody(m)

\* What the next byte is
Role(m) ==
  CASE m.at \in {"size", "ext", "extname", "exteq", "extvalue"} -> "size"
    [] m.at = "trailer" -> "trailer"
    [] m.at = "lf" /\ m.then = "chunk" -> "size"
    [] m.at \in {"data", "open"} -> "data"
    [] m.at \in {"after", "last"} -> "crlf"
    [] m.at = "lf" /\ m.then \in {"size", "end"} -> "crlf"
    [] OTHER -> "head"

\* The part of the message that a read ends in before the next byte
CutPart(m) ==
  CASE m.at = "version" /\ m.i > 0 -> {"version"}
    [] m.at = "status" /\ m.i > 0 -> {"status"}
    [] m.at = "length" -> {"length"}
    [] m.at = "pad" /\ m.kind = "length" -> {"length"}
    [] Role(m) = "size" /\ (m.i > 0 \/ m.at # "size") -> {"size"}
    [] OTHER -> {}

-----------------------------------------------------------------------------
(***************************************************************************)
(* httpclient_parser_execute and the callbacks of HttpResponseParser       *)
(***************************************************************************)

\* Of the texts from field_start and from mark on the parser needs: how far the
\* first is content-length (name), that text when field_len was set (field, 0 when
\* field_len is 0), the second as a number (value), and whether it starts where
\* its element starts (mark).
NewParser ==
  [cs |-> 1, name |-> 0, field |-> 0, value |-> Empty, mark |-> "none",
   chunked |-> FALSE, size |-> -1, length |-> 0, status |-> FALSE,
   error |-> FALSE, early |-> FALSE]

\* A new execute: mark, field_start and field_len are 0
Execute(p) == [p EXCEPT !.name = 0, !.field = 0, !.value = Empty, !.mark = "none"]

\* One action.  on_response_version compares the text from mark on with HTTP/1.1
\* and HTTP/1.0: the rest of a version is neither, but no text at all is.
\* on_response_status takes the number from mark on.  on_response_http_field
\* drops a field whose length is 0; getContentLength reads the last one of that
\* name, as 0 if it is no uint64_t.
Act(p, a) ==
  CASE a \in {"mark", "start_value"} -> [p EXCEPT !.value = Empty, !.mark = "whole"]
    [] a = "start_field" -> [p EXCEPT !.name = 0]
    [] a = "write_field" -> [p EXCEPT !.field = p.name]
    [] a = "write_value" /\ p.field = Len(ContentLength) ->
         [p EXCEPT !.length = IF p.value \in 0..(Beyond - 1) THEN p.value ELSE 0]
    [] a = "http_version" -> [p EXCEPT !.error = p.mark = "part"]
    [] a = "status_code" -> [p EXCEPT !.status = p.mark = "whole"]
    [] a = "chunk_size" -> [p EXCEPT !.size = AsInt(strtol(p.value))]
    [] a = "trans_chunked" -> [p EXCEPT !.chunked = TRUE]
    [] OTHER -> p

\* The byte becomes part of the two texts
Append1(p, c) ==
  [p EXCEPT !.name = Progress(ContentLength, @, c),
            !.value = IF phase = "size" THEN Number(@, c, 16, Hex) ELSE Number(@, c, 10, Digit),
            !.mark = IF @ = "none" THEN "part" ELSE @]

Step(p, c) ==
  LET e == Edge(p, c)
      done == Contains(e[2], "done")
      q == [FoldLeft(Act, p, e[2]) EXCEPT !.cs = e[1]]
  IN  IF done THEN [Execute(q) EXCEPT !.early = e[1] # 120] ELSE Append1(q, c)

HasError(p) == p.error \/ p.cs = 0
IsFinished(p) == p.cs = 120

-----------------------------------------------------------------------------
(***************************************************************************)
(* recvResponse                                                            *)
(***************************************************************************)
Init ==
  /\ phase = "head" /\ parser = NewParser /\ offset = 0 /\ left = 0
  /\ ret = "none" /\ server = NewMessage
  /\ cuts = {} /\ torn = FALSE /\ eof = FALSE

\* content_len + 2 <= len: the chunk and its CRLF are in the buffer
InBuffer(len) == AsInt(parser.size + 2) <= len

\* What recvResponse takes the next byte for
Taken ==
  CASE phase = "data" /\ InBuffer(offset) -> "nothing"
    [] phase = "data" -> IF offset < parser.size THEN "data" ELSE "crlf"
    [] phase = "chunk" -> IF left > 2 THEN "data" ELSE "crlf"
    [] phase \in {"buffered", "rest"} -> "data"
    [] OTHER -> phase

\* A byte arrives, and a read has just ended before it if cut.  A cut in a name
\* counts when the name is content-length, or when its rest is.
Arrives(c, m, cut) ==
  LET named == server.at = "name" /\ c = ":" IN
  /\ server' = [m EXCEPT !.nameCut = m.at = "name" /\ (@ \/ (cut /\ server.at = "name"))]
  /\ cuts' = cuts \cup (IF cut THEN CutPart(server) ELSE {})
                  \cup (IF named /\ m.kind = "length" /\ (cut \/ server.nameCut) THEN {"length"} ELSE {})
                  \cup (IF /\ named /\ m.kind # "length" /\ ~cut
                           /\ parser.name = Len(ContentLength)
                          THEN {"rest"} ELSE {})
  /\ Cardinality(cuts') <= MaxCuts
  /\ eof' = eof

\* The head: execute, hasError, isFinished
HeadByte(c, cut) ==
  LET q == Step(IF cut THEN Execute(parser) ELSE parser, c) IN
  /\ phase = "head"
  /\ parser' = IF IsFinished(q) THEN [q EXCEPT !.cs = 1] ELSE q
  /\ \/ /\ ret' = IF HasError(q) THEN "nullptr" ELSE "none"
        /\ phase' = CASE ~IsFinished(q) \/ q.error -> "head"
                      [] q.chunked -> "size" [] OTHER -> "buffered"
     \/ \* assert(parser->body_start <= len) after a "done" that is not the end
        /\ parser.early
        /\ ret' = "abort" /\ phase' = phase
  /\ UNCHANGED <<offset, left>>

\* The line before a chunk: every execute starts with httpclient_parser_init
SizeByte(c, cut) ==
  LET q == Step(IF cut THEN NewParser ELSE parser, c) IN
  /\ phase = "size"
  /\ parser' = [q EXCEPT !.status = parser.status, !.chunked = TRUE, !.length = 0,
                         !.cs = IF IsFinished(q) THEN 1 ELSE @]
  /\ ret' = IF HasError(q) THEN "nullptr" ELSE "none"
  /\ phase' = IF IsFinished(q) THEN "data" ELSE "size"
  /\ UNCHANGED <<offset, left>>

\* The chunk has been taken: the next line, in what remains of the buffer or in a
\* new read, or, with chunks_done, the end
NextChunk(len) ==
  /\ offset' = len
  /\ phase' = "size"
  /\ ret' = IF parser.size <= 0 THEN "response" ELSE "none"

\* Mutant: of what is in the buffer already only the data is counted, not the CRLF
LeftToReadShort == IF offset > parser.size THEN 2 ELSE parser.size - offset + 2

\* The read has ended in the chunk: content_len - len + 2 more bytes to read
LeftToRead == parser.size - offset + 2

\* A chunk and its CRLF: all of it comes with its line, or the rest is read
DataByte(cut) ==
  \/ /\ phase = "data" /\ ~cut
     /\ IF InBuffer(offset + 1) THEN NextChunk(offset + 1 - (parser.size + 2))
        ELSE offset' = offset + 1 /\ UNCHANGED <<phase, ret>>
     /\ UNCHANGED <<parser, left>>
  \/ /\ phase = "chunk" \/ (phase = "data" /\ cut)
     /\ left' = (IF phase = "data" THEN LeftToRead ELSE left) - 1
     /\ IF left' > 0 THEN phase' = "chunk" /\ UNCHANGED <<offset, ret>>
        ELSE NextChunk(0)
     /\ parser' = parser

\* Bytes behind the head that came with its end
BufferedByte ==
  /\ phase = "buffered"
  /\ offset' = offset + 1
  /\ UNCHANGED <<phase, parser, left, ret>>

\* readFixSize: its result is the number of bytes it was to read, as an int
RestByte ==
  /\ phase = "rest"
  /\ left' = left - 1
  /\ ret' = CASE left > 1 -> "none"
              [] AsInt(AsLong(parser.length) - offset) <= 0 -> "nullptr"
              [] OTHER -> "response"
  /\ UNCHANGED <<phase, parser, offset>>

\* What becomes of a message that has been misread is of no interest
Receive(cut) ==
  /\ ret = "none" /\ ~torn
  /\ cut => phase \in {"head", "size", "data"}
  /\ \E s \in Sends(server) :
       /\ Arrives(s.c, s.m, cut)
       /\ torn' = (Role(server) # Taken)
       /\ IF torn' THEN UNCHANGED <<phase, parser, offset, left, ret>>
          ELSE \/ HeadByte(s.c, cut) \/ SizeByte(s.c, cut) \/ DataByte(cut)
               \/ BufferedByte \/ RestByte

\* The read that the head ended in has ended, and there are no chunks.  What is in
\* the buffer is the body, or the start of it, up to the length.  resize() throws if
\* there is no memory for as many bytes as an int cannot count.
Body ==
  LET length == AsLong(parser.length) IN
  /\ ret = "none" /\ ~torn /\ phase = "buffered"
  /\ \/ /\ length >= IntMin
        /\ ret' = "throw" /\ left' = left
     \/ /\ left' = IF length > offset THEN length - offset ELSE 0
        /\ ret' = IF left' > 0 THEN "none" ELSE "response"
  /\ phase' = "rest"
  /\ UNCHANGED <<parser, offset, server, cuts, torn, eof>>

\* read() returns 0 or an error: close() and nullptr, and the parser and the rest of
\* the message are gone
ReadFails ==
  /\ ret = "none" /\ ~torn /\ phase # "buffered"
  /\ eof' = TRUE /\ ret' = "nullptr"
  /\ phase' = "head" /\ parser' = NewParser /\ offset' = 0 /\ left' = 0
  /\ server' = NewMessage /\ cuts' = {} /\ torn' = torn

Next == (\E cut \in BOOLEAN : Receive(cut)) \/ Body \/ ReadFails

Spec == Init /\ [][Next]_vars

-----------------------------------------------------------------------------
(***************************************************************************)
(* Properties                                                              *)
(***************************************************************************)

\* A message whose frame recvResponse cannot follow, whatever the reads: a coding
\* before the chunks; trailers after them; a body up to the end of the connection; a
\* body announced that does not follow; a length that int64_t cannot hold, or a chunk
\* with a size that int cannot, its CRLF included.
Unfit ==
  \/ server.coded \/ server.at \in {"trailer", "open"}
  \/ server.bodiless /\ (server.chunked \/ server.length > 0)
  \/ server.length >= LongMin \/ server.huge

\* What makes the parser lose the frame of another message: a read that ends in the
\* Content-Length header, in a name whose rest is content-length, or in the line
\* before a chunk; a blank after the length or the coding; an empty Connection
\* as the last header.
Misled ==
  \/ cuts \cap {"length", "rest", "size"} # {}
  \/ server.padded \/ server.stray

\* However the bytes are cut into reads, every byte is taken for what it is (head,
\* size of a chunk, data, line end), unless the parser was misled.
BytesInPlace == torn => Misled \/ Unfit

\* recvResponse returns a response only when all its bytes have come, and does not
\* wait for more when they have: the connection can be used for the next request.
ReturnsAtEnd ==
  ~Misled /\ ~Unfit =>
    /\ ret = "response" => server.at = "end"
    /\ server.at = "end" => ret # "none" \/ phase = "buffered"

\* A response is refused only when the connection ended, or a read ended in the
\* version or in the line before a chunk, or for a quoted value in that line, an empty
\* Connection at the end, which alone can make an assert fail, or a rest of the body
\* that is too long for an int; recvResponse throws only for such a length.
RefusedOnlyIf ==
  /\ ret = "nullptr" =>
       \/ eof \/ cuts \cap {"version", "size"} # {} \/ server.stray
       \/ server.at = "quoted" \/ server.length - offset >= IntMin
  /\ ret = "abort" => server.stray
  /\ ret = "throw" => server.length >= IntMin

\* The status of a response is the one that was sent, unless a read ended in it.
StatusExact == ret = "response" => (parser.status <=> "status" \notin cuts)
=============================================================================
