---------------------------- MODULE RecvRequest ----------------------------
(***************************************************************************)
(* HttpSession::recvRequest with its HttpRequestParser (http_session.cc,   *)
(* http_parser.cc, http11_parser.rl.cc), reading what a client sends.      *)
(*                                                                         *)
(* The client sends a request of RFC 7230, character by character: any     *)
(* token for a method, a path, an absolute URI or "*", any headers, a body *)
(* framed by Content-Length or by chunks; and it may send the start of its *)
(* next request before the answer has come.  Where a read() ends is up to  *)
(* the network and to the buffer of 100 bytes: before any character a read *)
(* may just have ended, and then http_parser_execute starts anew with mark *)
(* and field_start at the start of the buffer, field_len 0, and            *)
(* query_start where it was.                                               *)
(*                                                                         *)
(* Within a name, a value or the target the client chooses only among      *)
(* characters that some state tells apart there.  The message is not       *)
(* bounded, only the digits of its Content-Length and the parts that a     *)
(* read ends in are.  int64_t and int have LongBits and IntBits bits.      *)
(***************************************************************************)
EXTENDS RequestMachine, SequencesExt

CONSTANTS
  LongBits,   \* bits of int64_t and uint64_t
  IntBits,    \* bits of int
  MaxDigits,  \* bound on the digits of a Content-Length
  MaxCuts     \* bound on the parts of a message that a read ends in, or that are Unusual

VARIABLES
  phase,    \* where recvRequest is: head, buffered (the head has ended, the
            \* read that it ended in has not), rest (in readFixSize)
  parser,   \* HttpRequestParser and what it has put into the HttpRequest
  offset,   \* bytes behind the head in the buffer
  left,     \* bytes that readFixSize still reads
  ret,      \* "none" (not yet), "request", "nullptr", "throw" (std::length_error)
  client,   \* the message as far as it was sent
  cuts,     \* history: the parts of the message that a read ended in
  eof       \* the connection ended, or the read timed out

vars == <<phase, parser, offset, left, ret, client, cuts, eof>>

ContentLength == <<"c", "o", "n", "t", "e", "n", "t", "-", "l", "e", "n", "g", "t", "h">>
Connection == <<"c", "o", "n", "n", "e", "c", "t", "i", "o", "n">>
KeepAlive == <<"k", "e", "e", "p", "-", "a", "l", "i", "v", "e">>

\* How much of a word has been read: -1 when it is another word
Progress(word, k, c) == IF k \in 0..(Len(word) - 1) /\ word[k + 1] = c THEN k + 1 ELSE -1
NextOf(word, k) == IF k \in 0..(Len(word) - 1) THEN {word[k + 1]} ELSE {}

\* Progress of a name in the two names that matter, and what the name is
NewName == <<0, 0>>
NameMore(n, c) == <<Progress(ContentLength, n[1], c), Progress(Connection, n[2], c)>>
Kind(n) ==
  CASE n[1] = Len(ContentLength) -> "length"
    [] n[2] = Len(Connection) -> "connection"
    [] OTHER -> "other"

\* Text read as a number: Empty, NaN or the number, Beyond if uint64_t cannot hold it
Empty == -2
NaN == -1
Beyond == 2^LongBits
DigitValue == "0" :> 0 @@ "1" :> 1 @@ "2" :> 6
Number(v, c) ==
  IF v = NaN \/ c \notin Digit THEN NaN
  ELSE LET n == (IF v = Empty THEN 0 ELSE v) * 10 + DigitValue[c]
       IN  IF n > Beyond THEN Beyond ELSE n

\* The conversions of http_session.cc:50, uint64_t to int64_t, and stream.cc:15,
\* size_t to int
Signed(n, bits) == LET k == n % 2^bits IN IF k < 2^(bits - 1) THEN k ELSE k - 2^bits
AsLong(n) == Signed(n, LongBits)
AsInt(n) == Signed(n, IntBits)
\* The numbers that int64_t, and int, cannot hold
LongMin == 2^(LongBits - 1)
IntMin == 2^(IntBits - 1)

-----------------------------------------------------------------------------
(***************************************************************************)
(* The client.  at: the part of the message it sends; i: characters of a   *)
(* fixed word, or digits, already sent; v: the number they make; then: what *)
(* comes after the line's LF.                                              *)
(***************************************************************************)
NewMessage ==
  [at |-> "method", i |-> 0, v |-> 0, then |-> "none",
   method |-> "none",               \* what method it is, see Methods
   absolute |-> FALSE,              \* the target is an absolute URI
   slashes |-> FALSE,               \* the target being sent starts with two of them
   pct |-> 0,                       \* characters of a "%" xdigit xdigit to come
   query |-> FALSE,
   name |-> NewName,                \* progress of the name
   kind |-> "none", length |-> 0, chunked |-> FALSE, keep |-> FALSE,
   nameCut |-> FALSE,               \* a read ended in the current name
   padded |-> {}                    \* kinds of headers with a blank after the value
  ]

Version == <<"H", "T", "T", "P", "/", "1", ".">>
Send(c, m) == [c |-> c, m |-> m]
CrLf(m, then) == Send("CR", [m EXCEPT !.at = "lf", !.then = then])

\* A method: known, one of HTTP_METHOD_MAP; longer, one of them and more letters;
\* unknown, any other word of capitals and digits; token, with another character,
\* such as M-SEARCH; long, of more characters than the grammar has.
MethodKinds == {"known", "longer", "unknown"}
ShortestMethod == 3
LongestMethod == 20
SendMethod(m) ==
  CASE m.i = 0 -> {Send(c, [m EXCEPT !.i = 1, !.method = k]) : c \in {"U", "0"}, k \in MethodKinds}
                    \cup {Send("-", [m EXCEPT !.i = 1, !.method = "token"])}
    [] m.i > LongestMethod -> {}
    [] OTHER ->
         {Send("U", [m EXCEPT !.i = @ + 1, !.method = IF m.i = LongestMethod THEN "long" ELSE @]),
          Send("-", [m EXCEPT !.i = @ + 1, !.method = "token"])}
           \cup {Send("sp", [m EXCEPT !.at = "target", !.i = 0]) :
                 k \in {m.method} \ ((IF m.i < ShortestMethod THEN {"known"} ELSE {})
                                      \cup (IF m.i <= ShortestMethod THEN {"longer"} ELSE {}))}

\* What may follow the path
AfterPath(m) ==
  {Send("sp", [m EXCEPT !.at = "version", !.i = 0]),
   Send("?", [m EXCEPT !.at = "query", !.query = TRUE, !.i = 0])}
SendTarget(m) ==
  CASE m.pct > 0 -> {Send(c, [m EXCEPT !.pct = @ - 1]) : c \in {"0", "a"}}
    [] m.at = "target" ->
         {Send("/", [m EXCEPT !.at = "path"]),
          Send("x", [m EXCEPT !.at = "scheme", !.absolute = TRUE]),
          Send("!", [m EXCEPT !.at = "star"])}
    [] m.at = "star" -> {Send("sp", [m EXCEPT !.at = "version", !.i = 0])}
    [] m.at = "scheme" ->
         {Send(c, m) : c \in {"x", "+", "0"}} \cup {Send(":", [m EXCEPT !.at = "slash"])}
    [] m.at = "slash" -> {Send("/", [m EXCEPT !.at = IF m.i = 0 THEN "slash" ELSE "host", !.i = 1])}
    [] m.at = "host" ->
         {Send(c, [m EXCEPT !.i = 2]) : c \in {"x", ".", "0"}}
           \cup (IF m.i < 2 THEN {}
                 ELSE AfterPath(m) \cup {Send(":", [m EXCEPT !.at = "port"]),
                                         Send("/", [m EXCEPT !.at = "path"])})
    [] m.at = "port" ->
         {Send("0", m), Send("/", [m EXCEPT !.at = "path"])} \cup AfterPath(m)
    [] m.at = "path" ->
         {Send(c, [m EXCEPT !.i = 1, !.slashes = @ \/ (c = "/" /\ ~m.absolute /\ m.i = 0)]) :
            c \in {"x", "!", "0", ":", "@", "/"}}
           \cup {Send("%", [m EXCEPT !.i = 1, !.pct = 2])} \cup AfterPath(m)
    [] m.at = "query" ->
         {Send(c, [m EXCEPT !.i = 1]) : c \in {"x", ":", "/", "?"}}
           \cup {Send("%", [m EXCEPT !.i = 1, !.pct = 2]), Send("sp", [m EXCEPT !.at = "version", !.i = 0])}

SendVersion(m) ==
  CASE m.i < Len(Version) -> {Send(Version[m.i + 1], [m EXCEPT !.i = @ + 1, !.slashes = FALSE])}
    [] m.i = Len(Version) -> {Send(c, [m EXCEPT !.i = @ + 1]) : c \in {"0", "1"}}
    [] OTHER -> {CrLf(m, "line")}

\* A field's name, of the characters that continue a name that matters for the
\* client, or for the parser after a cut, and another one.  At most one header says
\* how long the body is, or, as a Transfer-Encoding, that it is in chunks.
NameChar(m, c) ==
  Send(c, [m EXCEPT !.at = "name", !.name = NameMore(@, c)])
NameChars(n) ==
  {"c", "x"} \cup NextOf(ContentLength, n[1]) \cup NextOf(Connection, n[2])
    \cup NextOf(ContentLength, parser.name[1]) \cup NextOf(Connection, parser.name[2])
SendName(m) ==
  CASE m.at = "line" ->
         {NameChar(m, c) : c \in NameChars(NewName)} \cup {CrLf(m, "body")}
    [] m.at = "name" ->
         {NameChar(m, c) : c \in NameChars(m.name)}
           \cup {Send(":", [m EXCEPT !.at = k, !.kind = k, !.name = NewName, !.i = 0, !.v = Empty,
                                     !.chunked = @ \/ coding]) :
                 k \in {Kind(m.name)} \ (IF m.length > 0 \/ m.chunked THEN {"length"} ELSE {}),
                 coding \in {FALSE} \cup {Kind(m.name) = "other" /\ m.length = 0}}

\* Its value: digits, keep-alive or another list, any text
EndOfValue(m) ==
  {CrLf(m, "line"), Send("sp", [m EXCEPT !.at = "pad", !.padded = @ \cup {m.kind}])}
SendValue(m) ==
  CASE m.at = "pad" -> {CrLf(m, "line")}
    [] m.at = "length" ->
         (IF m.i = 0 THEN {Send("sp", m)} ELSE EndOfValue([m EXCEPT !.length = m.v]))
           \cup {Send(c, [m EXCEPT !.i = @ + 1, !.v = Number(@, c)]) :
                 c \in IF m.i < MaxDigits THEN Digit ELSE {}}
    [] m.at = "connection" ->
         (IF m.i = 0 THEN {Send("sp", m)} ELSE {})
           \cup (IF m.i = Len(KeepAlive) THEN EndOfValue([m EXCEPT !.keep = TRUE])
                 ELSE IF m.i = -1 THEN {CrLf([m EXCEPT !.keep = FALSE], "line")} ELSE {})
           \cup {Send(c, [m EXCEPT !.i = Progress(KeepAlive, @, c)]) :
                 c \in {"k", "x"} \cup NextOf(KeepAlive, m.i) \cup NextOf(KeepAlive, parser.keep)
                         \cup (IF m.i = -1 THEN {"sp"} ELSE {})}
    [] m.at = "other" ->
         {Send(c, m) : c \in {"x", "sp", ":"}} \cup {CrLf(m, "line")}

\* What is sent next; of a body whose length int64_t cannot hold only the first byte
Sends(m) ==
  CASE m.at = "method" -> SendMethod(m)
    [] m.at = "version" -> SendVersion(m)
    [] m.at \in {"line", "name"} -> SendName(m)
    [] m.at \in {"length", "connection", "other", "pad"} -> SendValue(m)
    [] m.at = "lf" ->
         LET to == CASE m.then = "line" -> "line" [] m.chunked -> "chunks"
                     [] m.length > 0 -> "body" [] OTHER -> "end"
         IN  {Send("LF", [m EXCEPT !.at = to, !.i = 0, !.then = "none", !.kind = "none", !.v = m.length])}
    [] m.at = "body" /\ m.length >= LongMin /\ m.v < m.length -> {}
    [] m.at = "body" ->
         {Send("hi", [m EXCEPT !.v = @ - 1, !.at = IF m.v > 1 THEN "body" ELSE "end"])}
    [] m.at = "end" -> {Send("U", [m EXCEPT !.at = "next"])}
    [] m.at \in {"chunks", "next"} -> {}
    [] OTHER -> SendTarget(m)

\* The part of the message that a read ends in before the next byte
CutPart(m) ==
  CASE m.at = "method" /\ m.i > 0 -> {"method"}
    [] m.at \in {"host", "port", "path", "star"} \/ (m.at = "slash" /\ m.i > 0) -> {"path"}
    [] m.at = "query" /\ m.i > 0 -> {"query"}
    [] m.at = "version" /\ m.i > 0 -> {"version"}
    [] m.at \in {"length", "connection"} -> {m.at}
    [] m.at = "pad" -> {m.kind}
    [] OTHER -> {}

\* Parts that only some clients send so: a longer method, chunks for a length, a
\* blank after the value of a header
Unusual(m) ==
  (IF m.method = "longer" THEN {"method"} ELSE {}) \cup (IF m.chunked THEN {"length"} ELSE {})
    \cup m.padded

-----------------------------------------------------------------------------
(***************************************************************************)
(* http_parser_execute and the callbacks of HttpRequestParser              *)
(***************************************************************************)

\* Of the text from field_start on the parser needs which name it is (name), and
\* that when field_len was set (field, "none" when field_len is 0, and after
\* write_value, as it is set again before it is used); of the text from mark on
\* which part of the request line it starts with (mark, "none" after a cut and in
\* the headers), whether it is a number (value) and whether it is keep-alive
\* (keep); of query_start whether it belongs to this buffer (start).
NewParser ==
  [cs |-> 1, name |-> NewName, field |-> "none", value |-> Empty, keep |-> 0,
   mark |-> "none", start |-> "stale",
   method |-> "none", path |-> "none", query |-> "none",
   length |-> 0, m_close |-> TRUE, error |-> FALSE]

\* A new execute: mark, field_start and field_len are 0, query_start is not
Execute(p) ==
  [p EXCEPT !.name = NewName, !.field = "none", !.value = Empty, !.keep = 0, !.mark = "none",
            !.start = "stale"]

\* on_request_method takes the text from mark on for the first method of
\* HTTP_METHOD_MAP that it starts with, and none of them starts another: GETX is
\* GET, and an unknown one an error.  After a cut the rest of UNLOCK is LOCK, the
\* rest of most words is no method, and neither is no text at all.
Methods(p) ==
  LET is(x) == [p EXCEPT !.method = x]
      invalid == [p EXCEPT !.error = TRUE] IN
  CASE p.mark = "none" -> {invalid} \cup (IF p.value = Empty THEN {} ELSE {is("other")})
    [] client.method = "known" -> {is("whole")}
    [] client.method = "longer" -> {is("other")}
    [] OTHER -> {invalid}

\* on_request_query: with a stale query_start the length is that of another text,
\* or negative, which std::string refuses
Queries(p) ==
  IF p.start = "fresh" THEN {[p EXCEPT !.query = "whole"]}
  ELSE {[p EXCEPT !.query = "other"], [p EXCEPT !.query = "throw"]}

\* One action.  on_request_version compares the text from mark on with HTTP/1.1
\* and HTTP/1.0: the rest of a version is neither, but no text at all is.
\* on_request_http_field drops a field whose length is 0; getContentLength reads
\* the last one of that name, as 0 if it is no uint64_t; init() the Connection.
Act(p, a, at) ==
  CASE a = "mark" -> {[p EXCEPT !.value = Empty, !.keep = 0, !.mark = at]}
    [] a = "start_value" -> {[p EXCEPT !.value = Empty, !.keep = 0, !.mark = "none"]}
    [] a = "start_field" -> {[p EXCEPT !.name = NewName]}
    [] a = "write_field" -> {[p EXCEPT !.field = IF p.name = NewName THEN "none" ELSE Kind(p.name)]}
    [] a = "write_value" /\ p.field = "length" ->
         {[p EXCEPT !.field = "none", !.length = IF p.value \in 0..(Beyond - 1) THEN p.value ELSE 0]}
    [] a = "write_value" /\ p.field = "connection" ->
         {[p EXCEPT !.field = "none", !.m_close = p.keep # Len(KeepAlive)]}
    [] a = "write_value" -> {[p EXCEPT !.field = "none"]}
    [] a = "request_method" -> Methods(p)
    [] a = "request_path" -> {[p EXCEPT !.path = p.mark]}
    [] a = "start_query" -> {[p EXCEPT !.start = "fresh"]}
    [] a = "query_string" -> Queries(p)
    [] a = "http_version" -> {[p EXCEPT !.error = p.mark = "none" /\ p.value # Empty]}
    [] OTHER -> {p}

\* The byte becomes part of the two texts
Append1(p, c) ==
  [p EXCEPT !.name = NameMore(@, c), !.value = Number(@, c), !.keep = Progress(KeepAlive, @, c)]

Edge(p, c) == IF c \in DOMAIN Switch[p.cs] THEN Switch[p.cs][c] ELSE <<0, <<>>>>

\* The parsers that reading c, a character of the part at, can lead to
Steps(p, c, at) ==
  LET e == Edge(p, c)
      act(S, a) == UNION {Act(q, a, at) : q \in S}
  IN  {Append1([q EXCEPT !.cs = e[1]], c) : q \in FoldLeft(act, {p}, e[2])}

HasError(p) == p.error \/ p.cs = 0
IsFinished(p) == p.cs = 348

-----------------------------------------------------------------------------
(***************************************************************************)
(* recvRequest                                                             *)
(***************************************************************************)
Init ==
  /\ phase = "head" /\ parser = NewParser /\ offset = 0 /\ left = 0
  /\ ret = "none" /\ client = NewMessage
  /\ cuts = {} /\ eof = FALSE

\* A byte arrives, and a read has just ended before it if cut.  A cut in a name
\* counts when the name matters, or when its rest does.
Arrives(c, m, cut) ==
  LET named == client.at = "name" /\ c = ":" IN
  /\ client' = [m EXCEPT !.nameCut = m.at = "name" /\ (@ \/ (cut /\ client.at = "name"))]
  /\ cuts' = cuts \cup (IF cut THEN CutPart(client) ELSE {})
                  \cup (IF named /\ (cut \/ client.nameCut) THEN {m.kind} \ {"other"} ELSE {})
                  \cup (IF named /\ ~cut /\ Kind(parser.name) \notin {m.kind, "other"}
                          THEN {"rest"} ELSE {})
  /\ Cardinality(cuts' \cup Unusual(m)) <= MaxCuts
  /\ eof' = eof

\* The head: execute, hasError, isFinished
HeadByte(c, cut) ==
  /\ phase = "head"
  /\ \E q \in Steps(IF cut THEN Execute(parser) ELSE parser, c, client.at) :
       /\ parser' = q
       /\ ret' = CASE q.query = "throw" -> "throw" [] HasError(q) -> "nullptr" [] OTHER -> "none"
       /\ phase' = IF IsFinished(q) THEN "buffered" ELSE "head"
       /\ UNCHANGED <<offset, left>>

\* Bytes behind the head that came with its end
BufferedByte ==
  /\ phase = "buffered"
  /\ offset' = offset + 1
  /\ UNCHANGED <<phase, parser, left, ret>>

\* readFixSize: its result is the number of bytes it was to read, as an int
RestByte ==
  /\ phase = "rest"
  /\ left' = left - 1
  /\ ret' = CASE left > 1 -> "none"
              [] AsInt(AsLong(parser.length) - offset) <= 0 -> "nullptr"
              [] OTHER -> "request"
  /\ UNCHANGED <<phase, parser, offset>>

Receive(cut) ==
  /\ ret = "none"
  /\ cut => phase = "head"
  /\ \E s \in Sends(client) :
       /\ Arrives(s.c, s.m, cut)
       /\ HeadByte(s.c, cut) \/ BufferedByte \/ RestByte

\* Mutant: what was in the buffer already is not subtracted from the length
BodyLong ==
  LET length == AsLong(parser.length) IN
  /\ ret = "none" /\ phase = "buffered"
  /\ \/ /\ length >= IntMin
        /\ ret' = "throw" /\ left' = left
     \/ /\ left' = IF length > offset THEN length ELSE 0
        /\ ret' = IF left' > 0 THEN "none" ELSE "request"
  /\ phase' = "rest"
  /\ UNCHANGED <<parser, offset, client, cuts, eof>>

\* The read that the head ended in has ended.  What is in the buffer is the body, or
\* the start of it, up to the length; more than that is dropped with the buffer.
\* resize() throws if there is no memory for as many bytes as an int cannot count.
Body ==
  LET length == AsLong(parser.length) IN
  /\ ret = "none" /\ phase = "buffered"
  /\ \/ /\ length >= IntMin
        /\ ret' = "throw" /\ left' = left
     \/ /\ left' = IF length > offset THEN length - offset ELSE 0
        /\ ret' = IF left' > 0 THEN "none" ELSE "request"
  /\ phase' = "rest"
  /\ UNCHANGED <<parser, offset, client, cuts, eof>>

\* read() returns 0 or an error: close() and nullptr, and the parser and the rest of
\* the message are gone
ReadFails ==
  /\ ret = "none" /\ phase # "buffered"
  /\ eof' = TRUE /\ ret' = "nullptr"
  /\ phase' = "head" /\ parser' = NewParser /\ offset' = 0 /\ left' = 0
  /\ client' = NewMessage /\ cuts' = {}

Next == (\E cut \in BOOLEAN : Receive(cut)) \/ Body \/ ReadFails

Spec == Init /\ [][Next]_vars

-----------------------------------------------------------------------------
(***************************************************************************)
(* Properties                                                              *)
(***************************************************************************)

\* What makes recvRequest miss the end of the body: a read that ends in the length's
\* header or in a name whose rest is content-length, or a blank after the number; a
\* number that int64_t cannot hold; chunks, which it does not know.
Misled ==
  \/ cuts \cap {"length", "rest"} # {} \/ "length" \in client.padded
  \/ client.length >= LongMin \/ client.chunked

\* However the bytes are cut into reads, recvRequest returns a request only when all
\* its bytes have come, and does not wait for more when they have: handleClient reads
\* the next one from its start.  Only the bytes of a next request that the client
\* sent without waiting for the answer are lost if they came with the head.
FramedExactly ==
  ~Misled =>
    /\ ret = "request" => client.at = "end" \/ (client.at = "next" /\ offset > client.length)
    /\ client.at = "end" => ret # "none" \/ phase = "buffered"

\* A request is refused only when the connection ended, a read ended in the method
\* or in the version, the method is none that the server knows, the path starts with
\* two slashes, which the parser takes for an authority, or the rest of the body is
\* too long for an int; recvRequest throws only when a read ended in the query or
\* for such a length.
RefusedOnlyIf ==
  /\ ret = "nullptr" =>
       \/ eof \/ cuts \cap {"method", "version"} # {} \/ client.slashes
       \/ client.method \in {"unknown", "token", "long"}
       \/ client.length - offset >= IntMin
  /\ ret = "throw" => "query" \in cuts \/ client.length >= IntMin

\* Method, path and query of a request are those that were sent if and only if no
\* read ended in them, and the method has no letters more than one the server knows;
\* the path of an absolute URI has its authority in front.
LineExact ==
  ret = "request" =>
    /\ parser.method = "whole" <=> "method" \notin cuts /\ client.method = "known"
    /\ parser.path = (IF client.absolute THEN "slash" ELSE "target")
         <=> "path" \notin cuts
    /\ parser.query = (IF client.query THEN "whole" ELSE "none") <=> "query" \notin cuts

\* isClose(), after which handleClient (of a server that keeps connections at all,
\* m_isKeepalive) closes, is false exactly when the last Connection header says
\* keep-alive, unless a read ended in it, in a name whose rest is connection, or a
\* blank follows it: then it may only be true.
KeepAliveExact ==
  ret = "request" /\ "rest" \notin cuts =>
    /\ ~parser.m_close => client.keep \/ "connection" \in cuts
    /\ parser.m_close => ~client.keep \/ "connection" \in cuts \cup client.padded
=============================================================================
