-------------------------- MODULE ResponseMachine --------------------------
(***************************************************************************)
(* The automaton that ragel generated from httpclient_parser.rl, as a      *)
(* table: Switch[s] is the switch of state s in httpclient_parser.rl.cc, a   *)
(* function from the characters it accepts to <<next state, actions>>; a   *)
(* character outside its domain leads to st0, the error state.             *)
(*                                                                         *)
(* It reads the head of a response or the line before a chunk.  Three      *)
(* header names and two values are recognised letter by letter, beside the *)
(* general rule for a field.                                               *)
(***************************************************************************)
EXTENDS Integers, Sequences, TLC

\* Characters that no state tells apart share a name: a small letter stands for
\* both cases, except for H, T and P; "6" for 2 to 9, "b" for the rest of a to f,
\* "x" for the other characters of a token, "sp" for 32 and "ws" for 9, 11 and
\* 12; "hi" for everything else, the quote among it.
Digit == {"0", "1", "6"}
Hex == Digit \cup {"a", "b", "c", "d", "e", "f"}
Letter == {"a", "b", "c", "d", "e", "f", "g", "h", "i", "k", "l", "n", "o", "r",
           "s", "t", "u", "H", "T", "P"}
Token == Digit \cup Letter \cup {"-", ".", "x"}
Blank == {"sp", "ws"}
Chars == Token \cup Blank \cup {"CR", "LF", ":", ";", "=", "/", "hi"}

\* Both cases of a letter
Either(c) == CASE c = "h" -> {"h", "H"} [] c = "t" -> {"t", "T"} [] OTHER -> {c}

To(S, t) == [c \in S |-> <<t, <<>>>>]
Do(S, t, acts) == [c \in S |-> <<t, acts>>]

\* The line's end, with the actions of what ends there
Ends(lf, cr, acts) == Do({"LF"}, lf, acts) @@ Do({"CR"}, cr, acts)

\* States a, a + 1, ... read a word and lead to a + Len(word); rest is the rest of
\* their switches.
Word(a, word, rest) ==
  [s \in a..(a + Len(word) - 1) |->
     To(Either(word[s - a + 1]), s + 1) @@ rest]

\* The rest of a field name, and of a value
NameRest == Do({":"}, 22, <<"write_field">>) @@ To(Token, 21)
ValueRest == Ends(20, 24, <<"write_value">>) @@ To(Chars, 23)

-----------------------------------------------------------------------------
\* The first character; the size of a chunk, and what may follow it.
First == 1 :> (Do({"H"}, 8, <<"mark">>) @@ Do(Hex, 2, <<"mark">>))
ChunkSize ==
     2 :> (   Do({"LF"}, 120, <<"chunk_size", "done">>) @@ To(Hex, 2)
           @@ Do({"CR"}, 3, <<"chunk_size">>) @@ Do({";"}, 4, <<"chunk_size">>))
  @@ 3 :> Do({"LF"}, 120, <<"done">>)
Extension(acts) ==
  Do({"LF"}, 120, Append(acts, "done")) @@ Do({"CR"}, 3, acts) @@ Do({";"}, 4, acts)
ChunkExtension ==
     4 :> Do(Token, 5, <<"start_field">>)
  @@ 5 :> (   Extension(<<"write_field", "start_value", "write_value">>) @@ To(Token, 5)
           @@ Do({"="}, 6, <<"write_field", "start_value">>))
  @@ 6 :> Do(Token, 7, <<"start_value">>)
  @@ 7 :> (Extension(<<"write_value">>) @@ To(Token, 7))

\* The status line
HttpVersion ==
     8 :> To({"T"}, 9) @@ 9 :> To({"T"}, 10) @@ 10 :> To({"P"}, 11) @@ 11 :> To({"/"}, 12)
  @@ 12 :> To(Digit, 13) @@ 13 :> (To(Digit, 13) @@ To({"."}, 14))
  @@ 14 :> To(Digit, 15) @@ 15 :> (To(Digit, 15) @@ Do({"sp"}, 16, <<"http_version">>))
\* Mutant: the status is taken when its first digit is read.
StatusLineEarly ==
     16 :> Do(Digit, 17, <<"mark", "status_code">>)
  @@ 17 :> (To(Digit, 17) @@ To({"sp"}, 18))
  @@ 18 :> Do(Chars \ {"LF"}, 19, <<"mark">>)
  @@ 19 :> (Ends(20, 24, <<"reason_phrase">>) @@ To(Chars, 19))
StatusLine ==
     16 :> Do(Digit, 17, <<"mark">>)
  @@ 17 :> (To(Digit, 17) @@ Do({"sp"}, 18, <<"status_code">>))
  @@ 18 :> Do(Chars \ {"LF"}, 19, <<"mark">>)
  @@ 19 :> (Ends(20, 24, <<"reason_phrase">>) @@ To(Chars, 19))

\* The first character of a line after the status line: acts come first, and c is
\* where a "c" leads to.
Line(acts, lf, cr, c) ==
     Do({"LF"}, lf, Append(acts, "done")) @@ Do({"CR"}, cr, acts)
  @@ Do({"c"}, c, Append(acts, "start_field"))
  @@ Do(Either("t"), 44, Append(acts, "start_field"))
  @@ Do(Token, 21, Append(acts, "start_field"))
HeaderLine == 20 :> Line(<<>>, 120, 3, 25)
FieldName == 21 :> NameRest
FieldValue ==
     22 :> (   Ends(20, 24, <<"start_value", "write_value">>)
            @@ Do(Blank, 22, <<"start_value">>) @@ Do(Chars, 23, <<"start_value">>))
  @@ 23 :> ValueRest
FieldEnd == 24 :> To({"LF"}, 20)

\* After the ":" of a name that is recognised: first is the start of a value that
\* is recognised too; an empty value leads to lf or cr.
Recognised(s, first, t, lf, cr) ==
  s :> (   Ends(lf, cr, <<"start_value", "write_value">>)
        @@ Do(Blank, s, <<"start_value">>) @@ Do(first, t, <<"start_value">>)
        @@ Do(Chars, 23, <<"start_value">>))

\* space* has read an end of line: the value may still come.  rest is the rest of
\* the switch of state s, home the state that skips spaces.
Skipping(s, home, first, t, acts, rest) ==
  s :> (rest @@ To(Blank \cup {"CR"}, home) @@ Do(first, t, acts))
Skip(s, first, t, acts) == Skipping(s, s, first, t, acts, To({"LF"}, s))

\* Connection, and its value close
ConnectionName ==
     Word(25, <<"o", "n", "n", "e", "c", "t", "i", "o", "n">>, NameRest)
  @@ 34 :> (Do({":"}, 35, <<"write_field">>) @@ To(Token, 21))
ContOrConn == 27 :> (To({"n"}, 28) @@ To(Either("t"), 101) @@ NameRest)
ConnectionValue ==
     Recognised(35, {"c"}, 96, 36, 95)
  @@ 36 :> (To(Blank, 37) @@ Line(<<>>, 122, 89, 90))
CloseSkipped ==
     Skip(37, {"c"}, 38, <<>>)
  @@ Word(38, <<"l", "o", "s", "e">>, <<>>)
  @@ 42 :> Ends(43, 88, <<>>)
AfterClose == 43 :> Line(<<"write_connection_close">>, 120, 3, 25)
CloseLate ==
     88 :> To({"LF"}, 43)
  @@ Skipping(122, 37, {"c"}, 38, <<>>, To({"LF"}, 37))
  @@ Skipping(89, 37, {"c"}, 38, <<>>, Do({"LF"}, 122, <<"done">>))
CloseOrName ==
     90 :> (To({"l"}, 91) @@ To({"o"}, 26) @@ NameRest)
  @@ Word(91, <<"o", "s", "e">>, NameRest)
  @@ 94 :> (Ends(43, 88, <<>>) @@ NameRest)
CloseValue ==
     Skipping(95, 37, {"c"}, 38, <<>>, To({"LF"}, 36))
  @@ Word(96, <<"l", "o", "s", "e">>, ValueRest)
  @@ 100 :> (Ends(43, 88, <<"write_value">>) @@ To(Chars, 23))

\* Transfer-Encoding, and its value chunked
TransferName ==
  Word(44, <<"r", "a", "n", "s", "f">>, NameRest)
TransferNameEr == Word(49, <<"e", "r", "-", "e", "n">>, NameRest)
EncodingName ==
     Word(54, <<"c", "o", "d", "i", "n", "g">>, NameRest)
  @@ 60 :> (Do({":"}, 61, <<"write_field">>) @@ To(Token, 21))
TransferValue ==
     Recognised(61, {"c"}, 81, 62, 80)
  @@ 62 :> (   To(Blank, 63) @@ Do({"c"}, 73, <<"start_value", "start_field">>)
            @@ Line(<<>>, 121, 72, 73))
ChunkedSkipped ==
     Skip(63, {"c"}, 64, <<"start_value">>)
  @@ Word(64, <<"h", "u", "n", "k", "e", "d">>, <<>>)
  @@ 70 :> (Do({"LF"}, 20, <<"write_value", "trans_chunked">>) @@ Do({"CR"}, 71, <<"write_value">>))
ChunkedEnd == 71 :> Do({"LF"}, 20, <<"trans_chunked">>)
ChunkedLate ==
     Skipping(121, 63, {"c"}, 64, <<"start_value">>, To({"LF"}, 63))
  @@ Skipping(72, 63, {"c"}, 64, <<"start_value">>, Do({"LF"}, 121, <<"done">>))
ChunkedOrName ==
     73 :> (To(Either("h"), 74) @@ To({"o"}, 26) @@ NameRest)
  @@ Word(74, <<"u", "n", "k">>, NameRest)
ChunkedOrNameEnd ==
     Word(77, <<"e", "d">>, NameRest)
  @@ 79 :> (   Do({"LF"}, 20, <<"write_value", "trans_chunked">>)
            @@ Do({"CR"}, 71, <<"write_value">>) @@ NameRest)
ChunkedValue ==
     Skipping(80, 63, {"c"}, 64, <<"start_value">>, To({"LF"}, 62))
  @@ Word(81, <<"h", "u", "n", "k", "e", "d">>, ValueRest)
  @@ 87 :> (   Do({"LF"}, 20, <<"write_value", "trans_chunked">>)
            @@ Do({"CR"}, 71, <<"write_value">>) @@ To(Chars, 23))

\* Content-Length, and its digits
ContentName == Word(101, <<"e", "n", "t", "-">>, NameRest)
LengthName ==
     Word(105, <<"l", "e", "n", "g", "t">>, NameRest)
LengthNameEnd ==
     110 :> (To(Either("h"), 111) @@ NameRest)
  @@ 111 :> (Do({":"}, 112, <<"write_field">>) @@ To(Token, 21))
LengthEnds == Ends(20, 24, <<"write_content_len", "write_value">>)
LengthValue ==
     Recognised(112, Digit, 119, 113, 118)
  @@ 113 :> (   To(Blank, 114) @@ Do(Digit, 117, <<"start_value", "start_field">>)
             @@ Line(<<>>, 123, 116, 25))
LengthLate ==
     Skip(114, Digit, 115, <<"start_value">>)
  @@ 115 :> (LengthEnds @@ To(Digit, 115))
  @@ Skipping(123, 114, Digit, 115, <<"start_value">>, To({"LF"}, 114))
  @@ Skipping(116, 114, Digit, 115, <<"start_value">>, Do({"LF"}, 123, <<"done">>))
LengthOrName == 117 :> (LengthEnds @@ To(Digit, 117) @@ NameRest)
LengthDigits ==
     Skipping(118, 114, Digit, 115, <<"start_value">>, To({"LF"}, 113))
  @@ 119 :> (LengthEnds @@ To(Digit, 119) @@ To(Chars, 23))

\* The switch of every state; state 120 accepts nothing.
Switch ==
     First @@ ChunkSize @@ ChunkExtension @@ HttpVersion @@ StatusLine
  @@ HeaderLine @@ FieldName @@ FieldValue @@ FieldEnd
  @@ ContOrConn @@ ConnectionName @@ ConnectionValue @@ CloseSkipped
  @@ AfterClose @@ CloseLate @@ CloseOrName @@ CloseValue
  @@ TransferName @@ TransferNameEr @@ EncodingName @@ TransferValue
  @@ ChunkedSkipped @@ ChunkedEnd @@ ChunkedLate @@ ChunkedOrName
  @@ ChunkedOrNameEnd @@ ChunkedValue @@ ContentName @@ LengthName
  @@ LengthNameEnd @@ LengthValue @@ LengthLate @@ LengthOrName @@ LengthDigits
  @@ 120 :> <<>>
=============================================================================
