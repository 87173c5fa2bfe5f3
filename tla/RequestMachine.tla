--------------------------- MODULE RequestMachine ---------------------------
(***************************************************************************)
(* The automaton that ragel generated from http11_parser.rl, as a table:   *)
(* Switch[s] is the switch of state s in http11_parser.rl.cc, a function   *)
(* from the characters it accepts to <<next state, actions>>; a character  *)
(* outside its domain leads to st0, the error state.                       *)
(*                                                                         *)
(* The table has the states that a request with a method reaches: not      *)
(* those of an IP literal (47-172), which UriMachine has for uri.rl.cc, and *)
(* those of the JSON and XML messages that mongrel2 read on the same port   *)
(* (194-347, 349).                                                         *)
(***************************************************************************)
EXTENDS Integers, Sequences, TLC

\* Characters that no state of the table tells apart share a name: "A" stands for
\* A to F, "U" for the capitals but H, P and T, "b" for b, d and f, "x" for the
\* rest of g to z, "2" for 2 to 9, "!" for !$&'*_~, "(" for (),;= and "ctl" for
\* the control characters and ^`|; "q" for the other separators and "hi" for the
\* bytes above 127.
Digit == {"0", "1", "2"}
Upper == {"A", "U", "H", "T", "P"}
Lower == {"a", "b", "c", "e", "g", "h", "i", "k", "l", "n", "o", "p", "t", "v", "x"}
Alpha == Upper \cup Lower
Hex == Digit \cup {"A", "a", "b", "c", "e"}
Name == Alpha \cup Digit \cup {"!", "(", "+", "-", "."}   \* unreserved | sub_delims
PChar == Name \cup {"hi", ":", "@"}
\* HTTP_CTL is (0 - 31) | 127 in the grammar, a difference and not a range: of the
\* control characters a token lacks 0 and 127 only.
Token == (Name \ {"("}) \cup {"#", "%", "ctl", "CR", "LF"}
Chars == PChar \cup Token \cup {"/", "?", "q", "sp", "ht"}

To(S, t) == [c \in S |-> <<t, <<>>>>]
Do(S, t, acts) == [c \in S |-> <<t, acts>>]

\* "%" xdigit xdigit, then back to t
Pct(a, t) == a :> To(Hex, a + 1) @@ (a + 1) :> To(Hex, t)

\* The end of the path, after acts
PathEnds(acts) ==
     Do({"sp"}, 4, acts \o <<"request_path", "request_uri">>)
  @@ Do({"#"}, 20, acts \o <<"request_path", "request_uri">>)
  @@ Do({"?"}, 29, Append(acts, "request_path"))

-----------------------------------------------------------------------------
\* The method, of 1 to 20 characters
MethodFirst == 1 :> Do(Upper \cup Digit, 2, <<"mark">>)
MethodSecond == 2 :> (Do({"sp"}, 3, <<"request_method">>) @@ To(Upper \cup Digit, 175))
MethodRest ==
  [s \in 175..193 |-> Do({"sp"}, 3, <<"request_method">>)
                        @@ (IF s < 193 THEN To(Upper \cup Digit, s + 1) ELSE <<>>)]

\* The target: a path that starts with a segment, a path that starts with a
\* slash, or a scheme
TargetFirst ==
  3 :> (   PathEnds(<<"mark">>) @@ Do(Alpha, 173, <<"mark">>)
        @@ Do((Name \ Alpha) \cup {"@"}, 19, <<"mark">>)
        @@ Do({"%"}, 24, <<"mark">>) @@ Do({"/"}, 33, <<"mark">>))
FirstSegment == 19 :> (PathEnds(<<>>) @@ To(Name \cup {"@"}, 19) @@ To({"%"}, 24) @@ To({"/"}, 26))
FragmentFirst ==
  20 :> (   Do(PChar \cup {"/", "?"}, 21, <<"mark">>) @@ Do({"%"}, 22, <<"mark">>)
         @@ Do({"sp"}, 4, <<"mark", "fragment">>))
FragmentRest ==
  21 :> (To(PChar \cup {"/", "?"}, 21) @@ To({"%"}, 22) @@ Do({"sp"}, 4, <<"fragment">>))
FragmentPct == Pct(22, 21)
FirstSegmentPct == Pct(24, 19)
Segments == 26 :> (PathEnds(<<>>) @@ To(PChar \cup {"/"}, 26) @@ To({"%"}, 27))
SegmentsPct == Pct(27, 26)
QueryEnds(acts) ==
     Do({"sp"}, 4, acts \o <<"query_string", "request_uri">>)
  @@ Do({"#"}, 20, acts \o <<"query_string", "request_uri">>)
QueryFirst ==
  29 :> (   Do(PChar \cup {"/", "?"}, 30, <<"start_query">>) @@ Do({"%"}, 31, <<"start_query">>)
         @@ QueryEnds(<<"start_query">>))
QueryRest == 30 :> (To(PChar \cup {"/", "?"}, 30) @@ To({"%"}, 31) @@ QueryEnds(<<>>))
QueryPct == Pct(31, 30)
OneSlash == 33 :> (PathEnds(<<>>) @@ To(PChar, 26) @@ To({"%"}, 27) @@ To({"/"}, 34))

\* Two slashes start an authority: a userinfo or a name, then a port or more
\* userinfo, and after the "@" a host and a port
AuthorityFirst ==
  34 :> (   PathEnds(<<>>) @@ To(Name, 35) @@ To({"%"}, 36) @@ To({"/"}, 26)
         @@ To({":"}, 38) @@ To({"@"}, 42))
AuthorityName ==
  35 :> (   PathEnds(<<>>) @@ To(Name, 35) @@ To({"%"}, 36) @@ To({"/"}, 26)
         @@ To({":"}, 38) @@ To({"@"}, 42))
AuthorityNamePct == Pct(36, 35)
PortOrUserinfo ==
  38 :> (   PathEnds(<<>>) @@ To(Digit, 38) @@ To(Name \cup {":"}, 39) @@ To({"%"}, 40)
         @@ To({"/"}, 26) @@ To({"@"}, 42))
Userinfo == 39 :> (To(Name \cup {":"}, 39) @@ To({"%"}, 40) @@ To({"@"}, 42))
UserinfoPct == Pct(40, 39)
HostFirst == 42 :> (PathEnds(<<>>) @@ To(Name, 43) @@ To({"%"}, 44) @@ To({"/"}, 26) @@ To({":"}, 46))
Host == 43 :> (PathEnds(<<>>) @@ To(Name, 43) @@ To({"%"}, 44) @@ To({"/"}, 26) @@ To({":"}, 46))
HostPct == Pct(44, 43)
Port == 46 :> (PathEnds(<<>>) @@ To(Digit, 46) @@ To({"/"}, 26))

\* A scheme, or a first segment
SchemeOrSegment ==
  173 :> (   PathEnds(<<>>) @@ To(Alpha \cup Digit \cup {"+", "-", "."}, 173)
          @@ To(Name \cup {"@"}, 19) @@ To({"%"}, 24) @@ To({"/"}, 26) @@ To({":"}, 174))

\* After the scheme's ":" the mark is set again
AfterScheme ==
  174 :> (   PathEnds(<<"mark">>) @@ Do(PChar, 26, <<"mark">>) @@ Do({"%"}, 27, <<"mark">>)
          @@ Do({"/"}, 33, <<"mark">>))

\* HTTP/1.0 or HTTP/1.1
HttpVersion ==
     4 :> Do({"H"}, 5, <<"mark">>) @@ 5 :> To({"T"}, 6) @@ 6 :> To({"T"}, 7) @@ 7 :> To({"P"}, 8)
  @@ 8 :> To({"/"}, 9) @@ 9 :> To({"1"}, 10) @@ 10 :> To({"."}, 11) @@ 11 :> To({"0", "1"}, 12)
HttpVersionEnd == 12 :> (Do({"LF"}, 13, <<"http_version">>) @@ Do({"CR"}, 17, <<"http_version">>))

\* A header, or the empty line
HeaderLine ==
  13 :> (   Do({"LF"}, 348, <<"start_field", "done">>) @@ Do({"CR"}, 18, <<"start_field">>)
         @@ Do(Token, 14, <<"start_field">>))
FieldName == 14 :> (Do({":"}, 15, <<"write_field">>) @@ To(Token, 14))
FieldValueFirst ==
  15 :> (   Do({"LF"}, 13, <<"start_value", "write_value">>)
         @@ Do({"CR"}, 17, <<"start_value", "write_value">>)
         @@ Do({"sp", "ht"}, 15, <<"start_value">>) @@ Do(Chars, 16, <<"start_value">>))
\* Mutant: the mark is set again where a blank is followed by more text.
FieldValueMarked ==
  16 :> (   Do({"LF"}, 13, <<"write_value">>) @@ Do({"CR"}, 17, <<"write_value">>)
         @@ Do({"sp", "ht"}, 15, <<"start_value">>) @@ To(Chars, 16))
FieldValue ==
  16 :> (Do({"LF"}, 13, <<"write_value">>) @@ Do({"CR"}, 17, <<"write_value">>) @@ To(Chars, 16))
LineEnd == 17 :> To({"LF"}, 13)
EmptyLine == 18 :> (Do({"LF"}, 348, <<"done">>) @@ Do({":"}, 15, <<"write_field">>) @@ To(Token, 14))

\* The switch of every state; nothing is read after 348.
Switch ==
     MethodFirst @@ MethodSecond @@ MethodRest @@ TargetFirst @@ FirstSegment
  @@ FragmentFirst @@ FragmentRest @@ FragmentPct @@ FirstSegmentPct @@ Segments
  @@ SegmentsPct @@ QueryFirst @@ QueryRest @@ QueryPct @@ OneSlash @@ AuthorityFirst
  @@ AuthorityName @@ AuthorityNamePct @@ PortOrUserinfo @@ Userinfo @@ UserinfoPct
  @@ HostFirst @@ Host @@ HostPct @@ Port @@ SchemeOrSegment @@ AfterScheme
  @@ HttpVersion @@ HttpVersionEnd @@ HeaderLine @@ FieldName @@ FieldValueFirst
  @@ FieldValue @@ LineEnd @@ EmptyLine @@ 348 :> <<>>
=============================================================================
