----------------------------- MODULE UriMachine -----------------------------
(***************************************************************************)
(* The automaton that ragel generated from uri.rl, as a table.             *)
(*                                                                         *)
(* src/src/uri.rl.cc is 560 states in goto form.  The table keeps their    *)
(* numbers: Delta[s] is the switch of state s, a function from the         *)
(* characters it accepts to <<next state, actions>>; a character outside   *)
(* its domain goes to st0, the error state.  Characters are the 24 classes *)
(* that no state tells apart.                                              *)
(*                                                                         *)
(* The code that reads an authority is generated twice, with different     *)
(* numbers: states 9-228 and 459-507 for a reference that starts with      *)
(* "//", states 229-450, 511, 512 and 514-560 for the one after a scheme,  *)
(* which also saves the path.  The second is HierPart of the first.        *)
(***************************************************************************)
EXTENDS Integers, Sequences, TLC

\* "hi" stands for the bytes above 127, "stx" for the byte 2, "!" for
\* sub_delims, "_" and "~", "+" also for "-", "3" for 3 and 4, "6" for 6 to 9,
\* "a" for a to f and "g" for the letters after f but v and V.
Digit == {"0", "1", "2", "3", "5", "6"}
UpTo4 == {"0", "1", "2", "3"}
UpTo5 == UpTo4 \cup {"5"}
Hex == Digit \cup {"a"}
Alpha == {"a", "g", "v", "V"}
Name == {"!", "+", "."} \cup Digit \cup Alpha      \* unreserved | sub_delims
PChar == Name \cup {"hi", ":", "@"}
Chars == PChar \cup {"stx", "ctl", "#", "%", "/", "?", "[", "]"}

To(S, t) == [c \in S |-> <<t, <<>>>>]
Do(S, t, acts) == [c \in S |-> <<t, acts>>]
NoRow == <<>>

\* Families of states.  "%" xdigit xdigit, then back to t.
Pct(a, t) == a :> To(Hex, a + 1) @@ (a + 1) :> To(Hex, t)

\* 2 [0-4] digit of dec_octet: the 2 is an integer, so the byte 2, in the grammar.
Stx(a) == a :> To(UpTo4, a + 1) @@ (a + 1) :> To(Digit, a + 2)

\* The first digit of a dec_octet: 0 ends it (z), 1 to 9 lead to one .. one + 2.
OctetStart(stx, z, one) ==
  To({"stx"}, stx) @@ To({"0"}, z) @@ To({"1"}, one) @@ To({"2"}, one + 2)
    @@ To({"3", "5", "6"}, one + 1)

\* The other digits of a dec_octet; stop is what may follow it.
OctetMore(one, z, stop) ==
     one :> (To(Digit, one + 1) @@ stop)
  @@ (one + 1) :> (To(Digit, z) @@ stop)
  @@ (one + 2) :> (To({"5"}, one + 3) @@ To(Digit, z) @@ stop)
  @@ (one + 3) :> (To(UpTo5, z) @@ stop)

Dot(t) == To({"."}, t)
Colon(t) == To({":"}, t)
Close == To({"]"}, 460)

\* The 1 to 4 digits of a group of an IPv6 address; stop is what may follow it.
Group(a, stop) ==
  [s \in a..(a + 3) |-> (IF s < a + 3 THEN To(Hex, s + 1) ELSE NoRow) @@ stop]

\* A group before "::": its digits, and the state after its colon.
Leading(a, elided) ==
  Group(a, Colon(a + 4)) @@ (a + 4) :> (To(Hex, a + 5) @@ Colon(elided))

\* A group that may turn out to be the first octet of an IPv4 address: state h
\* has read a 0, d a 1, d + 3 a 2, d + 6 another digit, x a letter.
GroupStart(h, d, x) ==
  To({"stx"}, 69) @@ To({"0"}, h) @@ To({"1"}, d) @@ To({"2"}, d + 3)
    @@ To({"3", "5", "6"}, d + 6) @@ To({"a"}, x)
ZeroGroup(h, stop) == h :> (Dot(72) @@ To(Hex, h + 1) @@ stop) @@ Group(h, stop)
DecGroup(d, h, stop) ==
  LET k == Dot(72) @@ stop IN
     d :> (To(Digit, d + 1) @@ To({"a"}, h + 1) @@ k)
  @@ (d + 1) :> (To(Digit, d + 2) @@ To({"a"}, h + 2) @@ k)
  @@ (d + 2) :> (To(Hex, h + 3) @@ k)
  @@ (d + 3) :> (To({"5"}, d + 5) @@ To(Digit, d + 4) @@ To({"a"}, h + 1) @@ k)
  @@ (d + 4) :> (To(Hex, h + 2) @@ k)
  @@ (d + 5) :> (To(UpTo5, d + 2) @@ To(Hex, h + 2) @@ k)
  @@ (d + 6) :> (To(Digit, d + 4) @@ To({"a"}, h + 1) @@ k)
LetterGroup(x, h, stop) == x :> (To(Hex, h + 1) @@ stop)

-----------------------------------------------------------------------------
\* The start, the first segment of a relative path, the later ones, the query
\* and the fragment.  "marku" and "markh" are one action, mark = p.
Start == 451 :> (   To((PChar \ Alpha) \ {":"}, 452) @@ To({"#"}, 453) @@ To({"%"}, 3)
                 @@ To({"/"}, 458) @@ To({"?"}, 456) @@ Do(Alpha, 508, <<"mark">>))
PathEnds == To({"#"}, 453) @@ To({"?"}, 456)
FirstSegment ==
     452 :> (To(PChar \ {":"}, 452) @@ To({"%"}, 3) @@ To({"/"}, 455) @@ PathEnds)
FragmentFirst ==
  453 :> (Do(PChar \cup {"/", "?"}, 454, <<"mark">>) @@ Do({"%"}, 1, <<"mark">>))
FragmentAndSegment ==
     454 :> (To(PChar \cup {"/", "?"}, 454) @@ To({"%"}, 1))
  @@ Pct(1, 454) @@ Pct(3, 452)
  @@ 455 :> (To(PChar \cup {"/"}, 455) @@ To({"%"}, 5) @@ PathEnds)
SegmentPct == Pct(5, 455)
QueryFirst ==
  456 :> (   Do(PChar \cup {"/", "?"}, 457, <<"mark">>) @@ Do({"%"}, 7, <<"mark">>)
          @@ Do({"#"}, 453, <<"mark", "query">>))
QueryRest ==
     457 :> (To(PChar \cup {"/", "?"}, 457) @@ To({"%"}, 7) @@ Do({"#"}, 453, <<"query">>))
  @@ Pct(7, 457)
OneSlash == 458 :> (   To({"/"}, 459) @@ To(PChar, 455) @@ To({"%"}, 5) @@ PathEnds)

\* Leaving the authority, with the actions of what ends there; the ":" before
\* a port and the "@" after a userinfo.
Leave(acts) ==
  Do({"#"}, 453, acts) @@ Do({"?"}, 456, acts) @@ Do({"/"}, 455, acts)
PortColon(t, acts) == Do({":"}, t, acts)
At(acts) == Do({"@"}, 469, acts)

\* The first character after "//", and after "@".
AuthorityFirst ==
  LET m == <<"mark">> IN
     459 :> (   Do({"stx"}, 9, m) @@ Do({"0"}, 490, m) @@ Do({"1"}, 504, m) @@ Do({"2"}, 506, m)
             @@ Do({"3", "5", "6"}, 505, m) @@ Do(Name, 467, m) @@ Do({"%"}, 31, m)
             @@ Do({"["}, 38, m) @@ Leave(<<"mark", "host">>)
             @@ PortColon(468, <<"mark", "host">>) @@ At(<<"mark", "userinfo">>))
  @@ Stx(9) @@ 11 :> Dot(12)
Octets2to4 ==
     12 :> OctetStart(13, 15, 27) @@ Stx(13) @@ 15 :> Dot(16)
  @@ 16 :> OctetStart(17, 19, 23) @@ Stx(17) @@ 19 :> Dot(20)
  @@ 20 :> OctetStart(21, 460, 463)
  @@ 21 :> To(UpTo4, 22) @@ 22 :> To(Digit, 460)
  @@ 460 :> (Leave(<<"host">>) @@ PortColon(461, <<"host">>))
Port == 461 :> (Do(Digit, 462, <<"mark">>) @@ Leave(<<"mark", "port">>))
     @@ 462 :> (To(Digit, 462) @@ Leave(<<"port">>))
OctetDigits ==
     OctetMore(463, 460, Leave(<<"host">>) @@ PortColon(461, <<"host">>))
  @@ OctetMore(23, 19, Dot(20)) @@ OctetMore(27, 15, Dot(16))

\* What may be a userinfo or a reg_name, and after a ":" a userinfo or a port.
UserOrHost == To(Name, 467) @@ To({"%"}, 31) @@ Leave(<<"host">>)
                @@ PortColon(468, <<"host">>) @@ At(<<"userinfo">>)
UserOnly == To(Name \cup {":"}, 33) @@ To({"%"}, 34) @@ At(<<"userinfo">>)
\* Mutant: the mark of a port is set whatever follows the ":".
UserinfoOrHostMark ==
     467 :> UserOrHost @@ Pct(31, 467)
  @@ 468 :> (   Do(Digit, 489, <<"mark">>) @@ Leave(<<"mark", "port">>)
             @@ Do(Name \cup {":"}, 33, <<"mark">>) @@ UserOnly)
  @@ 33 :> UserOnly @@ 34 :> To(Hex, 35)
UserinfoOrHost ==
     467 :> UserOrHost @@ Pct(31, 467)
  @@ 468 :> (Do(Digit, 489, <<"mark">>) @@ Leave(<<"mark", "port">>) @@ UserOnly)
  @@ 33 :> UserOnly @@ 34 :> To(Hex, 35)

\* After the "@".
HostRow == To(Name, 470) @@ To({"%"}, 36) @@ Leave(<<"host">>) @@ PortColon(461, <<"host">>)
HostFirst ==
  LET m == <<"mark">> IN
     35 :> To(Hex, 33)
  @@ 469 :> (   Do({"stx"}, 9, m) @@ Do({"0"}, 471, m) @@ Do({"1"}, 485, m) @@ Do({"2"}, 487, m)
             @@ Do({"3", "5", "6"}, 486, m) @@ Do(Name, 470, m) @@ Do({"%"}, 36, m)
             @@ Do({"["}, 38, m) @@ Leave(<<"mark", "host">>)
             @@ PortColon(461, <<"mark", "host">>))
  @@ 470 :> HostRow @@ Pct(36, 470)
HostOctets ==
     471 :> (Dot(472) @@ HostRow)
  @@ 472 :> (OctetStart(13, 473, 481) @@ HostRow)
  @@ 473 :> (Dot(474) @@ HostRow)
  @@ 474 :> (OctetStart(17, 475, 477) @@ HostRow)
  @@ 475 :> (Dot(476) @@ HostRow)
HostThirdOctet ==
  476 :> (To({"stx"}, 21) @@ HostRow) @@ OctetMore(477, 475, Dot(476) @@ HostRow)
HostSecondOctet == OctetMore(481, 473, Dot(474) @@ HostRow)
HostFirstOctet == OctetMore(485, 471, Dot(472) @@ HostRow)

\* IP_literal.  The groups before "::"; after the sixth the last 32 bits may be
\* an IPv4 address.
LitGroups12 ==
     38 :> (To(Hex, 39) @@ Colon(146) @@ To({"v"}, 225))
  @@ Leading(39, 141) @@ Leading(44, 136)
LitGroups34 == Leading(49, 131) @@ Leading(54, 126)
LitGroups56 ==
     Leading(59, 113) @@ Group(64, Colon(68))
  @@ 68 :> (GroupStart(96, 104, 112) @@ Colon(111))
LitOctets ==
     Stx(69) @@ 71 :> Dot(72) @@ 72 :> OctetStart(73, 75, 92)
  @@ Stx(73) @@ 75 :> Dot(76) @@ 76 :> OctetStart(77, 79, 88)
  @@ Stx(77) @@ 79 :> Dot(80) @@ 80 :> OctetStart(81, 83, 84)
  @@ Stx(81) @@ 83 :> Close @@ OctetMore(84, 83, Close)
LitOctetDigits ==
     OctetMore(88, 79, Dot(80)) @@ OctetMore(92, 75, Dot(76))
  @@ ZeroGroup(96, Colon(100))
LitLastGroup ==
     100 :> (To(Hex, 101) @@ Colon(83))
  @@ 101 :> (To(Hex, 102) @@ Close) @@ 102 :> (To(Hex, 103) @@ Close)
  @@ 103 :> (To(Hex, 83) @@ Close)
LitSeventhDec == DecGroup(104, 96, Colon(100))
LitAfterElision ==
     111 :> To(Hex, 101) @@ LetterGroup(112, 96, Colon(100))
  @@ 113 :> GroupStart(114, 118, 125) @@ ZeroGroup(114, Colon(111))
LitAfterElisionDec == DecGroup(118, 114, Colon(111)) @@ LetterGroup(125, 114, Colon(111))

\* After n groups and "::", the groups that must follow one another.
Required(a, t) == a :> To(Hex, a + 1) @@ Group(a + 1, Colon(t))
LitRequired12 == Required(126, 113) @@ Required(131, 126)
LitRequired34 == Required(136, 131) @@ Required(141, 136) @@ 146 :> Colon(147)

\* After a leading "::" every group may be the last one.
TailGroup(h, d, t) ==
  (h - 1) :> GroupStart(h, d, d + 7) @@ ZeroGroup(h, Colon(t) @@ Close)
TailDec(d, h, t) ==
  DecGroup(d, h, Colon(t) @@ Close) @@ LetterGroup(d + 7, h, Colon(t) @@ Close)
LitTail12 ==
  147 :> (GroupStart(148, 217, 224) @@ Close) @@ TailGroup(148, 217, 152) @@ TailGroup(153, 209, 157)
LitTail34 == TailGroup(158, 201, 162) @@ TailGroup(163, 193, 167)
\* Mutant: the last group leads back to the state before it.
LitTail56Loop == TailGroup(168, 185, 172) @@ TailGroup(173, 177, 172)
LitTail56 == TailGroup(168, 185, 172) @@ TailGroup(173, 177, 111)
LitTailDec6 == TailDec(177, 173, 111)
LitTailDec5 == TailDec(185, 168, 172)
LitTailDec4 == TailDec(193, 163, 167)
LitTailDec3 == TailDec(201, 158, 162)
LitTailDec2 == TailDec(209, 153, 157)
LitTailDec1 == TailDec(217, 148, 152)
IPvFuture ==
     225 :> To(Hex, 226) @@ 226 :> (To(Hex, 226) @@ Dot(227))
  @@ 227 :> To(Name \cup {":"}, 228) @@ 228 :> (To(Name \cup {":"}, 228) @@ Close)

\* Before an "@": digits after a ":", and a name that may be an IPv4 address.
PortOrUserinfo ==
     489 :> (To(Digit, 489) @@ Leave(<<"port">>) @@ UserOnly)
  @@ 490 :> (Dot(491) @@ UserOrHost)
  @@ 491 :> (OctetStart(13, 492, 500) @@ UserOrHost)
  @@ 492 :> (Dot(493) @@ UserOrHost)
NameOctets ==
     493 :> (OctetStart(17, 494, 496) @@ UserOrHost)
  @@ 494 :> (Dot(495) @@ UserOrHost)
  @@ 495 :> (To({"stx"}, 21) @@ UserOrHost)
NameThirdOctet == OctetMore(496, 494, Dot(495) @@ UserOrHost)
NameSecondOctet == OctetMore(500, 492, Dot(493) @@ UserOrHost)
NameFirstOctet == OctetMore(504, 490, Dot(491) @@ UserOrHost)

\* A scheme, or the first segment of a relative path; after the scheme's ":".
SchemeOrSegment ==
     508 :> (   To(Alpha \cup Digit \cup {"+", "."}, 508) @@ Do({":"}, 509, <<"scheme">>)
             @@ To(PChar, 452) @@ To({"%"}, 3) @@ To({"/"}, 455) @@ PathEnds)
AfterScheme ==
     509 :> (To({"/"}, 510) @@ To(PChar, 455) @@ To({"%"}, 5) @@ PathEnds)
  @@ 510 :> (To({"/"}, 511) @@ To(PChar, 455) @@ To({"%"}, 5) @@ PathEnds)

-----------------------------------------------------------------------------
\* The second copy of a state: its number, and its edges.  Where the first copy
\* leaves the authority, the second one starts the path (mark) and, at a "?" or
\* a "#", also saves it.  An action that a transition has twice runs once.
Second(n) ==
  CASE n \in 9..22 -> n + 220
    [] n \in 23..228 -> n + 222
    [] n \in 459..460 -> n + 52
    [] n \in 461..507 -> n + 53
Marked(acts) ==
  IF \E i \in DOMAIN acts : acts[i] = "mark" THEN acts ELSE Append(acts, "mark")
SecondEdge(e) ==
  CASE e[1] = 455 -> <<513, Marked(e[2])>>
    [] e[1] \in {453, 456} -> <<e[1], Append(Marked(e[2]), "path")>>
    [] OTHER -> <<Second(e[1]), e[2]>>
HierPart(table) ==
  LET first == [n \in {Second(s) : s \in DOMAIN table} |->
                  CHOOSE s \in DOMAIN table : Second(s) = n]
  IN  [n \in DOMAIN first |->
        [c \in DOMAIN table[first[n]] |-> SecondEdge(table[first[n]][c])]]

HierPath ==
     513 :> (   To(PChar \cup {"/"}, 513) @@ To({"%"}, 243)
             @@ Do({"#"}, 453, <<"path">>) @@ Do({"?"}, 456, <<"path">>))
  @@ Pct(243, 513)
HierAuthorityFirst == HierPart(AuthorityFirst)
HierOctets2to4 == HierPart(Octets2to4)
HierPort == HierPart(Port)
HierOctetDigits == HierPart(OctetDigits)
HierUserinfoOrHost == HierPart(UserinfoOrHost)
HierHostFirst == HierPart(HostFirst)
HierHostOctets == HierPart(HostOctets)
HierHostThirdOctet == HierPart(HostThirdOctet)
HierHostSecondOctet == HierPart(HostSecondOctet)
HierHostFirstOctet == HierPart(HostFirstOctet)
HierLitGroups12 == HierPart(LitGroups12)
HierLitGroups34 == HierPart(LitGroups34)
HierLitGroups56 == HierPart(LitGroups56)
HierLitOctets == HierPart(LitOctets)
HierLitOctetDigits == HierPart(LitOctetDigits)
HierLitLastGroup == HierPart(LitLastGroup)
HierLitSeventhDec == HierPart(LitSeventhDec)
HierLitAfterElision == HierPart(LitAfterElision)
HierLitAfterElisionDec == HierPart(LitAfterElisionDec)
HierLitRequired12 == HierPart(LitRequired12)
HierLitRequired34 == HierPart(LitRequired34)
HierLitTail12 == HierPart(LitTail12)
HierLitTail34 == HierPart(LitTail34)
HierLitTail56 == HierPart(LitTail56)
HierLitTailDec6 == HierPart(LitTailDec6)
HierLitTailDec5 == HierPart(LitTailDec5)
HierLitTailDec4 == HierPart(LitTailDec4)
HierLitTailDec3 == HierPart(LitTailDec3)
HierLitTailDec2 == HierPart(LitTailDec2)
HierLitTailDec1 == HierPart(LitTailDec1)
HierIPvFuture == HierPart(IPvFuture)
HierPortOrUserinfo == HierPart(PortOrUserinfo)
HierNameOctets == HierPart(NameOctets)
HierNameThirdOctet == HierPart(NameThirdOctet)
HierNameSecondOctet == HierPart(NameSecondOctet)
HierNameFirstOctet == HierPart(NameFirstOctet)

\* The switch of every state.
Delta ==
     Start @@ FirstSegment @@ FragmentFirst @@ FragmentAndSegment
  @@ SegmentPct @@ QueryFirst @@ QueryRest @@ OneSlash @@ AuthorityFirst
  @@ Octets2to4 @@ Port @@ OctetDigits @@ UserinfoOrHost @@ HostFirst
  @@ HostOctets @@ HostThirdOctet @@ HostSecondOctet @@ HostFirstOctet
  @@ LitGroups12 @@ LitGroups34 @@ LitGroups56 @@ LitOctets @@ LitOctetDigits
  @@ LitLastGroup @@ LitSeventhDec @@ LitAfterElision @@ LitAfterElisionDec
  @@ LitRequired12 @@ LitRequired34 @@ LitTail12 @@ LitTail34 @@ LitTail56
  @@ LitTailDec6 @@ LitTailDec5 @@ LitTailDec4 @@ LitTailDec3 @@ LitTailDec2
  @@ LitTailDec1 @@ IPvFuture @@ PortOrUserinfo @@ NameOctets
  @@ NameThirdOctet @@ NameSecondOctet @@ NameFirstOctet @@ SchemeOrSegment
  @@ AfterScheme @@ HierPath @@ HierAuthorityFirst @@ HierOctets2to4
  @@ HierPort @@ HierOctetDigits @@ HierUserinfoOrHost @@ HierHostFirst
  @@ HierHostOctets @@ HierHostThirdOctet @@ HierHostSecondOctet
  @@ HierHostFirstOctet @@ HierLitGroups12 @@ HierLitGroups34
  @@ HierLitGroups56 @@ HierLitOctets @@ HierLitOctetDigits
  @@ HierLitLastGroup @@ HierLitSeventhDec @@ HierLitAfterElision
  @@ HierLitAfterElisionDec @@ HierLitRequired12 @@ HierLitRequired34
  @@ HierLitTail12 @@ HierLitTail34 @@ HierLitTail56 @@ HierLitTailDec6
  @@ HierLitTailDec5 @@ HierLitTailDec4 @@ HierLitTailDec3 @@ HierLitTailDec2
  @@ HierLitTailDec1 @@ HierIPvFuture @@ HierPortOrUserinfo @@ HierNameOctets
  @@ HierNameThirdOctet @@ HierNameSecondOctet @@ HierNameFirstOctet

\* The actions at the end of the text: leaving actions of the component that
\* ends there.  States without an entry have none.
EndOfPort == [s \in {462, 489} |-> <<"port">>]
          @@ [s \in {461, 468} |-> <<"mark", "port">>]
          @@ [s \in {515, 542} |-> <<"port", "mark", "path">>]
          @@ [s \in {514, 521} |-> <<"mark", "port", "path">>]
EndOfHost == [s \in {459, 469} |-> <<"mark", "host">>]
          @@ [s \in {460} \cup 463..467 \cup 470..488 \cup 490..507 |-> <<"host">>]
          @@ [s \in {511, 522} |-> <<"mark", "host", "path">>]
          @@ [s \in {512} \cup 516..520 \cup 523..541 \cup 543..560 |->
                <<"host", "mark", "path">>]
EndOfText == 513 :> <<"path">> @@ 457 :> <<"query">> @@ 454 :> <<"fragment">>
          @@ 456 :> <<"mark", "query">> @@ 453 :> <<"mark", "fragment">>
AtEof == EndOfPort @@ EndOfHost @@ EndOfText
=============================================================================
