------------------------------ MODULE UriParser ------------------------------
(***************************************************************************)
(* Uri::Create: the automaton of UriMachine run over a text, the pointer   *)
(* mark, and the setters its actions call.                                 *)
(*                                                                         *)
(* The text is chosen one character at a time and is not bounded.  Instead *)
(* of an index, a position is known by its landmarks: the places of the    *)
(* text that RFC 3986 cuts it at (where the authority starts, where an "@" *)
(* stands, ...).  A saved component is the pair of its two ends, so the    *)
(* components can be compared with the ones of the RFC for every text.     *)
(* Those are computed beside the automaton, in ref, by reading the text    *)
(* the way the RFC describes it; ref goes on after the automaton has       *)
(* failed, because the text does.                                          *)
(***************************************************************************)
EXTENDS UriMachine, SequencesExt

VARIABLES
  cs,     \* the state of the automaton, 0 is the error
  mark,   \* NULL, or where it points and whether p is still there
  uri,    \* the components that were set, NoSpan when never
  ret,    \* what Create returned: "none" (not yet), "uri", "nullptr", "throws"
  ref     \* the RFC's reading of the same text

vars == <<cs, mark, uri, ret, ref>>

Null == [at |-> {}, here |-> FALSE]
NoSpan == <<>>
Fields == {"scheme", "userinfo", "host", "port", "path", "query", "fragment"}
Unset == [f \in Fields |-> NoSpan]
-----------------------------------------------------------------------------
\* The RFC's reading.  phase: where the text is; sch: "first" and "maybe" while
\* what was read may be a scheme; u, h: what was read of the authority may be a
\* userinfo, and how far it is as a host; num: a digit follows the first ":";
\* stx: the text has the byte 2; departs: it has an IP literal that the RFC
\* allows and uri.rl does not.
NoLit == [kind |-> "six", g |-> 0, d |-> 0, el |-> "no", dots |-> 0, oct |-> "",
          big |-> FALSE, capital |-> FALSE, last |-> "start"]
RefStart ==
  [phase |-> "start", sch |-> "first", auth |-> FALSE, at |-> FALSE, colon |-> FALSE,
   num |-> FALSE, u |-> FALSE, h |-> "none", lit |-> NoLit, pct |-> 0, ok |-> TRUE,
   stx |-> FALSE, departs |-> FALSE, next |-> {"start"}, query |-> FALSE, frag |-> FALSE, port |-> "none"]

SchemeEnds(r, c) == r.phase = "start" /\ r.sch = "maybe" /\ c = ":"
InAuthority(r) == r.phase = "auth"
Outside(r) == r.h # "lit"
EndsAuthority(r, c) == InAuthority(r) /\ c \in {"/", "?", "#", "eof"}
EndsPath(r, c) == r.phase \in {"start", "slash", "path", "auth"} /\ c \in {"?", "#", "eof"}

\* The landmarks of the position of character c.
Landmarks(r, c) ==
  r.next
    \cup (IF SchemeEnds(r, c) THEN {"schemeEnd"} ELSE {})
    \cup (IF EndsAuthority(r, c) THEN {"authEnd"} ELSE {})
    \cup (IF InAuthority(r) /\ Outside(r) /\ c = ":" THEN {"colon"} ELSE {})
    \cup (IF InAuthority(r) /\ c = "@" THEN {"at"} ELSE {})
    \cup (IF EndsPath(r, c) THEN {"pathEnd"} ELSE {})
    \cup (IF r.phase = "query" /\ c \in {"#", "eof"} THEN {"queryEnd"} ELSE {})
    \cup (IF c = "eof" THEN {"end"} ELSE {})

\* A dec_octet of the RFC, digit by digit.
Octet(o, c) ==
  CASE o = "" /\ c = "0" -> "z"
    [] o = "" /\ c = "1" -> "1"
    [] o = "" /\ c = "2" -> "2"
    [] o = "" -> "m"
    [] o = "1" -> "m"
    [] o = "2" /\ c \in UpTo4 -> "2m"
    [] o = "2" /\ c = "5" -> "25"
    [] o = "2" -> "z"
    [] o = "25" /\ c \in UpTo5 -> "z"
    [] o = "m" -> "z"
    [] o = "2m" -> "big"
    [] OTHER -> "over"

BadLit(l) == [l EXCEPT !.kind = "bad"]
LitHex(l, c) ==
  CASE l.dots > 0 /\ c \in Digit -> [l EXCEPT !.oct = Octet(@, c), !.last = "digit"]
    [] l.dots > 0 \/ l.d = 4 \/ l.last = "colon1" -> BadLit(l)
    [] OTHER -> [l EXCEPT !.d = @ + 1, !.last = "digit",
                          !.oct = IF c \in Digit THEN Octet(@, c) ELSE "over"]
LitColon(l) ==
  CASE l.dots > 0 \/ l.last = "colon2" -> BadLit(l)
    [] l.last = "digit" /\ l.g < 7 ->
         [l EXCEPT !.g = @ + 1, !.d = 0, !.oct = "", !.last = "colon"]
    [] l.last = "start" -> [l EXCEPT !.last = "colon1"]
    [] l.last = "colon1" -> [l EXCEPT !.el = "leading", !.last = "colon2"]
    [] l.last = "colon" /\ l.el = "no" -> [l EXCEPT !.el = "inner", !.last = "colon2"]
    [] OTHER -> BadLit(l)
LitDot(l) ==
  IF l.last = "digit" /\ l.dots < 3 /\ l.oct # "over"
  THEN [l EXCEPT !.dots = @ + 1, !.big = @ \/ l.oct = "big", !.d = 0,
                 !.oct = "", !.last = "dot"]
  ELSE BadLit(l)
LitStep(l, c) ==
  CASE l.kind = "six" /\ c \in Hex -> LitHex(l, c)
    [] l.kind = "six" /\ c = ":" -> LitColon(l)
    [] l.kind = "six" /\ c = "." -> LitDot(l)
    [] l.kind = "six" /\ c \in {"v", "V"} /\ l.last = "start" ->
         [l EXCEPT !.kind = "v", !.capital = c = "V"]
    [] l.kind \in {"v", "vx"} /\ c \in Hex -> [l EXCEPT !.kind = "vx"]
    [] l.kind = "vx" /\ c = "." -> [l EXCEPT !.kind = "v."]
    [] l.kind \in {"v.", "future"} /\ c \in Name \cup {":"} -> [l EXCEPT !.kind = "future"]
    [] OTHER -> BadLit(l)

\* IPv6address of the RFC: eight groups, or at most seven and one "::"; the last
\* two may be an IPv4 address.
LitGroups(l) ==
  l.g + (IF l.dots > 0 THEN 2 ELSE IF l.last = "digit" THEN 1 ELSE 0)
LitValid(l) ==
  \/ l.kind = "future"
  \/ /\ l.kind = "six"
     /\ l.last = "digit" \/ l.last = "colon2"
     /\ l.dots \in {0, 3}
     /\ l.dots = 3 => l.oct # "over"
     /\ IF l.el = "no" THEN LitGroups(l) = 8 ELSE LitGroups(l) <= 7

\* Where uri.rl departs from it: (h16 ":"){n} demands n groups before an inner
\* "::", so that it stands for one group only; the 2 of 200 to 249; and a capital
\* V, which the RFC's "v" stands for too.
LitDeparts(l) ==
  /\ LitValid(l)
  /\ \/ l.kind = "six" /\ l.el = "inner" /\ LitGroups(l) < 7
     \/ l.kind = "six" /\ (l.big \/ (l.oct = "big" /\ l.dots = 3))
     \/ l.capital

\* The next state of the host and of the userinfo that the authority may be.
HostStep(r, c) ==
  CASE r.h = "lit" -> IF c # "]" THEN "lit" ELSE IF LitValid(r.lit) THEN "end" ELSE "bad"
    [] r.h = "name" /\ c \in Name \cup {"%"} -> "name"
    [] r.h \in {"name", "end"} /\ c = ":" -> "port"
    [] r.h = "name" /\ c = "[" /\ r.next \cap {"auth", "afterAt"} # {} -> "lit"
    [] r.h = "port" /\ c \in Digit -> "port"
    [] OTHER -> "bad"

AuthorityStep(r, c) ==
  IF c = "@"
  THEN [r EXCEPT !.ok = @ /\ r.u, !.at = TRUE, !.u = FALSE, !.h = "name", !.colon = FALSE,
                 !.port = "none", !.next = {"afterAt"}]
  ELSE LET h == HostStep(r, c)
           u == r.u /\ c \in Name \cup {":", "%"}
       IN  [r EXCEPT !.h = h, !.u = u, !.ok = @ /\ (u \/ h # "bad"),
                     !.lit = IF r.h = "lit" /\ h = "lit" THEN LitStep(@, c) ELSE NoLit,
                     !.departs = @ \/ (r.h = "lit" /\ c = "]" /\ LitDeparts(r.lit)),
                     !.colon = @ \/ (Outside(r) /\ c = ":"),
                     !.num = @ \/ ("first:" \in r.next /\ c \in Digit),
                     !.port = CASE h # "port" -> "none"
                                [] c = ":" -> "empty"
                                [] OTHER -> "some",
                     !.next = IF ~Outside(r) \/ c # ":" THEN {}
                              ELSE IF r.colon \/ r.at THEN {"afterColon"}
                              ELSE {"afterColon", "first:"}]

\* A character that ends the component it is read in.
EnterQuery(r) == [r EXCEPT !.phase = "query", !.query = TRUE, !.next = {"query"}]
EnterFragment(r) == [r EXCEPT !.phase = "frag", !.frag = TRUE, !.next = {"frag"}]
EnterAuthority(r) ==
  [r EXCEPT !.phase = "auth", !.auth = TRUE, !.u = TRUE, !.h = "name", !.next = {"auth"}]
LeaveAuthority(r) == [r EXCEPT !.ok = @ /\ r.h \in {"name", "end", "port"}]
Plain(r, c, allowed) ==
  [r EXCEPT !.ok = @ /\ c \in allowed \cup {"%"}, !.next = {}]

RefMove(r, c) ==
  LET q == IF InAuthority(r) /\ c \in {"/", "?", "#"} THEN LeaveAuthority(r) ELSE r IN
  CASE c = "#" /\ r.phase # "frag" -> EnterFragment(q)
    [] c = "?" /\ r.phase \notin {"query", "frag"} -> EnterQuery(q)
    [] r.phase \in {"query", "frag"} -> Plain(r, c, PChar \cup {"/", "?"})
    [] r.phase = "auth" /\ c = "/" -> [q EXCEPT !.phase = "path", !.next = {}]
    [] r.phase = "auth" -> AuthorityStep(r, c)
    [] r.phase = "slash" /\ c = "/" -> EnterAuthority(r)
    [] SchemeEnds(r, c) -> [r EXCEPT !.phase = "hier", !.sch = "yes", !.next = {}]
    [] r.phase \in {"start", "hier"} /\ c = "/" ->
         [r EXCEPT !.next = {}, !.sch = IF r.phase = "hier" THEN "yes" ELSE "no",
                   !.phase = IF r.sch \in {"first", "yes"} THEN "slash" ELSE "path"]
    [] r.phase = "start" ->
         [Plain(r, c, PChar \ {":"}) EXCEPT
            !.sch = IF \/ @ = "first" /\ c \in Alpha
                       \/ @ = "maybe" /\ c \in Alpha \cup Digit \cup {"+", "."}
                    THEN "maybe" ELSE "no"]
    [] OTHER -> [Plain(r, c, PChar \cup {"/"}) EXCEPT !.phase = "path"]

\* After the byte 2 nothing is compared, and nothing is kept.
RefStep(r, c) ==
  LET m == IF r.pct > 0 /\ c \notin Hex THEN [r EXCEPT !.ok = FALSE] ELSE r
      pct == IF r.pct > 0 THEN r.pct - 1 ELSE IF c = "%" THEN 2 ELSE 0
  IN  IF r.stx \/ c = "stx" THEN [RefStart EXCEPT !.stx = TRUE]
      ELSE [RefMove(m, c) EXCEPT !.pct = pct]

RefAccepts(r) ==
  r.ok /\ r.pct = 0 /\ (InAuthority(r) => r.h \in {"name", "end", "port"})
-----------------------------------------------------------------------------
\* One action of a transition: mark = p, or a setter called with the text from
\* mark to p.  std::string(NULL, n) throws; save_port and save_host leave a NULL
\* or an empty text alone, and save_host does not reset mark.
Act(m, a, here) ==
  LET saved == [m EXCEPT !.uri[a] = <<m.mark.at, here>>] IN
  CASE m.thrown -> m
    [] a = "mark" -> [m EXCEPT !.mark = [at |-> here, here |-> TRUE]]
    [] a = "host" -> IF m.mark = Null THEN m ELSE saved
    [] a = "port" -> [(IF m.mark.here THEN m ELSE saved) EXCEPT !.mark = Null]
    [] a = "userinfo" -> [(IF m.mark = Null THEN m ELSE saved) EXCEPT !.mark = Null]
    [] OTHER -> IF m.mark = Null THEN [m EXCEPT !.thrown = TRUE]
                ELSE [saved EXCEPT !.mark = Null]

Acts(acts, here) ==
  FoldLeft(LAMBDA m, a : Act(m, a, here),
           [mark |-> mark, uri |-> uri, thrown |-> FALSE], acts)

Init ==
  /\ cs = 451 /\ mark = Null /\ ret = "none"
  /\ uri = Unset
  /\ ref = RefStart

\* The automaton reads c: a transition with its actions, or the error state.
\* After an error, which drops the object, the text goes on only while the RFC
\* could still accept it.
Read(c) ==
  /\ ret = "none"
  /\ cs # 0 \/ (ref.ok /\ ~ref.stx)
  /\ LET edge == IF cs # 0 /\ c \in DOMAIN Delta[cs] THEN Delta[cs][c] ELSE <<0, <<>>>>
         m == Acts(edge[2], Landmarks(ref, c))
     IN  /\ cs' = edge[1]
         /\ mark' = IF edge[1] = 0 THEN Null ELSE [m.mark EXCEPT !.here = FALSE]
         /\ uri' = IF edge[1] = 0 THEN Unset ELSE m.uri
         /\ ret' = IF m.thrown THEN "throws" ELSE "none"
  /\ ref' = RefStep(ref, c)

\* The end of the text: the leaving actions, and the test of the final states.
Finish ==
  /\ ret = "none"
  /\ LET m == Acts(IF cs \in DOMAIN AtEof THEN AtEof[cs] ELSE <<>>, Landmarks(ref, "eof"))
     IN  /\ mark' = m.mark
         /\ uri' = m.uri
         /\ ret' = CASE m.thrown -> "throws"
                     [] cs >= 451 -> "uri"
                     [] OTHER -> "nullptr"
  /\ UNCHANGED <<cs, ref>>

Next == (\E c \in Chars : Read(c)) \/ Finish

Spec == Init /\ [][Next]_vars
-----------------------------------------------------------------------------
From(f, l) == uri[f] # NoSpan /\ l \in uri[f][1]
UpTo(f, l) == uri[f] # NoSpan /\ l \in uri[f][2]
Is(f, a, b) == From(f, a) /\ UpTo(f, b)

\* Whatever the text, Create accepts exactly the references of RFC 3986 (and
\* bytes above 127 in a path, a query or a fragment), without the IP literals
\* for which uri.rl departs from it.  Not compared are texts with the byte 2,
\* which the rule for 200 to 249 reads instead of the character.
AcceptsRfcButLiterals ==
  ret \in {"uri", "nullptr"} /\ ~ref.stx =>
    (ret = "uri" <=> RefAccepts(ref) /\ ~ref.departs)

\* The host, the port, the query and the fragment of a Uri are the ones of the
\* RFC, although host and port are saved while the text may still turn out to
\* be a userinfo.
ComponentsExact ==
  ret = "uri" /\ ~ref.stx =>
    /\ IF ref.auth
       THEN /\ From("host", IF ref.at THEN "afterAt" ELSE "auth")
            /\ UpTo("host", IF ref.colon THEN "colon" ELSE "authEnd")
       ELSE uri["host"] = NoSpan
    /\ IF ref.port = "some" THEN Is("port", "afterColon", "authEnd")
       ELSE uri["port"] = NoSpan
    /\ IF ref.query THEN Is("query", "query", IF ref.frag THEN "queryEnd" ELSE "end")
       ELSE uri["query"] = NoSpan
    /\ IF ref.frag THEN Is("fragment", "frag", "end") ELSE uri["fragment"] = NoSpan

\* The userinfo is everything before the "@", except when a digit follows its
\* first ":": then it is what follows that ":".
UserinfoExact ==
  ret = "uri" /\ ~ref.stx =>
    IF ref.at
    THEN Is("userinfo", IF ref.num THEN "first:" ELSE "auth", "at")
    ELSE uri["userinfo"] = NoSpan

\* The path is saved only after a scheme and an authority, and is then exactly
\* the path of the RFC.
PathExact ==
  ret = "uri" /\ ~ref.stx =>
    /\ IF ref.sch = "yes" /\ ref.auth THEN Is("path", "authEnd", "pathEnd")
       ELSE uri["path"] = NoSpan
    /\ IF ref.sch = "yes" THEN Is("scheme", "start", "schemeEnd")
       ELSE uri["scheme"] = NoSpan

\* Create throws exactly when a port after a scheme is empty: save_port has set
\* mark to NULL after the path's entering action had set it.
ThrowsOnEmptyPort ==
  /\ ret = "throws" /\ ~ref.stx => ref.sch = "yes" /\ ref.auth /\ ref.port = "empty"
  /\ ret = "uri" /\ ~ref.stx => ~(ref.sch = "yes" /\ ref.auth /\ ref.port = "empty")
=============================================================================
