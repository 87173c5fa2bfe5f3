------------------------------ MODULE Parsers ------------------------------
(***************************************************************************)
(* The three generated parsers with the code that drives them, side by     *)
(* side: Uri::Create on a text, recvRequest on what a client sends and     *)
(* recvResponse on what a server sends.  A behavior is one input of one of *)
(* them, chosen character by character; the variables that belong to the   *)
(* others stay Unused.                                                     *)
(***************************************************************************)
EXTENDS Integers

CONSTANTS
  LongBits,    \* bits of int64_t
  IntBits,     \* bits of int
  MaxDigits,   \* bound on the digits of a length
  MaxCuts      \* bound on the parts of a message that a read ends in or that are unusual

ASSUME ParsersAssumption ==
  /\ IntBits \in Nat /\ LongBits \in Nat /\ 1 < IntBits /\ IntBits < LongBits
  /\ MaxDigits \in Nat \ {0} /\ MaxCuts \in Nat

VARIABLES
  input,                            \* "uri", "request" or "response"
  ret,                              \* what Create or recv... returned
  phase, parser, offset, left, peer, cuts, torn, eof,   \* of recvRequest and recvResponse
  cs, mark, uri, ref                \* of Create

messageVars == <<phase, parser, offset, left, peer, cuts, eof>>
uriVars == <<cs, mark, uri, ref>>
vars == <<input, ret, messageVars, torn, uriVars>>

Uri == INSTANCE UriParser
Request == INSTANCE RecvRequest WITH client <- peer
Response == INSTANCE RecvResponse WITH server <- peer

Unused == "unused"
NoMessage ==
  /\ phase = Unused /\ parser = Unused /\ offset = Unused /\ left = Unused
  /\ peer = Unused /\ cuts = Unused /\ eof = Unused
NoUri == cs = Unused /\ mark = Unused /\ uri = Unused /\ ref = Unused

Init ==
  \/ input = "uri" /\ Uri!Init /\ NoMessage /\ torn = Unused
  \/ input = "request" /\ Request!Init /\ NoUri /\ torn = Unused
  \/ input = "response" /\ Response!Init /\ NoUri

ParseUri == input = "uri" /\ Uri!Next /\ UNCHANGED <<input, messageVars, torn>>
ReceiveRequest == input = "request" /\ Request!Next /\ UNCHANGED <<input, torn, uriVars>>
ReceiveResponse == input = "response" /\ Response!Next /\ UNCHANGED <<input, uriVars>>

Next == ParseUri \/ ReceiveRequest \/ ReceiveResponse

Spec == Init /\ [][Next]_vars
-----------------------------------------------------------------------------
(* Properties *)

\* Whatever the text, Uri::Create accepts exactly the references of RFC 3986 but
\* for the IP literals for which uri.rl departs from it, and throws exactly when a
\* port before a path is empty.
UriAccepted == input = "uri" => Uri!AcceptsRfcButLiterals /\ Uri!ThrowsOnEmptyPort

\* Every component of a Uri is the part of the text that the RFC says (for the port,
\* the text that atoi reads), except for a userinfo with a digit behind its first
\* colon, and a path without scheme and authority.
UriComponents ==
  input = "uri" => Uri!ComponentsExact /\ Uri!UserinfoExact /\ Uri!PathExact

\* However the bytes of a request are cut into reads, recvRequest returns when the
\* last has come and not before, unless a read ended in the Content-Length, a blank
\* follows it or int64_t cannot hold it, or the body is in chunks; and it drops what
\* a client that does not wait for the answer sent with the head.
RequestFramed == input = "request" => Request!FramedExactly

\* recvRequest refuses a request, or has another method, path, query or wish to
\* keep the connection than was sent, only if a read ended in that part (or the
\* method is none of the server's, the path starts with two slashes, the body is
\* too long for an int, or a blank follows keep-alive).
RequestRead ==
  input = "request" => Request!RefusedOnlyIf /\ Request!LineExact /\ Request!KeepAliveExact

\* However the bytes of a response are cut into reads, recvResponse takes each for
\* what it is (head, size of a chunk, data, line end) and returns when the last has
\* come, unless a read ended in one of the parts that Misled names or the message is
\* one of those that Unfit names.
ResponseFramed == input = "response" => Response!BytesInPlace /\ Response!ReturnsAtEnd

\* recvResponse refuses a response, or has another status than was sent, only if a
\* read ended in the version, in the status or in the line before a chunk (or for
\* a quoted value there, a body too long for an int, or an empty Connection as the
\* last header, which alone can fail an assert).
ResponseRead == input = "response" => Response!RefusedOnlyIf /\ Response!StatusExact
=============================================================================
