---------------------------- MODULE MCByteArray ----------------------------
(* A small instance of ByteArray for TLC: bytes of 3 bits, Varints of 5. *)
EXTENDS ByteArray

RawData == {<<1, 2, 1>>}
SomeSigned == {-16, 15}
SomeStrings == {<<>>, <<4>>, <<4, 5>>}
============================================================================
