------------------------------ MODULE ByteCodec ------------------------------
(***************************************************************************)
(* How ByteArray turns integers into bytes and back: fixed-size integers   *)
(* in the byte order of the array, and Varints (groups of all bits of a    *)
(* byte but the highest, which says that more follow), signed ones in      *)
(* zigzag form.  The code has bytes of 8 bits and words of 16, 32 and 64;  *)
(* the widths are parameters here.                                         *)
(***************************************************************************)
EXTENDS Integers, Sequences, SequencesExt

CONSTANTS
  ByteBits,  \* bits of a byte (8)
  VarBits,   \* bits of a Varint's word (32 or 64)
  FixBytes   \* bytes of a fixed-size integer (2, 4 or 8)

ASSUME CodecConstants ==
  /\ ByteBits \in Nat /\ ByteBits >= 2
  /\ VarBits \in Nat /\ VarBits > 0
  /\ FixBytes \in Nat /\ FixBytes > 0

Pow2[n \in Nat] == IF n = 0 THEN 1 ELSE 2 * Pow2[n - 1]   \* 1 << n

Byte == 0..(Pow2[ByteBits] - 1)
Group == ByteBits - 1          \* the bits of a Varint's byte that carry data
More == Pow2[Group]            \* 0x80
Word == 0..(Pow2[VarBits] - 1) \* uint32_t, uint64_t

\* <endian.h>: LITTLE_ENDIAN and BIG_ENDIAN are ints, m_endian is an int8_t
LITTLE_ENDIAN == 1234
BIG_ENDIAN == 4321
BYTE_ORDER == LITTLE_ENDIAN
Int8(n) == LET m == n % 256 IN IF m < 128 THEN m ELSE m - 256

\* Mutant: the negative numbers get the codes of the positive ones
EncodeZigzagEven(v) == (IF v < 0 THEN (-v) * 2 ELSE v * 2) % Pow2[VarBits]

\* EncodeZigzag32, EncodeZigzag64: the sign goes to the lowest bit
EncodeZigzag(v) == (IF v < 0 THEN (-v) * 2 - 1 ELSE v * 2) % Pow2[VarBits]

\* DecodeZigzag32, DecodeZigzag64: (v >> 1) ^ -(v & 1)
DecodeZigzag(u) == IF u % 2 = 0 THEN u \div 2 ELSE -(u \div 2) - 1

\* writeUint32, writeUint64: the lowest group first
Varint[v \in Nat] ==
  IF v >= More THEN <<(v % More) + More>> \o Varint[v \div More] ELSE <<v>>

\* readUint32, readUint64: result | (b & 0x7f) << i
AddGroup(result, b, i) == (result + (b % More) * Pow2[i]) % Pow2[VarBits]

\* The loop of readUint32 and readUint64 ends with byte b at shift i
LastGroup(b, i) == b < More \/ i + Group >= VarBits

\* An integer as it lies in the memory of a little-endian machine
InMemory(v) ==
  [k \in 1..FixBytes |-> (v \div Pow2[ByteBits * (k - 1)]) % Pow2[ByteBits]]

\* writeFint16 ... writeFuint64: swapped unless m_endian is the machine's order
FixedBytes(v, endian) ==
  IF endian # BYTE_ORDER THEN Reverse(InMemory(v)) ELSE InMemory(v)

\* The integer of which the memory holds the bytes m: Lowest(m)[k] is that of the
\* first k of them
Lowest(m) ==
  LET f[k \in 0..FixBytes] ==
        IF k = 0 THEN 0 ELSE f[k - 1] + m[k] * Pow2[ByteBits * (k - 1)]
  IN  f

\* readFint16 ... readFuint64
FixedValue(s, endian) ==
  Lowest(IF endian = BYTE_ORDER THEN s ELSE Reverse(s))[FixBytes]
=============================================================================
