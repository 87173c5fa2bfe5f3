------------------------------ MODULE ByteArray ------------------------------
(***************************************************************************)
(* HPS::ByteArray (bytearray.h, bytearray.cc) and the two operations of    *)
(* SocketStream that receive into it and send from it.                     *)
(*                                                                         *)
(* The bytes lie in a list of nodes of m_baseSize bytes.  m_cur points to  *)
(* the node of m_position; at the end of the capacity it is null, and the  *)
(* next addCapacity sets it.  write() and read() go through the nodes in a *)
(* loop: one iteration is one step here.  The typed readers call read()    *)
(* once or several times.  Only the owner of a ByteArray uses it, so       *)
(* nothing else happens between the steps of a call.                       *)
(***************************************************************************)
EXTENDS ByteCodec

CONSTANTS
  Base,      \* m_baseSize
  MaxSize,   \* bound on the bytes written
  MaxTyped,  \* bound on the typed values written
  Raw,       \* the data that write() is called with
  Fixed,     \* the values of the fixed-size writers
  Unsigned,  \* the values of writeUint32 and writeUint64
  Signed,    \* the values of writeInt32 and writeInt64
  Strings,   \* the values of the string writers
  LenBits,   \* bits that writeStringF16 and its like keep of a length (8 * FixBytes)
  Garbage    \* what new char[] holds in every byte

ASSUME ArrayConstants ==
  /\ Base \in Nat /\ Base > 0
  /\ MaxSize \in Nat /\ MaxTyped \in Nat
  /\ Garbage \in Byte
  /\ Raw \subseteq Seq(Byte)
  /\ Fixed \subseteq 0..(Pow2[ByteBits * FixBytes] - 1)
  /\ Unsigned \subseteq Word
  /\ Signed \subseteq (-Pow2[VarBits - 1])..(Pow2[VarBits - 1] - 1)
  /\ Strings \subseteq Seq(Byte) /\ \A v \in Strings : Len(v) \in Word
  /\ LenBits \in Nat /\ LenBits <= ByteBits * FixBytes

VARIABLES
  m_position, m_capacity, m_size, m_endian,
  nodes,    \* the list from m_root: the bytes of each node
  m_cur,    \* the number of a node, or 0 for a null pointer
  op,       \* where the program is: idle, write, read, next (between two reads
            \* of a typed reader), crashed (a null m_cur was dereferenced)
  npos,     \* local of write() and read()
  buf,      \* write(): what is still to be written
  left,     \* read(): size, what is still to be read
  got,      \* read(): what has been read
  reader,   \* the typed reader that called read(), with its locals
  ret,      \* what the last typed reader returned
  wrote,    \* history: the last typed value written, as long as it is intact
  budget    \* how many more typed values are written

store == <<m_position, m_capacity, m_size, nodes, m_cur>>
locals == <<npos, buf, left, got>>
typed == <<reader, ret, wrote>>
vars == <<store, m_endian, op, locals, typed, budget>>

None == [kind |-> "none"]
Plain == [kind |-> "plain"]   \* a call of read() by the user

-----------------------------------------------------------------------------
Larger(a, b) == IF a > b THEN a ELSE b
Smaller(a, b) == IF a < b THEN a ELSE b

\* p->next
NextNode(k, list) == IF k < Len(list) THEN k + 1 ELSE 0

\* All bytes of the nodes one after the other
Flat ==
  [i \in 1..(Base * Len(nodes)) |-> nodes[(i - 1) \div Base + 1][(i - 1) % Base]]

getReadSize == m_size - m_position
getCapacity == m_capacity - m_position

NewNode == [k \in 0..(Base - 1) |-> Garbage]

\* How many nodes addCapacity(size) makes: ceil((size - old_cap) / m_baseSize)
Missing(size) ==
  IF getCapacity >= size THEN 0 ELSE (size - getCapacity + Base - 1) \div Base

\* addCapacity(size): list and cur are the list and m_cur afterwards
Grown(size) == nodes \o [k \in 1..Missing(size) |-> NewNode]

\* Mutant: m_cur stays null when the list grows at its end
CursorAfterGrowthKept(size) == m_cur

CursorAfterGrowth(size) ==
  IF getCapacity = 0 /\ Missing(size) > 0 THEN Len(nodes) + 1 ELSE m_cur

\* Mutant: a position at a node's end belongs to that node
NodeOfClosed(v, list) ==
  CHOOSE k \in 1..Len(list) : v <= k * Base /\ (k = 1 \/ v > (k - 1) * Base)

\* The loop of setPosition: past every node that ends before v, and past the one
\* that ends there
NodeOf(v, list) ==
  LET k == CHOOSE k \in 1..Len(list) :
             v <= k * Base /\ (k = 1 \/ v > (k - 1) * Base)
  IN  IF v = k * Base THEN NextNode(k, list) ELSE k

-----------------------------------------------------------------------------
(***************************************************************************)
(* write()                                                                 *)
(***************************************************************************)

\* The typed value that a write of n bytes at m_position leaves intact
Intact(n) ==
  IF \/ wrote = None
     \/ m_position + n <= wrote.at
     \/ wrote.at + wrote.len <= m_position
    THEN wrote ELSE None

\* write(data, size): make room, compute npos and (from m_cur) ncap, enter the loop
StartWrite(data, value) ==
  /\ op = "idle"
  /\ data # <<>>
  /\ m_position + Len(data) <= MaxSize
  /\ nodes' = Grown(Len(data))
  /\ m_capacity' = m_capacity + Base * Missing(Len(data))
  /\ m_cur' = CursorAfterGrowth(Len(data))
  /\ op' = IF m_cur' = 0 THEN "crashed" ELSE "write"
  /\ npos' = m_position % Base
  /\ buf' = data
  /\ IF value = None THEN wrote' = Intact(Len(data)) /\ UNCHANGED budget
                     ELSE budget > 0 /\ budget' = budget - 1 /\ wrote' = value
  /\ ret' = None /\ got' = <<>>
  /\ UNCHANGED <<m_position, m_size, m_endian, left, reader>>

\* memcpy of the first n bytes of buf to the current node
CopyIn(n) ==
  nodes' = [nodes EXCEPT ![m_cur] =
              [k \in DOMAIN @ |-> IF k >= npos /\ k < npos + n
                                    THEN buf[k - npos + 1] ELSE @[k]]]

\* Mutant: the node is not left when the data ends at its end
WriteLastStays ==
  /\ op = "write"
  /\ Base - npos >= Len(buf)
  /\ CopyIn(Len(buf))
  /\ m_position' = m_position + Len(buf)
  /\ m_size' = Larger(m_size, m_position')
  /\ op' = "idle" /\ npos' = 0 /\ buf' = <<>>
  /\ UNCHANGED <<m_capacity, m_cur, m_endian, left, got, typed, budget>>

\* The rest fits into the current node: the last iteration, then m_size
WriteLast ==
  /\ op = "write"
  /\ Base - npos >= Len(buf)
  /\ CopyIn(Len(buf))
  /\ m_cur' = IF Base = npos + Len(buf) THEN NextNode(m_cur, nodes) ELSE m_cur
  /\ m_position' = m_position + Len(buf)
  /\ m_size' = Larger(m_size, m_position')
  /\ op' = "idle" /\ npos' = 0 /\ buf' = <<>>
  /\ UNCHANGED <<m_capacity, m_endian, left, got, typed, budget>>

\* The rest does not fit: fill the current node and go to the next one
WriteNode ==
  /\ op = "write"
  /\ Base - npos < Len(buf)
  /\ CopyIn(Base - npos)
  /\ m_position' = m_position + Base - npos
  /\ buf' = SubSeq(buf, Base - npos + 1, Len(buf))
  /\ m_cur' = NextNode(m_cur, nodes)
  /\ op' = IF m_cur' = 0 THEN "crashed" ELSE op
  /\ npos' = 0
  /\ UNCHANGED <<m_capacity, m_size, m_endian, left, got, typed, budget>>

-----------------------------------------------------------------------------
(***************************************************************************)
(* read()                                                                  *)
(***************************************************************************)

\* read(buf, size), called by r: too much is refused before anything is
\* changed; then m_cur is dereferenced for ncap, whatever size is
EnterRead(size, r) ==
  IF size > getReadSize
    THEN /\ op' = "idle" /\ reader' = None
         /\ UNCHANGED <<npos, left, got>>
    ELSE /\ op' = IF m_cur = 0 THEN "crashed"
                  ELSE IF size = 0 THEN "idle" ELSE "read"
         /\ reader' = IF op' = "idle" THEN None ELSE r
         /\ npos' = IF op' = "read" THEN m_position % Base ELSE 0
         /\ left' = IF op' = "idle" THEN 0 ELSE size
         /\ got' = <<>>

\* The first or next n bytes of the current node
FromNode(n) == [k \in 1..n |-> nodes[m_cur][npos + k - 1]]

\* The last iteration of read().  A plain read is over; a typed one goes on.
ReadLast ==
  /\ op = "read"
  /\ Base - npos >= left
  /\ got' = got \o FromNode(left)
  /\ m_cur' = IF Base = npos + left THEN NextNode(m_cur, nodes) ELSE m_cur
  /\ m_position' = m_position + left
  /\ op' = IF reader = Plain THEN "idle" ELSE "next"
  /\ reader' = IF reader = Plain THEN None ELSE reader
  /\ npos' = 0 /\ left' = 0
  /\ UNCHANGED <<m_capacity, m_size, nodes, m_endian, buf, ret, wrote, budget>>

ReadNode ==
  /\ op = "read"
  /\ Base - npos < left
  /\ got' = got \o FromNode(Base - npos)
  /\ m_position' = m_position + Base - npos
  /\ left' = left - (Base - npos)
  /\ m_cur' = NextNode(m_cur, nodes)
  /\ op' = IF m_cur' = 0 THEN "crashed" ELSE op
  /\ npos' = 0
  /\ UNCHANGED <<m_capacity, m_size, nodes, m_endian, buf, typed, budget>>

Read(size) ==
  /\ op = "idle"
  /\ EnterRead(size, Plain)
  /\ ret' = None
  /\ UNCHANGED <<store, m_endian, buf, wrote, budget>>

\* read(buf, size, position): size > m_size - position, a difference of size_t that
\* wraps around when position is behind the end
RefusedAt(size, position) == position <= m_size /\ size > m_size - position

\* Its loop starts at m_cur, dereferences it whatever size is, and runs off the list
\* if the nodes from there on do not hold so much.  The bytes go to the caller's
\* memory (readAt, below) and no member changes.
ReadAt(size, position) ==
  /\ op = "idle"
  /\ ~RefusedAt(size, position)
  /\ IF m_cur = 0 \/ (m_cur - 1) * Base + (position % Base) + size > Base * Len(nodes)
       THEN /\ op' = "crashed"
            /\ reader' = [kind |-> "at", at |-> position]
            /\ got' = <<>>
       ELSE UNCHANGED <<op, reader, got>>
  /\ UNCHANGED <<store, m_endian, npos, buf, left, ret, wrote, budget>>

-----------------------------------------------------------------------------
(***************************************************************************)
(* Typed values.  A string is written with two calls of write(), which     *)
(* grow and fill the list exactly as one call with both parts.             *)
(***************************************************************************)

\* The bytes that the writer of a kind of value passes to write().  A string is
\* preceded by its length, by writeStringVint as a Varint, by writeStringF16, F32
\* and F64 (fstring) as a fixed-size integer to which value.size() is narrowed.
Encode(kind, v) ==
  CASE kind = "fixed"    -> FixedBytes(v, m_endian)
    [] kind = "unsigned" -> Varint[v]
    [] kind = "signed"   -> Varint[EncodeZigzag(v)]
    [] kind = "string"   -> Varint[Len(v)] \o v
    [] kind = "fstring"  -> FixedBytes(Len(v) % Pow2[LenBits], m_endian) \o v

WriteTyped(kind, v) ==
  StartWrite(Encode(kind, v),
             [kind |-> kind, value |-> v, at |-> m_position,
              len |-> Len(Encode(kind, v))])

\* A typed reader starts with its first read()
ReadTyped(kind) ==
  /\ op = "idle"
  /\ EnterRead(IF kind \in {"fixed", "fstring"} THEN FixBytes ELSE 1,
               [kind |-> kind, at |-> m_position, i |-> 0, acc |-> 0])
  /\ ret' = None
  /\ UNCHANGED <<store, m_endian, buf, wrote, budget>>

\* The reader returns v
Return(v) ==
  /\ ret' = [kind |-> reader.kind, at |-> reader.at, value |-> v]
  /\ reader' = None
  /\ op' = "idle"
  /\ got' = <<>>
  /\ UNCHANGED <<npos, left>>

FixedRead ==
  /\ op = "next" /\ reader.kind = "fixed"
  /\ Return(FixedValue(got, m_endian))
  /\ UNCHANGED <<store, m_endian, buf, wrote, budget>>

\* A string of length n starts at position at: the second read() of its reader
EnterBody(n, kind, at) ==
  /\ EnterRead(n, [kind |-> "body", at |-> at, of |-> kind])
  /\ ret' = IF op' = "idle" /\ n = 0
              THEN [kind |-> kind, at |-> at, value |-> <<>>] ELSE ret

\* readStringF16, readStringF32, readStringF64: the length has been read
LengthRead ==
  /\ op = "next" /\ reader.kind = "fstring"
  /\ EnterBody(FixedValue(got, m_endian), "fstring", reader.at)
  /\ UNCHANGED <<store, m_endian, buf, wrote, budget>>

\* readUint32, readUint64: the byte b that readFuint8 delivered.  A string's
\* length is followed by a read of the string itself.
VarintByte ==
  LET b == got[1]
      acc == AddGroup(reader.acc, b, reader.i)
  IN
  /\ op = "next" /\ reader.kind \in {"unsigned", "signed", "string"}
  /\ IF ~LastGroup(b, reader.i)
       THEN /\ EnterRead(1, [reader EXCEPT !.i = @ + Group, !.acc = acc])
            /\ UNCHANGED ret
     ELSE IF reader.kind = "string" THEN EnterBody(acc, "string", reader.at)
     ELSE Return(IF reader.kind = "signed" THEN DecodeZigzag(acc) ELSE acc)
  /\ UNCHANGED <<store, m_endian, buf, wrote, budget>>

StringRead ==
  /\ op = "next" /\ reader.kind = "body"
  /\ ret' = [kind |-> reader.of, at |-> reader.at, value |-> got]
  /\ reader' = None
  /\ op' = "idle"
  /\ got' = <<>>
  /\ UNCHANGED <<store, m_endian, npos, buf, left, wrote, budget>>

-----------------------------------------------------------------------------
(***************************************************************************)
(* The other operations                                                    *)
(***************************************************************************)

\* setPosition(v): it may put bytes nobody wrote into the array
SetPosition(v) ==
  /\ op = "idle"
  /\ v <= m_capacity
  /\ m_position' = v
  /\ m_size' = Larger(m_size, v)
  /\ m_cur' = NodeOf(v, nodes)
  /\ ret' = None /\ got' = <<>>
  /\ UNCHANGED <<m_capacity, nodes, m_endian, op, npos, buf, left, reader, wrote,
                 budget>>

Clear ==
  /\ op = "idle"
  /\ m_position' = 0 /\ m_size' = 0
  /\ m_capacity' = Base
  /\ nodes' = SubSeq(nodes, 1, 1)
  /\ m_cur' = 1
  /\ wrote' = None /\ ret' = None /\ got' = <<>>
  /\ UNCHANGED <<m_endian, op, npos, buf, left, reader, budget>>

SetIsLittleEndian(val) ==
  /\ op = "idle"
  /\ m_endian' = Int8(IF val THEN LITTLE_ENDIAN ELSE BIG_ENDIAN)
  /\ UNCHANGED <<store, op, locals, typed, budget>>

\* m bytes of a node from index off on, as pairs of node and index
InNode(m, node, off) == [k \in 1..m |-> <<node, off + k - 1>>]

\* The loop of getReadBuffers, getWriteBuffers and read(buf, size, position):
\* the n bytes it points to from index off of a node on
Cells[loop \in Nat \X Nat \X Nat] ==
  LET n == loop[1]
      node == loop[2]
      off == loop[3]
      ncap == Base - off
  IN  IF ncap >= n THEN InNode(n, node, off)
      ELSE InNode(ncap, node, off) \o Cells[<<n - ncap, node + 1, 0>>]

\* Mutant: the first buffer starts with its node
getReadBuffersNode(len) ==
  LET n == Smaller(len, getReadSize)
  IN  IF n = 0 THEN <<>> ELSE Cells[<<n, m_cur, 0>>]

\* getReadBuffers(buffers, len)
getReadBuffers(len) ==
  LET n == Smaller(len, getReadSize)
  IN  IF n = 0 THEN <<>> ELSE Cells[<<n, m_cur, m_position % Base>>]

\* read(buf, size, position): it starts at m_cur, wherever position is
readAt(size, position) == Cells[<<size, m_cur, position % Base>>]

\* getReadBuffers(buffers, len, position): len is cut to what is after m_position
getReadBuffersAt(len, position) ==
  LET n == Smaller(len, getReadSize)
  IN  IF n = 0 THEN <<>> ELSE Cells[<<n, position \div Base + 1, position % Base>>]

\* toString(): the bytes [m_position, m_size)
toString ==
  IF getReadSize = 0 THEN <<>> ELSE readAt(getReadSize, m_position)

\* The loop of writeToFile.  A null cur would be dereferenced: <<0, 0>>.
FileCells[loop \in Int \X Nat \X Int] ==
  LET read_size == loop[1]
      node == loop[2]
      pos == loop[3]
      diff == pos % Base
      len == Smaller(read_size, Base) - diff
  IN  IF read_size <= 0 THEN <<>>
      ELSE IF node \notin 1..Len(nodes) THEN <<<<0, 0>>>>
      ELSE InNode(len, node, diff)
             \o FileCells[<<read_size - len, node + 1, pos + len>>]

writeToFile == FileCells[<<getReadSize, m_cur, m_position>>]

\* SocketStream::read(ba, length): getWriteBuffers makes room; the kernel fills
\* the first bytes; setPosition takes them into the array
StreamRead(length, data) ==
  LET list == Grown(length)
      cells == Cells[<<length, CursorAfterGrowth(length), m_position % Base>>]
      full == [k \in 1..Len(list) |-> [j \in 0..(Base - 1) |->
                 IF \E i \in 1..Len(data) : cells[i] = <<k, j>>
                   THEN data[CHOOSE i \in 1..Len(data) : cells[i] = <<k, j>>]
                   ELSE list[k][j]]]
      end == m_position + Len(data)
  IN
  /\ op = "idle"
  /\ length > 0 /\ m_position + length <= MaxSize
  /\ Len(data) <= length
  /\ nodes' = full
  /\ m_capacity' = m_capacity + Base * Missing(length)
  /\ IF data = <<>>
       THEN /\ m_cur' = CursorAfterGrowth(length)
            /\ UNCHANGED <<m_position, m_size, wrote, ret, got>>
       ELSE /\ m_position' = end
            /\ m_size' = Larger(m_size, end)
            /\ m_cur' = NodeOf(end, list)
            /\ wrote' = Intact(Len(data)) /\ ret' = None /\ got' = <<>>
  /\ UNCHANGED <<m_endian, op, npos, buf, left, reader, budget>>

\* SocketStream::write(ba, length), of which the socket takes n bytes
StreamWrite(length, n) ==
  LET cells == getReadBuffers(length)
  IN
  /\ op = "idle"
  /\ n > 0 /\ n <= Len(cells)
  /\ got' = [i \in 1..n |-> nodes[cells[i][1]][cells[i][2]]]
  /\ m_position' = m_position + n
  /\ m_cur' = NodeOf(m_position', nodes)
  /\ ret' = None
  /\ UNCHANGED <<m_capacity, m_size, nodes, m_endian, op, npos, buf, left, reader,
                 wrote, budget>>

-----------------------------------------------------------------------------
Init ==
  /\ m_position = 0 /\ m_size = 0
  /\ m_capacity = Base
  /\ m_endian = Int8(BIG_ENDIAN)
  /\ nodes = <<NewNode>>
  /\ m_cur = 1
  /\ op = "idle"
  /\ npos = 0 /\ buf = <<>> /\ left = 0 /\ got = <<>>
  /\ reader = None /\ ret = None /\ wrote = None /\ budget = MaxTyped

Kinds == {"fixed", "unsigned", "signed", "string", "fstring"}

Value(kind) ==
  CASE kind = "fixed" -> Fixed [] kind = "unsigned" -> Unsigned
    [] kind = "signed" -> Signed [] kind \in {"string", "fstring"} -> Strings

Next ==
  \/ \E data \in Raw : StartWrite(data, None)
  \/ \E kind \in Kinds : \/ \E v \in Value(kind) : WriteTyped(kind, v)
                         \/ ReadTyped(kind)
  \/ WriteLast \/ WriteNode \/ ReadLast \/ ReadNode
  \/ FixedRead \/ VarintByte \/ LengthRead \/ StringRead
  \/ \E n \in 0..MaxSize : Read(n) \/ \E p \in 0..m_capacity : ReadAt(n, p)
  \/ \E v \in 0..m_capacity : SetPosition(v)
  \/ Clear
  \/ \E b \in BOOLEAN : SetIsLittleEndian(b)
  \/ \E n \in 1..MaxSize :
       \/ \E data \in Raw \cup {<<>>} : StreamRead(n, data)
       \/ \E k \in 1..Smaller(n, getReadSize) : StreamWrite(n, k)

Spec == Init /\ [][Next]_vars

-----------------------------------------------------------------------------
(***************************************************************************)
(* Properties                                                              *)
(***************************************************************************)

\* Types of the members and of the locals.
TypeOK ==
  /\ m_position \in Nat /\ m_capacity \in Nat /\ m_size \in Nat
  /\ m_endian \in -128..127
  /\ nodes \in Seq([0..(Base - 1) -> Byte])
  /\ m_cur \in 0..Len(nodes)
  /\ op \in {"idle", "write", "read", "next", "crashed"}
  /\ npos \in 0..(Base - 1)
  /\ buf \in Seq(Byte) /\ got \in Seq(Byte) /\ left \in Nat

\* The members have their types and m_cur, which every loop starts from, is the node
\* of m_position, and null exactly at the end of the capacity, where addCapacity sets
\* it again; the capacity is that of the list and holds all that was written.
CursorExact ==
  /\ TypeOK
  /\ m_capacity = Base * Len(nodes)
  /\ m_position <= m_capacity /\ m_size <= m_capacity
  /\ m_cur = IF m_position = m_capacity THEN 0 ELSE m_position \div Base + 1

\* No write runs off the list, whatever borders it meets.  A read dereferences a
\* null m_cur only if it is a read of no bytes at the very end of the capacity (a
\* reader of an empty string whose length ends there).  A read at a position runs
\* off the list only with m_position at the end of the capacity, or from a position
\* in an earlier node than m_position or behind the end.
CrashOnlyAtEnd ==
  op = "crashed" =>
    /\ buf = <<>> /\ left = 0
    /\ \/ m_position = m_capacity
       \/ /\ reader.kind = "at"
          /\ reader.at > m_size \/ reader.at \div Base < m_position \div Base

\* The array as its user sees it: a write has its effect when it starts, a read has
\* delivered its bytes when it starts
Content == SubSeq(Flat, 1, Larger(m_size, m_position))
Bytes ==
  IF op # "write" THEN Content
  ELSE [i \in 1..Larger(Len(Content), m_position + Len(buf)) |->
          IF i > m_position /\ i <= m_position + Len(buf)
            THEN buf[i - m_position] ELSE Content[i]]
Pos == m_position + (IF op = "write" THEN Len(buf) ELSE left)
Out == got \o SubSeq(Content, m_position + 1, m_position + left)
Seen == INSTANCE ByteSeq WITH bytes <- Bytes, pos <- Pos, out <- Out

\* To its user the list of nodes is one sequence of bytes with a position: what a
\* write, a read, a stream operation, setPosition or clear does over any borders
\* of nodes is what it does to the sequence.
ImplementsByteSeq == Seen!SSpec

Holds(cells, from, n) ==
  /\ Len(cells) = n
  /\ \A i \in 1..n : /\ cells[i][1] \in 1..Len(nodes)
                     /\ nodes[cells[i][1]][cells[i][2]] = Content[from + i]

\* The buffers handed to the kernel, toString and writeToFile describe exactly the
\* bytes from the position on.  writeToFile does so from the start of a node or
\* with more than a node to write; read at a position within the node of
\* m_position; getReadBuffers at a position not behind m_position.
BuffersExact ==
  op = "idle" =>
    /\ \A n \in 0..getReadSize : Holds(getReadBuffers(n), m_position, n)
    /\ Holds(toString, m_position, getReadSize)
    /\ m_position % Base = 0 \/ getReadSize > Base =>
         Holds(writeToFile, m_position, getReadSize)
    /\ \A p \in 0..m_size :
         /\ p \div Base + 1 = m_cur =>
              \A n \in 0..(m_size - p) : Holds(readAt(n, p), p, n)
         /\ p <= m_position =>
              \A n \in 0..getReadSize : Holds(getReadBuffersAt(n, p), p, n)

\* The length of a string fits into the integer that is written in front of it
Fits(kind, v) == kind = "fstring" => Len(v) < Pow2[LenBits]

\* A typed reader that starts where a value of its type was written, and was not
\* overwritten since, returns that value, over any borders of nodes, unless it is
\* a string too long for its length (65536 bytes and more for writeStringF16).
TypedExact ==
  /\ ret # None /\ wrote # None
  /\ ret.kind = wrote.kind /\ ret.at = wrote.at
  /\ Fits(wrote.kind, wrote.value)
  => ret.value = wrote.value

-----------------------------------------------------------------------------
(***************************************************************************)
(* The invariant of ByteArrayProofs                                        *)
(***************************************************************************)

VarKinds == {"unsigned", "signed", "string"}

\* The number that the writer of a kind passes to writeUint32 or writeUint64
Number(kind, v) ==
  IF kind = "signed" THEN EncodeZigzag(v) ELSE IF kind = "string" THEN Len(v) ELSE v

\* What write() and read() know between two iterations: the room that addCapacity
\* made, or the bytes that were there, are still in front of m_position.
Locals ==
  /\ nodes # <<>>
  /\ op # "write" => buf = <<>> /\ m_position <= m_size
  /\ op # "read" => left = 0
  /\ op \in {"write", "read"} => npos = m_position % Base
  /\ op = "write" => buf # <<>> /\ got = <<>> /\ m_position + Len(buf) <= m_capacity
  /\ op = "read" => left > 0 /\ m_position + left <= m_size
  /\ op = "crashed" =>
       \/ m_position = m_capacity
       \/ /\ reader.kind = "at"
          /\ reader.at > m_size \/ reader.at \div Base < m_position \div Base

\* What a reader has got are the bytes before the position; one of a Varint has read
\* a byte for every group.
Readers ==
  /\ \/ reader \in {None, Plain}
     \/ reader \in [kind : Kinds, at : Nat, i : Nat, acc : Nat]
     \/ reader \in [kind : {"body"}, at : Nat, of : {"string", "fstring"}]
     \/ reader \in [kind : {"at"}, at : Nat] /\ op = "crashed"
  /\ op \in {"idle", "write"} => reader = None
  /\ op = "read" => reader # None
  /\ op = "next" => reader \notin {None, Plain}
  /\ op \in {"read", "next"} =>
       /\ Len(Out) <= Pos /\ Out = SubSeq(Bytes, Pos - Len(Out) + 1, Pos)
       /\ reader.kind \in {"fixed", "fstring"} =>
            Pos = reader.at + FixBytes /\ Len(Out) = FixBytes
       /\ reader.kind \in VarKinds =>
            /\ Len(Out) = 1 /\ Pos > reader.at
            /\ reader.i = Group * (Pos - reader.at - 1)

\* The last typed value is in its place.
Written ==
  wrote # None =>
    /\ wrote.kind \in Kinds /\ wrote.value \in Value(wrote.kind) /\ wrote.at \in Nat
    /\ wrote.len = Len(Encode(wrote.kind, wrote.value))
    /\ wrote.at + wrote.len <= Len(Bytes)
    /\ \A k \in 1..wrote.len :
         Bytes[wrote.at + k] = Encode(wrote.kind, wrote.value)[k]

\* A reader that started at this value has its lower bits, and the upper ones are in
\* front of it.
Decoding ==
  op \in {"read", "next"} /\ wrote # None /\ reader # Plain =>
    LET c == Number(wrote.kind, wrote.value)
        rest == Varint[c \div Pow2[reader.i]]
    IN
    reader.at = wrote.at =>
      /\ /\ reader.kind = "body" /\ reader.of = wrote.kind
         /\ Fits(wrote.kind, wrote.value)
         => Out = wrote.value
      /\ reader.kind \in VarKinds /\ reader.kind = wrote.kind =>
           /\ reader.acc = c % Pow2[reader.i]
           /\ \A k \in 1..Len(rest) : Bytes[Pos - 1 + k] = rest[k]
           /\ reader.kind = "string" =>
                Pos - 1 + Len(rest) + Len(wrote.value) = wrote.at + wrote.len

IInv == CursorExact /\ Locals /\ Readers /\ Written /\ Decoding /\ TypedExact
=============================================================================
