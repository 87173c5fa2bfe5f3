--------------------------- MODULE ByteArrayProofs ---------------------------
(***************************************************************************)
(* IInv is an inductive invariant of ByteArray, for nodes, bytes and words *)
(* of any size and any data.  CursorExact, CrashOnlyOnEmptyRead,           *)
(* BuffersExact and TypedExact follow, and ByteArray implements ByteSeq.   *)
(*                                                                         *)
(* The argument.  The sequence that the user sees (Bytes, Pos, Out) is     *)
(* described byte by byte without the borders of the nodes: the i-th one   *)
(* lies at position i - 1 or is still to be written (SeenIs).  Every       *)
(* operation is described once in these terms (Still, Wrote, Fetched,      *)
(* Returned, Moved); the invariant and the refinement are about the        *)
(* descriptions.  For the values, a typed reader has the lower bits of the *)
(* number that was written and the Varint of the upper ones is in front of *)
(* it (Decoding): a byte moves one group from the one to the other.        *)
(*                                                                         *)
(* Pow2, Varint, Cells, FileCells and Lowest are recursive functions.      *)
(* Recursion shows that such a definition defines a function, and          *)
(* StrongInduction is the induction over what it computes; both are about  *)
(* sets of numbers and functions as values.                                *)
(***************************************************************************)
EXTENDS ByteArray, SequenceTheorems, WellFoundedInduction, TLAPS

-----------------------------------------------------------------------------
(***************************************************************************)
(* Induction and recursion                                                 *)
(***************************************************************************)

\* A set that has a number as soon as it has all smaller ones has all numbers.
LEMMA StrongInduction ==
  ASSUME NEW S \in SUBSET Nat,
         \A n \in Nat : (\A m \in Nat : m < n => m \in S) => n \in S
  PROVE  S = Nat
<1>1. SUFFICES ASSUME Nat \ S # {} PROVE FALSE
  OBVIOUS
<1>2. PICK x \in Nat \ S : \A y \in Nat \ S : <<y, x>> \notin OpToRel(<, Nat)
  BY <1>1, WFMin, NatLessThanWellFounded
<1>3. \A m \in Nat : m < x => m \in S
  BY <1>2 DEF OpToRel
<1> QED BY <1>2, <1>3

\* f is the function that the recursive definition by these parts asks for
Solves(f, D, more, next, base, comb) ==
  \A d \in D : f[d] = IF d \in more THEN comb[d][f[next[d]]] ELSE base[d]

\* A definition by recursion along decreasing numbers defines a function: the value at
\* d is got from the one at next[d], or is base[d].
LEMMA Recursion ==
  ASSUME NEW D, NEW S, NEW rank \in [D -> Nat], NEW more \in SUBSET D,
         NEW next \in [more -> D], NEW base \in [D -> S], NEW comb \in [D -> [S -> S]],
         \A d \in more : rank[next[d]] < rank[d]
  PROVE  \E f \in [D -> S] : Solves(f, D, more, next, base, comb)
<1> DEFINE Eq(f, g, d) == f[d] = IF d \in more THEN comb[d][g[next[d]]] ELSE base[d]
           Good(f, n) == \A d \in D : rank[d] <= n => Eq(f, f, d)
<1>1. \A n \in Nat : \E f \in [D -> S] : Good(f, n)
  <2> DEFINE T == {n \in Nat : \E f \in [D -> S] : Good(f, n)}
  <2>1. ASSUME NEW n \in Nat, \A m \in Nat : m < n => m \in T PROVE n \in T
    <3>1. CASE n = 0
      <4>1. Good(base, 0)
        OBVIOUS
      <4> QED BY <3>1, <4>1
    <3>2. CASE n # 0
      <4>1. PICK f \in [D -> S] : Good(f, n - 1)
        BY <2>1, <3>2
      <4> DEFINE g == [d \in D |-> IF d \in more THEN comb[d][f[next[d]]] ELSE base[d]]
      <4>2. g \in [D -> S]
        OBVIOUS
      <4>3. ASSUME NEW d \in D, rank[d] <= n PROVE Eq(g, g, d)
        <5>1. CASE d \in more
          <6>1. next[d] \in D /\ rank[next[d]] <= n - 1
            BY <3>2, <4>3, <5>1
          <6>2. g[next[d]] = f[next[d]]
            BY <4>1, <6>1
          <6> QED BY <5>1, <6>2
        <5> QED BY <5>1
      <4> HIDE DEF g
      <4> QED BY <4>2, <4>3
    <3> QED BY <3>1, <3>2
  <2>2. T = Nat
    <3> HIDE DEF T
    <3>1. T \in SUBSET Nat
      BY DEF T
    <3> QED BY <2>1, <3>1, StrongInduction
  <2> QED BY <2>2
<1>2. ASSUME NEW f \in [D -> S], NEW g \in [D -> S], NEW n \in Nat,
             Good(f, n), Good(g, n)
      PROVE  \A d \in D : rank[d] <= n => f[d] = g[d]
  <2> DEFINE T == {m \in Nat : \A d \in D : rank[d] = m /\ m <= n => f[d] = g[d]}
  <2>1. ASSUME NEW m \in Nat, \A k \in Nat : k < m => k \in T PROVE m \in T
    <3>1. SUFFICES ASSUME NEW d \in D, rank[d] = m, m <= n PROVE f[d] = g[d]
      OBVIOUS
    <3>2. CASE d \in more
      <4>1. next[d] \in D /\ rank[next[d]] < m /\ rank[next[d]] \in Nat
        BY <3>1, <3>2
      <4>2. f[next[d]] = g[next[d]]
        BY <2>1, <3>1, <4>1
      <4> QED BY <1>2, <3>1, <3>2, <4>2
    <3> QED BY <1>2, <3>1, <3>2
  <2>2. T = Nat
    <3> HIDE DEF T
    <3>1. T \in SUBSET Nat
      BY DEF T
    <3> QED BY <2>1, <3>1, StrongInduction
  <2> QED BY <2>2
<1> DEFINE Upto(n) == CHOOSE f \in [D -> S] : Good(f, n)
           F == [d \in D |-> Upto(rank[d])[d]]
<1>3. ASSUME NEW n \in Nat PROVE Upto(n) \in [D -> S] /\ Good(Upto(n), n)
  <2> HIDE DEF Good
  <2> QED BY <1>1
<1>4. ASSUME NEW d \in D PROVE Eq(F, F, d)
  <2> DEFINE f == Upto(rank[d])
  <2>1. f \in [D -> S] /\ Good(f, rank[d])
    <3>1. rank[d] \in Nat
      OBVIOUS
    <3> HIDE DEF Upto, Good
    <3> QED BY <1>3, <3>1
  <2>2. F[d] = f[d]
    <3> HIDE DEF Upto
    <3> QED OBVIOUS
  <2> HIDE DEF f, F
  <2>3. Eq(f, f, d)
    <3>1. rank[d] \in Nat /\ rank[d] <= rank[d]
      OBVIOUS
    <3> HIDE DEF Eq
    <3> QED BY <2>1, <3>1
  <2>4. CASE d \in more
    <3> DEFINE g == Upto(rank[next[d]])
    <3>1. next[d] \in D /\ rank[next[d]] < rank[d] /\ rank[next[d]] \in Nat
      BY <2>4
    <3>2. g \in [D -> S] /\ Good(g, rank[next[d]])
      <4> HIDE DEF Upto, Good
      <4> QED BY <1>3, <3>1
    <3>3. F[next[d]] = g[next[d]]
      <4> HIDE DEF Upto
      <4> QED BY <3>1 DEF F
    <3> HIDE DEF g, F, Upto
    <3>4. Good(f, rank[next[d]])
      BY <2>1, <3>1
    <3>5. \A e \in D : rank[e] <= rank[next[d]] => f[e] = g[e]
      <4>1. f \in [D -> S] /\ g \in [D -> S] /\ rank[next[d]] \in Nat
        BY <2>1, <3>1, <3>2
      <4>2. Good(f, rank[next[d]]) /\ Good(g, rank[next[d]])
        BY <3>2, <3>4
      <4> HIDE DEF Good, Eq
      <4> QED BY <1>2, <4>1, <4>2
    <3>6. f[next[d]] = g[next[d]]
      BY <3>1, <3>5
    <3> QED BY <2>2, <2>3, <2>4, <3>3, <3>6
  <2>5. CASE d \notin more
    BY <2>2, <2>3, <2>5
  <2> QED BY <2>4, <2>5
<1>5. F \in [D -> S]
  <2>1. \A d \in D : Upto(rank[d])[d] \in S
    <3> HIDE DEF Upto
    <3> QED BY <1>3
  <2> HIDE DEF Upto
  <2> QED BY <2>1
<1> HIDE DEF F
<1> QED BY <1>4, <1>5 DEF Solves

-----------------------------------------------------------------------------
(***************************************************************************)
(* Division and powers of 2                                                *)
(***************************************************************************)

\* Quotient and remainder.
LEMMA DivMod ==
  ASSUME NEW d \in Nat \ {0}, NEW a \in Nat
  PROVE  a \div d \in Nat /\ a % d \in 0..(d - 1) /\ a = d * (a \div d) + (a % d)
OBVIOUS

\* A product grows by a whole factor with the other one.
LEMMA MulMono ==
  ASSUME NEW d \in Nat, NEW a \in Int, NEW b \in Int, a < b
  PROVE  d * a + d <= d * b
<1>1. d * (b - a - 1) >= 0
  OBVIOUS
<1>2. d * (b - a - 1) = d * b - d * a - d
  OBVIOUS
<1> QED BY <1>1, <1>2

\* A quotient and a remainder that give a number are the ones of the division.
LEMMA DivUnique ==
  ASSUME NEW d \in Nat \ {0}, NEW q \in Nat, NEW r \in 0..(d - 1), NEW a \in Nat,
         a = d * q + r
  PROVE  a \div d = q /\ a % d = r
<1> DEFINE p == a \div d
           s == a % d
<1>1. p \in Nat /\ s \in 0..(d - 1) /\ a = d * p + s
  BY DivMod
<1> HIDE DEF p, s
<1>2. ~(p < q)
  <2>1. p < q => d * p + d <= d * q
    BY <1>1, MulMono
  <2>2. d * p \in Nat /\ d * q \in Nat
    BY <1>1
  <2> QED BY <1>1, <2>1, <2>2
<1>3. ~(q < p)
  <2>1. q < p => d * q + d <= d * p
    BY <1>1, MulMono
  <2>2. d * p \in Nat /\ d * q \in Nat
    BY <1>1
  <2> QED BY <1>1, <2>1, <2>2
<1>4. p = q
  BY <1>1, <1>2, <1>3
<1>5. s = r
  <2>1. d * p = d * q /\ d * q \in Nat
    BY <1>4
  <2> QED BY <1>1, <2>1
<1> QED BY <1>4, <1>5 DEF p, s

\* What a number divides without a remainder.
LEMMA DivExact ==
  ASSUME NEW d \in Nat \ {0}, NEW q \in Nat, NEW a \in Nat, a = d * q
  PROVE  a \div d = q /\ a % d = 0
<1> DEFINE p == a \div d
           s == a % d
<1>1. p \in Nat /\ s \in 0..(d - 1) /\ a = d * p + s
  BY DivMod
<1> HIDE DEF p, s
<1>2. d * p \in Nat /\ d * q \in Nat
  BY <1>1
<1>3. (p < q => d * p + d <= d * q) /\ (q < p => d * q + d <= d * p)
  BY <1>1, MulMono
<1>4. p = q
  BY <1>1, <1>2, <1>3
<1>5. d * p = d * q
  BY <1>4
<1> QED BY <1>1, <1>2, <1>4, <1>5 DEF p, s

\* The recursive definition of Pow2 defines a function.
LEMMA Pow2Def ==
  /\ Pow2 \in [Nat -> Nat]
  /\ \A n \in Nat : Pow2[n] = IF n = 0 THEN 1 ELSE 2 * Pow2[n - 1]
<1> DEFINE more == Nat \ {0}
           rank == [n \in Nat |-> n]
           next == [n \in more |-> n - 1]
           base == [n \in Nat |-> 1]
           comb == [n \in Nat |-> [x \in Nat |-> 2 * x]]
<1>1. /\ rank \in [Nat -> Nat] /\ more \in SUBSET Nat /\ next \in [more -> Nat]
      /\ base \in [Nat -> Nat] /\ comb \in [Nat -> [Nat -> Nat]]
      /\ \A d \in more : rank[next[d]] < rank[d]
  OBVIOUS
<1> HIDE DEF more, rank, next, base, comb
<1>2. PICK f \in [Nat -> Nat] : Solves(f, Nat, more, next, base, comb)
  BY <1>1, Recursion
<1>3. ASSUME NEW n \in Nat PROVE f[n] = IF n = 0 THEN 1 ELSE 2 * f[n - 1]
  <2>1. f[n] = IF n \in more THEN comb[n][f[next[n]]] ELSE base[n]
    BY <1>2 DEF Solves
  <2>2. n # 0 => n \in more /\ next[n] = n - 1 /\ f[n - 1] \in Nat
    BY DEF next, more
  <2>3. base[n] = 1 /\ \A x \in Nat : comb[n][x] = 2 * x
    BY DEF base, comb
  <2>4. n = 0 => n \notin more
    BY DEF more
  <2> QED BY <2>1, <2>2, <2>3, <2>4
<1>4. f = [n \in Nat |-> IF n = 0 THEN 1 ELSE 2 * f[n - 1]]
  BY <1>3
<1>5. Pow2 = [n \in Nat |-> IF n = 0 THEN 1 ELSE 2 * Pow2[n - 1]]
  BY <1>4 DEF Pow2
<1>6. \A n \in Nat : Pow2[n] = IF n = 0 THEN 1 ELSE 2 * Pow2[n - 1]
  BY <1>5
<1>7. Pow2 = f
  <2> DEFINE T == {n \in Nat : Pow2[n] = f[n]}
  <2>1. ASSUME NEW n \in Nat, \A m \in Nat : m < n => m \in T PROVE n \in T
    <3>1. CASE n = 0
       BY <3>1, <1>6, <1>3
    <3>2. CASE n # 0
       <4>1. n - 1 \in T
         BY <2>1, <3>2
       <4> QED BY <3>2, <4>1, <1>6, <1>3
    <3> QED BY <3>1, <3>2
  <2>2. T = Nat
    <3>1. T \in SUBSET Nat
      OBVIOUS
    <3> HIDE DEF T
    <3> QED BY <2>1, <3>1, StrongInduction
  <2>3. \A n \in Nat : Pow2[n] = f[n]
    BY <2>2
  <2>4. DOMAIN Pow2 = Nat /\ Pow2 = [n \in Nat |-> Pow2[n]]
    BY <1>5
  <2> QED BY <2>3, <2>4
<1> QED BY <1>6, <1>7

\* A power of two is positive.
LEMMA Pow2Positive == \A n \in Nat : Pow2[n] \in Nat \ {0}
<1> DEFINE T == {n \in Nat : Pow2[n] > 0}
<1>1. ASSUME NEW n \in Nat, \A m \in Nat : m < n => m \in T PROVE n \in T
  <2>1. CASE n = 0
    BY <2>1, Pow2Def
  <2>2. CASE n # 0
    <3>1. n - 1 \in T
      BY <1>1, <2>2
    <3> QED BY <2>2, <3>1, Pow2Def
  <2> QED BY <2>1, <2>2
<1>2. T = Nat
  <2>1. T \in SUBSET Nat
    OBVIOUS
  <2> HIDE DEF T
  <2> QED BY <1>1, <2>1, StrongInduction
<1> QED BY <1>2, Pow2Def

\* The product of two powers adds the exponents.
LEMMA Pow2Sum ==
  ASSUME NEW m \in Nat
  PROVE  \A n \in Nat : Pow2[m + n] = Pow2[m] * Pow2[n]
<1> DEFINE T == {n \in Nat : Pow2[m + n] = Pow2[m] * Pow2[n]}
<1>1. ASSUME NEW n \in Nat, \A k \in Nat : k < n => k \in T PROVE n \in T
  <2>1. CASE n = 0
    BY <2>1, Pow2Def
  <2>2. CASE n # 0
    <3>1. n - 1 \in T
      BY <1>1, <2>2
    <3>2. Pow2[m + (n - 1)] = Pow2[m] * Pow2[n - 1]
      BY <3>1
    <3>3. m + n - 1 = m + (n - 1) /\ m + n \in Nat /\ m + n # 0
      BY <2>2
    <3>4. Pow2[m + n] = 2 * Pow2[m + n - 1] /\ Pow2[n] = 2 * Pow2[n - 1]
      BY <2>2, <3>3, Pow2Def
    <3>5. Pow2[m] \in Nat /\ Pow2[n - 1] \in Nat
      BY <2>2, Pow2Def
    <3>6. Pow2[m] * Pow2[n] = 2 * (Pow2[m] * Pow2[n - 1])
      BY <3>4, <3>5
    <3> QED BY <3>2, <3>3, <3>4, <3>6
  <2> QED BY <2>1, <2>2
<1>2. T = Nat
  <2>1. T \in SUBSET Nat
    OBVIOUS
  <2> HIDE DEF T
  <2> QED BY <1>1, <2>1, StrongInduction
<1> QED BY <1>2

\* A larger exponent makes no smaller power.
LEMMA Pow2Mono ==
  ASSUME NEW m \in Nat, NEW n \in Nat, m <= n
  PROVE  Pow2[m] <= Pow2[n]
<1>1. n - m \in Nat /\ n = m + (n - m)
  OBVIOUS
<1>2. Pow2[n] = Pow2[m] * Pow2[n - m]
  BY <1>1, Pow2Sum
<1>3. Pow2[m] \in Nat \ {0} /\ Pow2[n - m] \in Nat \ {0}
  BY <1>1, Pow2Positive
<1> QED BY <1>2, <1>3

-----------------------------------------------------------------------------
(***************************************************************************)
(* The recursive functions of ByteCodec and ByteArray satisfy their        *)
(* definitions.                                                            *)
(***************************************************************************)

\* A byte has the bits of a group and one more.
LEMMA MoreFacts ==
  /\ Group \in Nat \ {0} /\ More \in Nat /\ More >= 2 /\ Pow2[ByteBits] = 2 * More
  /\ Byte = 0..(2 * More - 1)
<1>1. Group \in Nat \ {0} /\ ByteBits \in Nat /\ ByteBits # 0 /\ ByteBits - 1 = Group
  BY CodecConstants DEF Group
<1>2. Pow2[ByteBits] = 2 * Pow2[Group]
  BY <1>1, Pow2Def
<1>3. Pow2[1] = 2
  <2>1. Pow2[1] = 2 * Pow2[0] /\ Pow2[0] = 1
    BY Pow2Def
  <2> QED BY <2>1
<1>4. Pow2[1] <= Pow2[Group] /\ Pow2[Group] \in Nat
  BY <1>1, Pow2Mono, Pow2Def
<1> QED BY <1>1, <1>2, <1>3, <1>4 DEF More, Byte

\* Without its lowest group a number that has more is smaller: the loop of writeUint32
\* ends.
LEMMA DivSmaller ==
  ASSUME NEW v \in Nat, v >= More
  PROVE  v \div More \in Nat /\ v \div More < v
<1>1. More \in Nat \ {0} /\ More >= 2
  BY MoreFacts
<1>2. v \div More \in Nat /\ v % More \in 0..(More - 1) /\ v = More * (v \div More) + (v % More)
  BY <1>1, DivMod
<1> DEFINE q == v \div More
<1> HIDE DEF q
<1>3. q \in Nat /\ v >= More * q
  <2>1. More * q \in Nat
    BY <1>1, <1>2 DEF q
  <2> QED BY <1>1, <1>2, <2>1 DEF q
<1>4. More * q >= 2 * q
  BY <1>1, <1>3
<1>5. q # 0 => q < v
  <2>1. More * q \in Nat
    BY <1>1, <1>3
  <2> QED BY <1>3, <1>4, <2>1
<1>6. q = 0 => q < v
  BY <1>1
<1> QED BY <1>2, <1>5, <1>6 DEF q

\* The recursive definition of Varint defines a function.
LEMMA VarintDef ==
  \A v \in Nat : Varint[v] = IF v >= More THEN <<(v % More) + More>> \o Varint[v \div More]
                             ELSE <<v>>
<1> DEFINE more == {v \in Nat : v >= More}
           rank == [v \in Nat |-> v]
           next == [v \in more |-> v \div More]
           base == [v \in Nat |-> <<v>>]
           comb == [v \in Nat |-> [x \in Seq(Nat) |-> <<(v % More) + More>> \o x]]
<1>0. More \in Nat \ {0}
  BY MoreFacts
<1>1. rank \in [Nat -> Nat] /\ more \in SUBSET Nat
  OBVIOUS
<1>2. next \in [more -> Nat] /\ \A d \in more : rank[next[d]] < rank[d]
  BY DivSmaller
<1>3. base \in [Nat -> Seq(Nat)]
  OBVIOUS
<1>4. comb \in [Nat -> [Seq(Nat) -> Seq(Nat)]]
  <2>1. \A v \in Nat : <<(v % More) + More>> \in Seq(Nat)
    BY <1>0, DivMod
  <2> QED BY <2>1
<1> HIDE DEF more, rank, next, base, comb
<1>5. PICK f \in [Nat -> Seq(Nat)] : Solves(f, Nat, more, next, base, comb)
  BY <1>1, <1>2, <1>3, <1>4, Recursion
<1>6. ASSUME NEW v \in Nat
      PROVE  f[v] = IF v >= More THEN <<(v % More) + More>> \o f[v \div More] ELSE <<v>>
  <2>1. f[v] = IF v \in more THEN comb[v][f[next[v]]] ELSE base[v]
    BY <1>5 DEF Solves
  <2>2. v \in more <=> v >= More
    BY DEF more
  <2>3. v >= More => next[v] = v \div More /\ f[v \div More] \in Seq(Nat)
    BY <2>2, DivSmaller DEF next
  <2>4. base[v] = <<v>> /\ \A x \in Seq(Nat) : comb[v][x] = <<(v % More) + More>> \o x
    BY DEF base, comb
  <2> QED BY <2>1, <2>2, <2>3, <2>4
<1>7. f = [v \in Nat |-> IF v >= More THEN <<(v % More) + More>> \o f[v \div More] ELSE <<v>>]
  BY <1>6
<1>8. Varint = [v \in Nat |-> IF v >= More THEN <<(v % More) + More>> \o Varint[v \div More]
                              ELSE <<v>>]
  BY <1>7 DEF Varint
<1> QED BY <1>8

\* A Varint is at least one byte.
LEMMA VarintType == \A v \in Nat : Varint[v] \in Seq(Byte) /\ Len(Varint[v]) >= 1
<1> DEFINE T == {v \in Nat : Varint[v] \in Seq(Byte) /\ Len(Varint[v]) >= 1}
<1>1. ASSUME NEW v \in Nat, \A m \in Nat : m < v => m \in T PROVE v \in T
  <2>1. CASE v >= More
    <3>1. v \div More \in T
      BY <1>1, <2>1, DivSmaller
    <3>2. (v % More) + More \in Byte
      <4>1. More \in Nat \ {0}
        BY MoreFacts
      <4>2. v % More \in 0..(More - 1)
        BY <4>1, DivMod
      <4> QED BY <4>1, <4>2, MoreFacts
    <3>3. Varint[v] = <<(v % More) + More>> \o Varint[v \div More]
      BY <2>1, VarintDef
    <3>4. <<(v % More) + More>> \in Seq(Byte) /\ Len(<<(v % More) + More>>) = 1
      BY <3>2
    <3>5. Varint[v \div More] \in Seq(Byte) /\ Len(Varint[v \div More]) \in Nat
      BY <3>1
    <3> DEFINE x == <<(v % More) + More>>
               y == Varint[v \div More]
    <3> HIDE DEF x, y
    <3>6. x \o y \in Seq(Byte) /\ Len(x \o y) = 1 + Len(y) /\ Len(y) \in Nat
      BY <3>4, <3>5, ConcatProperties DEF x, y
    <3>7. Varint[v] \in Seq(Byte) /\ Len(Varint[v]) >= 1
      BY <3>1, <3>3, <3>6 DEF x, y
    <3> QED BY <3>7
  <2>2. CASE ~(v >= More)
    <3>1. v \in Byte
      BY <2>2, MoreFacts
    <3>2. Varint[v] = <<v>>
      BY <2>2, VarintDef
    <3>3. <<v>> \in Seq(Byte) /\ Len(<<v>>) = 1
      BY <3>1
    <3> DEFINE x == <<v>>
    <3> HIDE DEF x
    <3>4. Varint[v] = x /\ x \in Seq(Byte) /\ Len(x) = 1
      BY <3>2, <3>3 DEF x
    <3> QED BY <3>4
  <2> QED BY <2>1, <2>2
<1>2. T = Nat
  <2>1. T \in SUBSET Nat
    OBVIOUS
  <2> HIDE DEF T
  <2> QED BY <1>1, <2>1, StrongInduction
<1> QED BY <1>2

\* A node has room for a byte.
LEMMA BaseFacts == Base \in Nat \ {0}
BY ArrayConstants

\* A position is an index of a node.
LEMMA InBase ==
  ASSUME NEW x \in Nat
  PROVE  /\ x \div Base \in Nat /\ x % Base \in 0..(Base - 1)
         /\ x = Base * (x \div Base) + (x % Base)
         /\ x < Base => x \div Base = 0 /\ x % Base = x
         /\ (Base + x) \div Base = x \div Base + 1 /\ (Base + x) % Base = x % Base
<1>1. x \div Base \in Nat /\ x % Base \in 0..(Base - 1) /\ x = Base * (x \div Base) + (x % Base)
  BY BaseFacts, DivMod
<1>2. ASSUME x < Base PROVE x \div Base = 0 /\ x % Base = x
  <2>1. x \in 0..(Base - 1) /\ x = Base * 0 + x
    BY <1>2, BaseFacts
  <2> QED BY <2>1, BaseFacts, DivUnique
<1>3. (Base + x) \div Base = x \div Base + 1 /\ (Base + x) % Base = x % Base
  <2> DEFINE q == x \div Base
             r == x % Base
  <2>1. q \in Nat /\ r \in 0..(Base - 1) /\ x = Base * q + r
    BY <1>1
  <2> HIDE DEF q, r
  <2>2. Base + x \in Nat /\ q + 1 \in Nat /\ Base + x = Base * (q + 1) + r
    BY <2>1, BaseFacts
  <2>3. (Base + x) \div Base = q + 1 /\ (Base + x) % Base = r
    BY <2>1, <2>2, BaseFacts, DivUnique
  <2> QED BY <2>3 DEF q, r
<1> QED BY <1>1, <1>2, <1>3

Loops == Nat \X Nat \X Nat

\* The cells of a node are a sequence of as many as asked for.
LEMMA InNodeType ==
  ASSUME NEW m \in Int, NEW k \in Nat, NEW o \in Nat
  PROVE  /\ InNode(m, k, o) \in Seq(Nat \X Nat)
         /\ Len(InNode(m, k, o)) = IF m \in Nat THEN m ELSE 0
<1>1. CASE m \in Nat
  <2>1. \A j \in 1..m : <<k, o + j - 1>> \in Nat \X Nat
    OBVIOUS
  <2>2. InNode(m, k, o) \in [1..m -> Nat \X Nat]
    BY <2>1 DEF InNode
  <2> HIDE DEF InNode
  <2> QED BY <1>1, <2>2, IsASeq, LenProperties
<1>2. CASE m \notin Nat
  <2>1. 1..m = 1..0
    BY <1>2
  <2>2. InNode(m, k, o) = [j \in 1..0 |-> <<k, o + j - 1>>]
    BY <2>1 DEF InNode
  <2>3. InNode(m, k, o) \in [1..0 -> Nat \X Nat]
    BY <2>2
  <2> HIDE DEF InNode
  <2> QED BY <1>2, <2>3, IsASeq, LenProperties
<1> QED BY <1>1, <1>2

\* The recursive definition of Cells defines a function.
LEMMA CellsDef ==
  ASSUME NEW n \in Nat, NEW node \in Nat, NEW off \in Nat
  PROVE  Cells[<<n, node, off>>] =
           IF Base - off >= n THEN InNode(n, node, off)
           ELSE InNode(Base - off, node, off) \o Cells[<<n - (Base - off), node + 1, 0>>]
<1> DEFINE Rest(d) == <<d[1] - (Base - d[3]), d[2] + 1, 0>>
           S == Seq(Nat \X Nat)
           more == {d \in Loops : ~(Base - d[3] >= d[1])}
           rank == [d \in Loops |-> d[1] + d[3]]
           next == [d \in more |-> Rest(d)]
           base == [d \in Loops |-> InNode(d[1], d[2], d[3])]
           comb == [d \in Loops |-> [x \in S |-> InNode(Base - d[3], d[2], d[3]) \o x]]
<1>1. \A d \in Loops : d[1] \in Nat /\ d[2] \in Nat /\ d[3] \in Nat
  BY DEF Loops
<1>2. rank \in [Loops -> Nat] /\ more \in SUBSET Loops
  BY <1>1
<1>3. \A d \in more : Rest(d) \in Loops /\ Rest(d)[1] + Rest(d)[3] < d[1] + d[3]
  <2>1. SUFFICES ASSUME NEW a \in Nat, NEW b \in Nat, NEW c \in Nat, ~(Base - c >= a)
                 PROVE  /\ a - (Base - c) \in Nat /\ b + 1 \in Nat
                        /\ a - (Base - c) + 0 < a + c
    BY <1>1 DEF Loops
  <2> QED BY <2>1, BaseFacts
<1>4. next \in [more -> Loops] /\ \A d \in more : rank[next[d]] < rank[d]
  <2> HIDE DEF Rest, more
  <2>1. next \in [more -> Loops] /\ \A d \in more : next[d] = Rest(d) /\ d \in Loops
    BY <1>2, <1>3
  <2> QED BY <1>3, <2>1
<1>5. \A m \in Int, k \in Nat, o \in Nat : InNode(m, k, o) \in S
  BY InNodeType
<1>6. base \in [Loops -> S]
  <2> HIDE DEF S
  <2> QED BY <1>1, <1>5
<1>7. comb \in [Loops -> [S -> S]]
  <2>1. ASSUME NEW d \in Loops, NEW x \in S PROVE InNode(Base - d[3], d[2], d[3]) \o x \in S
    <3>1. Base - d[3] \in Int /\ d[2] \in Nat /\ d[3] \in Nat
      BY <1>1, BaseFacts
    <3> HIDE DEF S
    <3>2. InNode(Base - d[3], d[2], d[3]) \in S
      BY <1>5, <3>1
    <3> USE DEF S
    <3> QED BY <3>2, ConcatProperties
  <2> HIDE DEF S
  <2> QED BY <2>1
<1> HIDE DEF S, more, rank, next, base, comb
<1>8. PICK f \in [Loops -> S] : Solves(f, Loops, more, next, base, comb)
  BY <1>2, <1>4, <1>6, <1>7, Recursion
<1>9. ASSUME NEW d \in Loops
      PROVE  f[d] = IF Base - d[3] >= d[1] THEN InNode(d[1], d[2], d[3])
                    ELSE InNode(Base - d[3], d[2], d[3]) \o f[Rest(d)]
  <2> HIDE DEF Rest
  <2>1. f[d] = IF d \in more THEN comb[d][f[next[d]]] ELSE base[d]
    BY <1>8 DEF Solves
  <2>2. d \in more <=> ~(Base - d[3] >= d[1])
    BY DEF more
  <2>3. d \in more => next[d] = Rest(d) /\ f[Rest(d)] \in S
    BY <1>3 DEF next
  <2>4. base[d] = InNode(d[1], d[2], d[3])
    BY DEF base
  <2>5. \A x \in S : comb[d][x] = InNode(Base - d[3], d[2], d[3]) \o x
    BY DEF comb
  <2> QED BY <2>1, <2>2, <2>3, <2>4, <2>5
<1>10. f = [d \in Loops |-> IF Base - d[3] >= d[1] THEN InNode(d[1], d[2], d[3])
                            ELSE InNode(Base - d[3], d[2], d[3]) \o f[Rest(d)]]
  <2> HIDE DEF Rest
  <2> QED BY <1>9
<1>11. Cells = [d \in Loops |-> IF Base - d[3] >= d[1] THEN InNode(d[1], d[2], d[3])
                                ELSE InNode(Base - d[3], d[2], d[3]) \o Cells[Rest(d)]]
  BY <1>10 DEF Cells, Loops
<1>12. <<n, node, off>> \in Loops
  BY DEF Loops
<1> QED BY <1>11, <1>12

\* The k-th of the bytes that a loop finds from index off of a node on
Cell(node, off, k) == <<node + ((off + k - 1) \div Base), (off + k - 1) % Base>>

\* The loop of getReadBuffers, getWriteBuffers and read goes over all of them.
LEMMA CellsAre ==
  \A n \in Nat : \A node \in Nat, off \in 0..(Base - 1) :
    Cells[<<n, node, off>>] = [k \in 1..n |-> Cell(node, off, k)]
<1> DEFINE P(n, node, off) == Cells[<<n, node, off>>] = [k \in 1..n |-> Cell(node, off, k)]
           T == {n \in Nat : \A node \in Nat, off \in 0..(Base - 1) : P(n, node, off)}
<1>1. ASSUME NEW node \in Nat, NEW off \in 0..(Base - 1), NEW n \in Nat, n <= Base - off
      PROVE  InNode(n, node, off) = [k \in 1..n |-> Cell(node, off, k)]
  <2>1. ASSUME NEW k \in 1..n PROVE <<node, off + k - 1>> = Cell(node, off, k)
    <3>1. off + k - 1 \in Nat /\ off + k - 1 < Base
      BY <1>1, BaseFacts
    <3>2. (off + k - 1) \div Base = 0 /\ (off + k - 1) % Base = off + k - 1
      BY <3>1, InBase
    <3> QED BY <3>2 DEF Cell
  <2> QED BY <2>1 DEF InNode
<1>2. ASSUME NEW n \in Nat, \A m \in Nat : m < n => m \in T PROVE n \in T
  <2>1. SUFFICES ASSUME NEW node \in Nat, NEW off \in 0..(Base - 1) PROVE P(n, node, off)
    OBVIOUS
  <2>2. CASE Base - off >= n
    <3>1. Cells[<<n, node, off>>] = InNode(n, node, off)
      <4>1. off \in Nat
        OBVIOUS
      <4> QED BY <2>2, <4>1, CellsDef
    <3> QED BY <1>1, <2>2, <3>1, BaseFacts
  <2>3. CASE ~(Base - off >= n)
    <3> DEFINE ncap == Base - off
               x == InNode(ncap, node, off)
               y == Cells[<<n - ncap, node + 1, 0>>]
    <3>1. ncap \in Nat \ {0} /\ n - ncap \in Nat /\ n - ncap < n /\ 0 \in 0..(Base - 1)
      BY <2>3, BaseFacts
    <3>2. Cells[<<n, node, off>>] = x \o y
      <4>1. off \in Nat
        OBVIOUS
      <4> QED BY <2>3, <4>1, CellsDef
    <3>3. x = [k \in 1..ncap |-> Cell(node, off, k)]
      <4>1. ncap \in Nat /\ ncap <= Base - off
        BY <3>1
      <4> QED BY <1>1, <4>1
    <3>4. y = [k \in 1..(n - ncap) |-> Cell(node + 1, 0, k)]
      BY <1>2, <3>1
    <3> HIDE DEF x, y
    <3>5. ASSUME NEW k \in 1..(n - ncap) PROVE Cell(node + 1, 0, k) = Cell(node, off, ncap + k)
      <4>1. k - 1 \in Nat /\ 0 + k - 1 = k - 1 /\ off + (ncap + k) - 1 = Base + (k - 1)
        BY <3>1, BaseFacts
      <4>2. (Base + (k - 1)) \div Base = (k - 1) \div Base + 1
            /\ (Base + (k - 1)) % Base = (k - 1) % Base /\ (k - 1) \div Base \in Nat
        BY <4>1, InBase
      <4> QED BY <4>1, <4>2 DEF Cell
    <3>6. x \in Seq({Cell(node, off, k) : k \in Nat}) /\ Len(x) = ncap
      <4>1. x \in [1..ncap -> {Cell(node, off, k) : k \in Nat}]
        BY <3>1, <3>3
      <4> QED BY <3>1, <4>1, IsASeq, LenProperties
    <3>7. y \in Seq({Cell(node, off, k) : k \in Nat}) /\ Len(y) = n - ncap
      <4>1. y \in [1..(n - ncap) -> {Cell(node, off, k) : k \in Nat}]
        BY <3>1, <3>4, <3>5
      <4> QED BY <3>1, <4>1, IsASeq, LenProperties
    <3>8. x \o y \in [1..n -> {Cell(node, off, k) : k \in Nat}]
      <4> DEFINE S == {Cell(node, off, k) : k \in Nat}
      <4> HIDE DEF S
      <4>1. x \in Seq(S) /\ y \in Seq(S)
        BY <3>6, <3>7 DEF S
      <4>2. x \o y \in Seq(S) /\ Len(x \o y) = Len(x) + Len(y)
        BY <4>1, ConcatProperties
      <4>3. Len(x \o y) = n
        BY <3>1, <3>6, <3>7, <4>2
      <4>4. x \o y \in [1..n -> S]
        BY <4>2, <4>3, LenProperties
      <4> QED BY <4>4 DEF S
    <3>9. ASSUME NEW k \in 1..n PROVE (x \o y)[k] = Cell(node, off, k)
      <4>0. (x \o y)[k] = IF k <= ncap THEN x[k] ELSE y[k - ncap]
        <5> DEFINE S == {Cell(node, off, j) : j \in Nat}
        <5>1. x \in Seq(S) /\ y \in Seq(S) /\ Len(x) = ncap /\ Len(y) = n - ncap
          BY <3>6, <3>7
        <5> HIDE DEF S
        <5>2. \A i \in 1..(Len(x) + Len(y)) :
                (x \o y)[i] = IF i <= Len(x) THEN x[i] ELSE y[i - Len(x)]
          BY <5>1, ConcatProperties
        <5>3. k \in 1..(ncap + (n - ncap))
          BY <3>1
        <5> HIDE DEF ncap
        <5> QED BY <5>1, <5>2, <5>3
      <4>1. CASE k <= ncap
        <5>1. k \in 1..ncap
          BY <3>1, <4>1
        <5> QED BY <3>3, <4>0, <4>1, <5>1
      <4>2. CASE k > ncap
        <5>1. k - ncap \in 1..(n - ncap) /\ ncap + (k - ncap) = k
          BY <3>1, <4>2
        <5>2. (x \o y)[k] = y[k - ncap]
          BY <3>1, <4>0, <4>2
        <5>3. y[k - ncap] = Cell(node + 1, 0, k - ncap)
          BY <3>4, <5>1
        <5>4. Cell(node + 1, 0, k - ncap) = Cell(node, off, ncap + (k - ncap))
          BY <3>5, <5>1
        <5> QED BY <5>1, <5>2, <5>3, <5>4
      <4>3. k <= ncap \/ k > ncap
        BY <3>1
      <4> QED BY <4>1, <4>2, <4>3
    <3>10. x \o y = [k \in 1..n |-> (x \o y)[k]]
      BY <3>8
    <3> QED BY <3>2, <3>9, <3>10
  <2> QED BY <2>2, <2>3, BaseFacts
<1>3. T = Nat
  <2>1. T \in SUBSET Nat
    OBVIOUS
  <2> HIDE DEF T
  <2> QED BY <1>2, <2>1, StrongInduction
<1> QED BY <1>3

-----------------------------------------------------------------------------
(***************************************************************************)
(* The array as its user sees it                                           *)
(***************************************************************************)

Node == [0..(Base - 1) -> Byte]

\* The byte at a position
ByteAt(list, p) == list[(p \div Base) + 1][p % Base]

\* A position within the capacity has a node.
LEMMA NodeIndex ==
  ASSUME NEW n \in Nat, NEW p \in Nat, p < Base * n
  PROVE  (p \div Base) + 1 \in 1..n
<1> DEFINE q == p \div Base
<1>1. q \in Nat /\ p >= Base * q
  <2>1. q \in Nat /\ p % Base \in 0..(Base - 1) /\ p = Base * q + (p % Base)
    BY InBase
  <2> HIDE DEF q
  <2>2. Base * q \in Nat
    BY <2>1, BaseFacts
  <2> QED BY <2>1, <2>2
<1> HIDE DEF q
<1>2. ~(q >= n)
  <2>1. SUFFICES ASSUME q >= n PROVE FALSE
    OBVIOUS
  <2>2. q = n \/ Base * n + Base <= Base * q
    BY <1>1, <2>1, MulMono, BaseFacts
  <2>3. Base * n \in Nat /\ Base * q \in Nat
    BY <1>1, BaseFacts
  <2> QED BY <1>1, <2>2, <2>3, BaseFacts
<1> QED BY <1>1, <1>2 DEF q

\* A position within the capacity has a byte.
LEMMA ByteAtType ==
  ASSUME NEW list \in Seq(Node), NEW p \in Nat, p < Base * Len(list)
  PROVE  /\ (p \div Base) + 1 \in 1..Len(list) /\ p % Base \in 0..(Base - 1)
         /\ ByteAt(list, p) \in Byte
<1>1. (p \div Base) + 1 \in 1..Len(list)
  BY NodeIndex
<1>2. p % Base \in 0..(Base - 1)
  BY InBase
<1>3. list[(p \div Base) + 1] \in Node
  BY <1>1
<1> QED BY <1>1, <1>2, <1>3 DEF ByteAt, Node

\* The first bytes of a list, one after the other.
LEMMA FlatPrefix ==
  ASSUME NEW list \in Seq(Node), NEW m \in Nat, m <= Base * Len(list)
  PROVE  SubSeq([i \in 1..(Base * Len(list)) |-> ByteAt(list, i - 1)], 1, m)
           = [i \in 1..m |-> ByteAt(list, i - 1)]
<1> DEFINE n == Base * Len(list)
           f == [i \in 1..n |-> ByteAt(list, i - 1)]
<1>1. n \in Nat
  BY BaseFacts
<1>2. f \in Seq(Byte) /\ Len(f) = n
  <2>1. \A i \in 1..n : ByteAt(list, i - 1) \in Byte
    <3>1. \A i \in 1..n : i - 1 \in Nat /\ i - 1 < n
      BY <1>1
    <3> QED BY <3>1, ByteAtType
  <2>2. f \in [1..n -> Byte]
    BY <2>1
  <2> HIDE DEF f, n
  <2> QED BY <1>1, <2>2, IsASeq, LenProperties
<1> HIDE DEF n
<1>3. \A i \in 1..m : f[i] = ByteAt(list, i - 1)
  BY <1>1 DEF n
<1> HIDE DEF f
<1>4. SubSeq(f, 1, m) = [i \in 1..m |-> f[i]]
  <2>1. 1 \in 1..(Len(f) + 1) /\ m \in 0..Len(f)
    BY <1>1, <1>2 DEF n
  <2>2. SubSeq(f, 1, m) \in Seq(Byte) /\ Len(SubSeq(f, 1, m)) = m
        /\ \A i \in 1..m : SubSeq(f, 1, m)[i] = f[i]
    BY <1>2, <2>1, SubSeqProperties
  <2> QED BY <2>2, LenProperties
<1>5. [i \in 1..m |-> f[i]] = [i \in 1..m |-> ByteAt(list, i - 1)]
  BY <1>3
<1> QED BY <1>4, <1>5 DEF f, n

\* The n elements of a sequence after the first a.
LEMMA SubSeqIs ==
  ASSUME NEW S, NEW s \in Seq(S), NEW a \in Nat, NEW n \in Nat, a + n <= Len(s)
  PROVE  /\ SubSeq(s, a + 1, a + n) \in Seq(S) /\ Len(SubSeq(s, a + 1, a + n)) = n
         /\ SubSeq(s, a + 1, a + n) = [k \in 1..n |-> s[a + k]]
<1> DEFINE q == SubSeq(s, a + 1, a + n)
<1>1. q = [k \in 1..n |-> s[a + k]]
  OBVIOUS
<1> HIDE DEF q
<1>2. q \in [1..n -> S]
  BY <1>1
<1>3. q \in Seq(S) /\ Len(q) = n
  BY <1>2, IsASeq, LenProperties
<1> QED BY <1>1, <1>3 DEF q

\* What Larger returns.
LEMMA LargerFacts ==
  ASSUME NEW a \in Nat, NEW b \in Nat
  PROVE  Larger(a, b) \in Nat /\ Larger(a, b) >= a /\ Larger(a, b) >= b /\ Larger(a, b) \in {a, b}
BY DEF Larger

\* The content, byte by byte.
LEMMA ContentIs ==
  CursorExact => /\ Content = [i \in 1..Larger(m_size, m_position) |-> ByteAt(nodes, i - 1)]
                 /\ Len(Content) = Larger(m_size, m_position) /\ Content \in Seq(Byte)
                 /\ \A i \in 1..Larger(m_size, m_position) : Content[i] = ByteAt(nodes, i - 1)
<1> SUFFICES ASSUME CursorExact
             PROVE  /\ Content = [i \in 1..Larger(m_size, m_position) |-> ByteAt(nodes, i - 1)]
                    /\ Len(Content) = Larger(m_size, m_position) /\ Content \in Seq(Byte)
                    /\ \A i \in 1..Larger(m_size, m_position) : Content[i] = ByteAt(nodes, i - 1)
  OBVIOUS
<1> DEFINE m == Larger(m_size, m_position)
<1>1. nodes \in Seq(Node) /\ m \in Nat /\ m <= Base * Len(nodes)
  BY LargerFacts DEF CursorExact, TypeOK, Node
<1>2. Flat = [i \in 1..(Base * Len(nodes)) |-> ByteAt(nodes, i - 1)]
  BY DEF Flat, ByteAt
<1>3. Content = [i \in 1..m |-> ByteAt(nodes, i - 1)]
  <2> HIDE DEF m
  <2>1. Content = SubSeq(Flat, 1, m)
    BY DEF Content, m
  <2> QED BY <1>1, <1>2, <2>1, FlatPrefix
<1>4. \A i \in 1..m : ByteAt(nodes, i - 1) \in Byte
  <2>1. \A i \in 1..m : i - 1 \in Nat /\ i - 1 < Base * Len(nodes)
    BY <1>1, BaseFacts
  <2> QED BY <1>1, <2>1, ByteAtType
<1> HIDE DEF m
<1>5. Content \in [1..m -> Byte] /\ \A i \in 1..m : Content[i] = ByteAt(nodes, i - 1)
  BY <1>3, <1>4
<1>6. Content \in Seq(Byte) /\ Len(Content) = m
  BY <1>1, <1>5, IsASeq, LenProperties
<1> QED BY <1>3, <1>5, <1>6 DEF m

\* The number of bytes of the user's sequence, and the i-th of them
SizeOf(size, p, b) == Larger(Larger(size, p), p + Len(b))
Ith(list, p, b, i) == IF i > p /\ i <= p + Len(b) THEN b[i - p] ELSE ByteAt(list, i - 1)

SeenExact ==
  /\ Bytes \in Seq(Byte) /\ Len(Bytes) = SizeOf(m_size, m_position, buf)
  /\ Bytes = [i \in 1..SizeOf(m_size, m_position, buf) |-> Ith(nodes, m_position, buf, i)]
  /\ Pos = m_position + Len(buf) + left /\ Pos \in Nat /\ Pos <= Len(Bytes)
  /\ Out = got \o [k \in 1..left |-> ByteAt(nodes, m_position + k - 1)]
  /\ Out \in Seq(Byte) /\ Len(Out) = Len(got) + left

\* The sequence that the user sees follows from the members and the locals.
LEMMA SeenIs == CursorExact /\ Locals => SeenExact
<1> SUFFICES ASSUME CursorExact, Locals PROVE SeenExact
  OBVIOUS
<1> DEFINE m == Larger(m_size, m_position)
           n == SizeOf(m_size, m_position, buf)
<1>1. /\ nodes \in Seq(Node) /\ m_position \in Nat /\ m_size \in Nat /\ left \in Nat
      /\ buf \in Seq(Byte) /\ got \in Seq(Byte) /\ Len(buf) \in Nat /\ Len(got) \in Nat
      /\ m_capacity = Base * Len(nodes) /\ m_capacity \in Nat
      /\ m_position <= m_capacity /\ m_size <= m_capacity
  BY DEF CursorExact, TypeOK, Node
<1>2. /\ m \in Nat /\ m >= m_size /\ m >= m_position /\ m <= m_capacity
      /\ n = Larger(m, m_position + Len(buf)) /\ n \in Nat /\ n >= m /\ n >= m_position + Len(buf)
      /\ n \in {m, m_position + Len(buf)}
  BY <1>1 DEF SizeOf, Larger
<1>3. /\ Content = [i \in 1..m |-> ByteAt(nodes, i - 1)]
      /\ Len(Content) = m /\ Content \in Seq(Byte)
      /\ \A i \in 1..m : Content[i] = ByteAt(nodes, i - 1)
  BY ContentIs
<1> HIDE DEF m, n
<1>4. /\ op # "write" => Len(buf) = 0
      /\ op = "write" => left = 0 /\ m_position + Len(buf) <= m_capacity
      /\ op # "read" => left = 0
      /\ op = "read" => m_position + left <= m_size
  BY DEF Locals
<1>5. Bytes = [i \in 1..n |-> Ith(nodes, m_position, buf, i)]
  <2>1. CASE op # "write"
    <3>1. Bytes = Content /\ n = m
      BY <1>1, <1>2, <1>4, <2>1 DEF Bytes
    <3>2. \A i \in 1..n : Ith(nodes, m_position, buf, i) = ByteAt(nodes, i - 1)
      BY <1>1, <1>2, <1>4, <2>1 DEF Ith
    <3> QED BY <1>3, <3>1, <3>2
  <2>2. CASE op = "write"
    <3>1. Bytes = [i \in 1..n |->
            IF i > m_position /\ i <= m_position + Len(buf) THEN buf[i - m_position] ELSE Content[i]]
      BY <1>2, <1>3, <2>2 DEF Bytes
    <3>2. ASSUME NEW i \in 1..n, ~(i > m_position /\ i <= m_position + Len(buf))
          PROVE  Content[i] = ByteAt(nodes, i - 1)
      <4>1. i \in 1..m
        BY <1>1, <1>2, <3>2
      <4> QED BY <1>3, <4>1
    <3> QED BY <3>1, <3>2 DEF Ith
  <2> QED BY <2>1, <2>2
<1>6. ASSUME NEW i \in 1..n PROVE Ith(nodes, m_position, buf, i) \in Byte
  <2>1. CASE i > m_position /\ i <= m_position + Len(buf)
    <3>1. i - m_position \in 1..Len(buf)
      BY <1>1, <1>2, <2>1
    <3>2. Ith(nodes, m_position, buf, i) = buf[i - m_position]
      BY <2>1 DEF Ith
    <3> QED BY <1>1, <3>1, <3>2
  <2>2. CASE ~(i > m_position /\ i <= m_position + Len(buf))
    <3>1. i \in 1..m
      BY <1>1, <1>2, <2>2
    <3>2. i - 1 \in Nat /\ i - 1 < Base * Len(nodes)
      BY <1>1, <1>2, <3>1
    <3> QED BY <1>1, <2>2, <3>2, ByteAtType DEF Ith
  <2> QED BY <2>1, <2>2
<1>7. Bytes \in Seq(Byte) /\ Len(Bytes) = n
  <2>1. Bytes \in [1..n -> Byte]
    BY <1>5, <1>6
  <2> QED BY <1>2, <2>1, IsASeq, LenProperties
<1>8. Pos = m_position + Len(buf) + left
  BY <1>1, <1>4 DEF Pos
<1>9. Pos \in Nat /\ Pos <= n
  <2>1. CASE op = "read"
    BY <1>1, <1>2, <1>4, <1>8, <2>1
  <2>2. CASE op # "read"
    BY <1>1, <1>2, <1>4, <1>8, <2>2
  <2> QED BY <2>1, <2>2
<1>10. SubSeq(Content, m_position + 1, m_position + left)
         = [k \in 1..left |-> ByteAt(nodes, m_position + k - 1)]
       /\ SubSeq(Content, m_position + 1, m_position + left) \in Seq(Byte)
       /\ Len(SubSeq(Content, m_position + 1, m_position + left)) = left
  <2> DEFINE s == SubSeq(Content, m_position + 1, m_position + left)
  <2>0. Len(Content) = m /\ Content \in Seq(Byte)
    BY <1>3
  <2>1. m_position + left <= m
    BY <1>1, <1>2, <1>4
  <2>2. s \in Seq(Byte) /\ Len(s) = left /\ s = [k \in 1..left |-> Content[m_position + k]]
    <3>1. m_position + left <= Len(Content)
      BY <2>0, <2>1
    <3>2. m_position \in Nat /\ left \in Nat
      BY <1>1
    <3> QED BY <2>0, <3>1, <3>2, SubSeqIs
  <2> HIDE DEF s
  <2>3. ASSUME NEW k \in 1..left PROVE Content[m_position + k] = ByteAt(nodes, m_position + k - 1)
    <3>1. m_position + k \in 1..m
      BY <1>1, <1>2, <2>1
    <3>2. \A i \in 1..m : Content[i] = ByteAt(nodes, i - 1)
      BY <1>3
    <3>3. (m_position + k) - 1 = m_position + k - 1
      BY <1>1
    <3> QED BY <3>1, <3>2, <3>3
  <2> QED BY <2>2, <2>3 DEF s
<1>11. Out \in Seq(Byte) /\ Len(Out) = Len(got) + left
  BY <1>1, <1>10, ConcatProperties DEF Out
<1>12. Out = got \o [k \in 1..left |-> ByteAt(nodes, m_position + k - 1)]
  BY <1>10 DEF Out
<1> QED BY <1>5, <1>7, <1>8, <1>9, <1>11, <1>12 DEF n, SeenExact

\* The same after a step.
LEMMA SeenNext == (CursorExact /\ Locals => SeenExact)'
BY SeenIs, PTL

-----------------------------------------------------------------------------
(***************************************************************************)
(* What the steps do to the list of nodes                                  *)
(***************************************************************************)

\* The node of a position in a list of n nodes, and null at its end
CursorFor(p, n) == IF p = Base * n THEN 0 ELSE (p \div Base) + 1

\* The node and the index of a position.
LEMMA PositionIs ==
  ASSUME NEW q \in Nat, NEW r \in 0..(Base - 1), NEW a \in Nat, a = Base * q + r
  PROVE  a \div Base = q /\ a % Base = r
BY BaseFacts, DivUnique

\* A position within the capacity has a node or is the end.
LEMMA CursorForType ==
  ASSUME NEW n \in Nat, NEW p \in Nat, p <= Base * n
  PROVE  CursorFor(p, n) \in 0..n /\ (CursorFor(p, n) = 0 <=> p = Base * n)
<1>1. Base * n \in Nat
  BY BaseFacts
<1>2. p # Base * n => (p \div Base) + 1 \in 1..n
  BY <1>1, NodeIndex
<1> QED BY <1>2 DEF CursorFor

\* What CursorExact says of m_cur.
LEMMA CursorIs ==
  CursorExact => /\ m_cur = CursorFor(m_position, Len(nodes)) /\ nodes \in Seq(Node)
                 /\ Len(nodes) \in Nat /\ m_capacity = Base * Len(nodes)
                 /\ m_position \in Nat /\ m_capacity \in Nat /\ m_size \in Nat
                 /\ m_position <= m_capacity /\ m_size <= m_capacity
BY DEF CursorExact, TypeOK, CursorFor, Node

\* addCapacity makes as many nodes as are missing, leaves the bytes alone, and sets
\* m_cur if it was null.
LEMMA GrownIs ==
  ASSUME CursorExact, NEW size \in Nat
  PROVE  /\ Missing(size) \in Nat /\ Grown(size) \in Seq(Node)
         /\ Len(Grown(size)) = Len(nodes) + Missing(size)
         /\ m_capacity + Base * Missing(size) = Base * Len(Grown(size))
         /\ m_position + size <= Base * Len(Grown(size))
         /\ m_capacity <= Base * Len(Grown(size))
         /\ \A p \in Nat : p < m_capacity => ByteAt(Grown(size), p) = ByteAt(nodes, p)
         /\ CursorAfterGrowth(size) = CursorFor(m_position, Len(Grown(size)))
<1> DEFINE c == m_capacity - m_position
           q == Missing(size)
           news == [k \in 1..q |-> NewNode]
           list == Grown(size)
<1>1. /\ m_cur = CursorFor(m_position, Len(nodes)) /\ nodes \in Seq(Node)
      /\ Len(nodes) \in Nat /\ m_capacity = Base * Len(nodes)
      /\ m_position \in Nat /\ m_capacity \in Nat /\ m_position <= m_capacity
  BY CursorIs
<1>2. c \in Nat
  BY <1>1
<1>3. q \in Nat /\ Base * q >= size - c /\ (c = 0 /\ size > 0 => q > 0) /\ (q > 0 => size > c)
  <2>1. CASE c >= size
    <3>1. q = 0
      BY <2>1 DEF Missing, getCapacity
    <3> QED BY <1>2, <2>1, <3>1, BaseFacts
  <2>2. CASE ~(c >= size)
    <3> DEFINE x == size - c + Base - 1
    <3>1. q = x \div Base
      BY <2>2 DEF Missing, getCapacity
    <3>2. x \in Nat
      BY <1>2, <2>2, BaseFacts
    <3>3. q \in Nat /\ x % Base \in 0..(Base - 1) /\ x = Base * q + (x % Base)
      BY <3>1, <3>2, InBase
    <3> HIDE DEF q
    <3>4. Base * q \in Nat
      BY <3>3, BaseFacts
    <3>5. Base * q >= size - c
      BY <1>2, <3>3, <3>4, BaseFacts
    <3>6. q # 0
      BY <1>2, <2>2, <3>5, BaseFacts
    <3> QED BY <1>2, <2>2, <3>3, <3>5, <3>6
  <2> QED BY <2>1, <2>2
<1> HIDE DEF c
<1>4. news \in Seq(Node) /\ Len(news) = q
  <2>1. NewNode \in Node
    BY ArrayConstants DEF NewNode, Node
  <2>2. news \in [1..q -> Node]
    BY <2>1
  <2> HIDE DEF news, q
  <2> QED BY <1>3, <2>2, IsASeq, LenProperties
<1>5. list = nodes \o news
  BY DEF Grown
<1> HIDE DEF q, news, list
<1>6. list \in Seq(Node) /\ Len(list) = Len(nodes) + q
      /\ \A j \in 1..Len(nodes) : list[j] = nodes[j]
  <2>1. nodes \in Seq(Node) /\ news \in Seq(Node)
    BY <1>1, <1>4
  <2>2. /\ nodes \o news \in Seq(Node)
        /\ Len(nodes \o news) = Len(nodes) + Len(news)
        /\ \A j \in 1..Len(nodes) : (nodes \o news)[j] = nodes[j]
    <3>1. \A i \in 1..(Len(nodes) + Len(news)) :
            (nodes \o news)[i] = IF i <= Len(nodes) THEN nodes[i] ELSE news[i - Len(nodes)]
      BY <2>1, ConcatProperties
    <3>2. \A j \in 1..Len(nodes) : j \in 1..(Len(nodes) + Len(news)) /\ j <= Len(nodes)
      BY <2>1
    <3> QED BY <2>1, <3>1, <3>2, ConcatProperties
  <2> QED BY <1>4, <1>5, <2>2
<1>7. m_capacity + Base * q = Base * Len(list) /\ Base * q \in Nat
  <2>1. Base * (Len(nodes) + q) = Base * Len(nodes) + Base * q
    BY <1>1, <1>3, BaseFacts
  <2> QED BY <1>1, <1>3, <1>6, <2>1, BaseFacts
<1>8. m_position + size <= Base * Len(list) /\ m_capacity <= Base * Len(list)
  BY <1>1, <1>2, <1>3, <1>7 DEF c
<1>9. ASSUME NEW p \in Nat, p < m_capacity PROVE ByteAt(list, p) = ByteAt(nodes, p)
  <2>1. (p \div Base) + 1 \in 1..Len(nodes)
    BY <1>1, <1>9, NodeIndex
  <2> QED BY <1>6, <2>1 DEF ByteAt
<1>10. CursorAfterGrowth(size) = CursorFor(m_position, Len(list))
  <2>1. CursorAfterGrowth(size) = IF c = 0 /\ q > 0 THEN Len(nodes) + 1 ELSE m_cur
    BY DEF CursorAfterGrowth, getCapacity, c, q
  <2>2. CASE c = 0 /\ q > 0
    <3>1. m_position = Base * Len(nodes) + 0 /\ 0 \in 0..(Base - 1)
      BY <1>1, <2>2, BaseFacts DEF c
    <3>2. m_position \div Base = Len(nodes)
      BY <1>1, <3>1, PositionIs
    <3>3. Base * q # 0
      BY <1>3, <2>2, BaseFacts
    <3>4. m_position # Base * Len(list)
      BY <1>1, <1>7, <3>1, <3>3
    <3> QED BY <2>1, <2>2, <3>2, <3>4 DEF CursorFor
  <2>3. CASE c # 0
    <3>1. m_position # Base * Len(nodes) /\ m_position # Base * Len(list)
      BY <1>1, <1>2, <1>7, <1>8, <2>3 DEF c
    <3> QED BY <1>1, <2>1, <2>3, <3>1 DEF CursorFor
  <2>4. CASE c = 0 /\ q = 0
    <3>1. Len(list) = Len(nodes)
      BY <1>1, <1>6, <2>4
    <3> QED BY <1>1, <2>1, <2>4, <3>1
  <2> QED BY <1>3, <2>2, <2>3, <2>4
<1> QED BY <1>3, <1>6, <1>7, <1>8, <1>9, <1>10 DEF q, list

\* memcpy into the node of m_position
LEMMA CopyInIs ==
  ASSUME CursorExact, Locals, op = "write", NEW n \in Nat, n <= Len(buf), n <= Base - npos,
         CopyIn(n)
  PROVE  /\ nodes' \in Seq(Node) /\ Len(nodes') = Len(nodes)
         /\ \A p \in Nat : p < m_capacity =>
              ByteAt(nodes', p) = IF p >= m_position /\ p < m_position + n
                                    THEN buf[p - m_position + 1] ELSE ByteAt(nodes, p)
<1>1. /\ m_cur = CursorFor(m_position, Len(nodes)) /\ nodes \in Seq(Node)
      /\ Len(nodes) \in Nat /\ m_capacity = Base * Len(nodes)
      /\ m_position \in Nat /\ m_capacity \in Nat /\ m_position <= m_capacity
  BY CursorIs
<1>2. /\ buf \in Seq(Byte) /\ Len(buf) \in Nat /\ buf # <<>> /\ npos = m_position % Base
      /\ m_position + Len(buf) <= m_capacity
  BY DEF CursorExact, TypeOK, Locals
<1>3. Len(buf) > 0
  BY <1>2
<1> DEFINE q == m_position \div Base
           c == m_cur
           new == [k \in 0..(Base - 1) |-> IF k >= npos /\ k < npos + n
                                             THEN buf[k - npos + 1] ELSE nodes[c][k]]
<1>4. c = q + 1 /\ c \in 1..Len(nodes) /\ q \in Nat /\ npos \in 0..(Base - 1)
      /\ m_position = Base * q + npos
  <2>1. m_position < Base * Len(nodes)
    BY <1>1, <1>2, <1>3
  <2> QED BY <1>1, <1>2, <2>1, NodeIndex, InBase DEF CursorFor
<1>5. nodes[c] \in Node /\ DOMAIN nodes[c] = 0..(Base - 1)
  BY <1>1, <1>4 DEF Node
<1>6. nodes' = [nodes EXCEPT ![c] = new]
  BY <1>5 DEF CopyIn
<1> HIDE DEF q, c
<1>7. new \in Node
  <2>1. ASSUME NEW k \in 0..(Base - 1), k >= npos /\ k < npos + n PROVE buf[k - npos + 1] \in Byte
    <3>0. Len(buf) \in Nat /\ npos \in Nat /\ k \in Nat
      BY <1>2, <1>4
    <3>1. k - npos + 1 \in 1..Len(buf)
      BY <2>1, <3>0
    <3> QED BY <1>2, <3>1
  <2>2. \A k \in 0..(Base - 1) : nodes[c][k] \in Byte
    BY <1>5 DEF Node
  <2> QED BY <2>1, <2>2 DEF Node
<1> HIDE DEF new
<1>8. nodes' \in Seq(Node) /\ Len(nodes') = Len(nodes)
      /\ nodes'[c] = new /\ \A j \in 1..Len(nodes) : j # c => nodes'[j] = nodes[j]
  BY <1>1, <1>4, <1>6, <1>7
<1>9. ASSUME NEW p \in Nat, p < m_capacity
      PROVE  ByteAt(nodes', p) = IF p >= m_position /\ p < m_position + n
                                   THEN buf[p - m_position + 1] ELSE ByteAt(nodes, p)
  <2> DEFINE j == p \div Base
             r == p % Base
  <2>1. j + 1 \in 1..Len(nodes) /\ j \in Nat /\ r \in 0..(Base - 1) /\ p = Base * j + r
    BY <1>1, <1>9, NodeIndex, InBase
  <2>2. ByteAt(nodes', p) = nodes'[j + 1][r] /\ ByteAt(nodes, p) = nodes[j + 1][r]
    BY DEF ByteAt
  <2> HIDE DEF j, r
  <2>3. CASE j = q
    <3> DEFINE b == Base * q
    <3>1. b \in Nat /\ p = b + r /\ m_position = b + npos
      BY <1>4, <2>1, <2>3, BaseFacts
    <3> HIDE DEF b
    <3>0. r \in Nat /\ npos \in Nat
      BY <1>4, <2>1
    <3>2. p - m_position = r - npos
      BY <3>1, <3>0
    <3>3. (p >= m_position <=> r >= npos) /\ (p < m_position + n <=> r < npos + n)
      BY <3>1, <3>0
    <3>4. nodes'[j + 1][r] = IF r >= npos /\ r < npos + n THEN buf[r - npos + 1] ELSE nodes[c][r]
      BY <1>4, <1>8, <2>1, <2>3 DEF new
    <3> QED BY <1>4, <2>2, <2>3, <3>2, <3>3, <3>4
  <2>4. CASE j # q
    <3>1. ~(p >= m_position /\ p < m_position + n)
      <4>1. Base * q \in Nat /\ Base * j \in Nat
        BY <1>4, <2>1, BaseFacts
      <4>2. j < q => Base * j + Base <= Base * q
        BY <1>4, <2>1, MulMono, BaseFacts
      <4>3. q < j => Base * q + Base <= Base * j
        BY <1>4, <2>1, MulMono, BaseFacts
      <4>4. j < q => p < m_position
        BY <1>4, <2>1, <4>1, <4>2, BaseFacts
      <4>5. q < j => p >= m_position + n
        BY <1>4, <2>1, <4>1, <4>3, BaseFacts
      <4> QED BY <1>1, <1>4, <2>1, <2>4, <4>4, <4>5
    <3>2. nodes'[j + 1] = nodes[j + 1]
      BY <1>4, <1>8, <2>1, <2>4
    <3> QED BY <2>2, <3>1, <3>2
  <2> QED BY <2>3, <2>4
<1> QED BY <1>8, <1>9

\* memcpy out of the node of m_position
LEMMA FromNodeIs ==
  ASSUME CursorExact, m_position < m_capacity, npos = m_position % Base,
         NEW n \in Nat, n <= Base - npos
  PROVE  FromNode(n) = [k \in 1..n |-> ByteAt(nodes, m_position + k - 1)]
<1>1. /\ m_cur = CursorFor(m_position, Len(nodes)) /\ nodes \in Seq(Node)
      /\ Len(nodes) \in Nat /\ m_capacity = Base * Len(nodes)
      /\ m_position \in Nat /\ m_capacity \in Nat
  BY CursorIs
<1> DEFINE q == m_position \div Base
<1>2. q \in Nat /\ npos \in 0..(Base - 1) /\ m_position = Base * q + npos /\ m_cur = q + 1
  BY <1>1, InBase DEF CursorFor
<1> HIDE DEF q
<1>3. ASSUME NEW k \in 1..n PROVE nodes[m_cur][npos + k - 1] = ByteAt(nodes, m_position + k - 1)
  <2> DEFINE r == npos + k - 1
             a == m_position + k - 1
  <2>1. r \in 0..(Base - 1)
    BY <1>2, BaseFacts
  <2>2. a \in Nat /\ a = Base * q + r
    <3>1. Base * q \in Nat
      BY <1>2, BaseFacts
    <3> QED BY <1>1, <1>2, <3>1
  <2> HIDE DEF r, a
  <2>3. a \div Base = q /\ a % Base = r
    <3>1. q \in Nat
      BY <1>2
    <3> QED BY <2>1, <2>2, <3>1, PositionIs
  <2>4. ByteAt(nodes, a) = nodes[m_cur][r]
    BY <1>2, <2>3 DEF ByteAt
  <2> QED BY <2>4 DEF a, r
<1> QED BY <1>3 DEF FromNode

\* The loop of setPosition finds the node of a position.
LEMMA NodeOfIs ==
  ASSUME NEW list \in Seq(Node), list # <<>>, NEW v \in Nat, v <= Base * Len(list)
  PROVE  NodeOf(v, list) = CursorFor(v, Len(list))
<1> DEFINE n == Len(list)
           Ends(k) == v <= k * Base /\ (k = 1 \/ v > (k - 1) * Base)
           q == v \div Base
           r == v % Base
           c == CHOOSE k \in 1..n : Ends(k)
<1>1. n \in Nat /\ n >= 1
  OBVIOUS
<1>2. q \in Nat /\ r \in 0..(Base - 1) /\ v = Base * q + r
  BY InBase
<1>3. NodeOf(v, list) = IF v = c * Base THEN NextNode(c, list) ELSE c
  BY DEF NodeOf
<1> HIDE DEF q, r
<1>4. ASSUME NEW k \in 1..n, Ends(k)
      PROVE  (IF v = k * Base THEN NextNode(k, list) ELSE k) = CursorFor(v, n)
  <2>1. k * Base = Base * k /\ (k - 1) * Base = Base * (k - 1) /\ Base * k = Base * (k - 1) + Base
        /\ Base * k \in Int /\ Base * (k - 1) \in Int
    BY <1>1, BaseFacts
  <2>2. CASE v = k * Base
    <3>1. v \div Base = k
      <4>1. v = Base * k + 0 /\ 0 \in 0..(Base - 1) /\ k \in Nat
        BY <2>1, <2>2, BaseFacts
      <4> QED BY <4>1, PositionIs
    <3>2. k < n => v # Base * n
      <4>1. k < n => Base * k + Base <= Base * n
        BY <1>1, BaseFacts, MulMono
      <4> QED BY <1>1, <2>1, <2>2, <4>1, BaseFacts
    <3>3. k = n => v = Base * n
      BY <2>1, <2>2
    <3> QED BY <1>1, <2>2, <3>1, <3>2, <3>3 DEF NextNode, CursorFor
  <2>3. CASE v # k * Base
    <3>1. v >= Base * (k - 1) /\ v < Base * k
      <4>1. k = 1 => Base * (k - 1) = 0
        BY BaseFacts
      <4> QED BY <1>4, <2>1, <2>3, <4>1
    <3> DEFINE x == v - Base * (k - 1)
    <3>2. x \in 0..(Base - 1) /\ v = Base * (k - 1) + x /\ k - 1 \in Nat
      BY <2>1, <3>1, BaseFacts
    <3> HIDE DEF x
    <3>3. v \div Base = k - 1
      <4> DEFINE j == k - 1
      <4>1. j \in Nat /\ v = Base * j + x
        BY <3>2
      <4> HIDE DEF j
      <4>2. v \div Base = j
        BY <3>2, <4>1, PositionIs
      <4> QED BY <4>2 DEF j
    <3>4. v # Base * n
      <4>1. k < n => Base * k + Base <= Base * n
        BY <1>1, BaseFacts, MulMono
      <4>2. Base * n \in Nat
        BY <1>1, BaseFacts
      <4>3. k = n => Base * k = Base * n
        OBVIOUS
      <4> QED BY <1>1, <2>1, <3>1, <4>1, <4>2, <4>3, BaseFacts
    <3> QED BY <2>3, <3>3, <3>4 DEF CursorFor
  <2> QED BY <2>2, <2>3
<1>5. \E k \in 1..n : Ends(k)
  <2>1. Base * q \in Nat
    BY <1>2, BaseFacts
  <2>2. CASE r = 0 /\ q > 0
    <3>1. q \in 1..n
      <4>1. n < q => Base * n + Base <= Base * q
        BY <1>1, <1>2, BaseFacts, MulMono
      <4>2. Base * n \in Nat
        BY <1>1, BaseFacts
      <4> QED BY <1>1, <1>2, <2>1, <2>2, <4>1, <4>2, BaseFacts
    <3>2. q * Base = Base * q /\ (q - 1) * Base = Base * q - Base
      BY <1>2, BaseFacts
    <3>3. Ends(q)
      BY <1>2, <2>1, <2>2, <3>2, BaseFacts
    <3> QED BY <3>1, <3>3
  <2>3. CASE r = 0 /\ q = 0
    <3>1. v = 0
      BY <1>2, <2>3, BaseFacts
    <3>2. Ends(1) /\ 1 \in 1..n
      BY <1>1, <3>1, BaseFacts
    <3> QED BY <3>2
  <2>4. CASE r > 0
    <3>1. q + 1 \in 1..n
      <4>1. n < q + 1 => n = q \/ Base * n + Base <= Base * q
        BY <1>1, <1>2, BaseFacts, MulMono
      <4>2. Base * n \in Nat
        BY <1>1, BaseFacts
      <4> QED BY <1>1, <1>2, <2>1, <2>4, <4>1, <4>2, BaseFacts
    <3>2. (q + 1) * Base = Base * q + Base /\ ((q + 1) - 1) * Base = Base * q
      BY <1>2, BaseFacts
    <3>3. Ends(q + 1)
      BY <1>2, <2>1, <2>4, <3>2, BaseFacts
    <3> QED BY <3>1, <3>3
  <2> QED BY <1>2, <2>2, <2>3, <2>4
<1>6. c \in 1..n /\ Ends(c)
  BY <1>5
<1> HIDE DEF c
<1> QED BY <1>3, <1>4, <1>6

\* Where m_cur is after n more bytes of its node.
LEMMA CursorStep ==
  ASSUME CursorExact, m_position < m_capacity, NEW n \in Nat, n > 0,
         n <= Base - (m_position % Base)
  PROVE  /\ m_position + n <= m_capacity
         /\ (IF Base = (m_position % Base) + n THEN NextNode(m_cur, nodes) ELSE m_cur)
              = CursorFor(m_position + n, Len(nodes))
         /\ Base = (m_position % Base) + n => (m_position + n) % Base = 0
<1> DEFINE q == m_position \div Base
           r == m_position % Base
           p == m_position + n
           len == Len(nodes)
<1>1. /\ m_cur = q + 1 /\ q + 1 \in 1..len /\ len \in Nat /\ m_capacity = Base * len
      /\ m_position \in Nat /\ p \in Nat
  BY CursorIs, NodeIndex DEF CursorFor
<1>2. q \in Nat /\ r \in 0..(Base - 1) /\ m_position = Base * q + r
  BY <1>1, InBase
<1> HIDE DEF q, r
<1>3. NextNode(m_cur, nodes) = IF q + 1 < len THEN q + 2 ELSE 0
  BY <1>1, <1>2 DEF NextNode
<1> HIDE DEF len
<1>4. /\ Base * q \in Nat /\ Base * (q + 1) = Base * q + Base
      /\ q + 1 < len => Base * (q + 1) + Base <= Base * len
      /\ q + 1 = len => Base * (q + 1) = Base * len
      /\ Base * len \in Nat
  <2>1. q + 1 \in Int /\ len \in Int
    BY <1>1, <1>2
  <2> QED BY <1>1, <1>2, <2>1, BaseFacts, MulMono
<1>5. p = Base * q + (r + n)
  BY <1>2, <1>4
<1> HIDE DEF p
<1>6. CASE Base = r + n
  <2>1. p = Base * (q + 1) /\ q + 1 \in Nat
    BY <1>2, <1>4, <1>5, <1>6, BaseFacts
  <2>2. p \div Base = q + 1 /\ p % Base = 0
    <3>1. p \in Nat
      BY <1>1
    <3> QED BY <2>1, <3>1, BaseFacts, DivExact
  <2>3. p <= Base * len /\ (p = Base * len <=> q + 1 = len)
    BY <1>1, <1>2, <1>4, <2>1, BaseFacts
  <2>4. CursorFor(p, len) = IF q + 1 < len THEN q + 2 ELSE 0
    BY <1>1, <1>2, <2>2, <2>3 DEF CursorFor
  <2> QED BY <1>1, <1>3, <1>6, <2>2, <2>3, <2>4 DEF p, r, len
<1>7. CASE Base # r + n
  <2>1. r + n \in 0..(Base - 1)
    BY <1>2, <1>7, BaseFacts DEF r
  <2>2. p \div Base = q
    <3>1. q \in Nat
      BY <1>2
    <3> QED BY <1>1, <1>5, <2>1, <3>1, PositionIs
  <2>3. p < Base * len
    BY <1>1, <1>2, <1>4, <1>5, <2>1, BaseFacts
  <2> QED BY <1>1, <1>7, <2>2, <2>3 DEF CursorFor, p, r, len
<1> QED BY <1>6, <1>7

\* The sequence that the user sees after a step.
LEMMA SeenPrime ==
  ASSUME CursorExact', Locals'
  PROVE  /\ Bytes' \in Seq(Byte) /\ Len(Bytes') = SizeOf(m_size', m_position', buf')
         /\ Bytes' = [i \in 1..SizeOf(m_size', m_position', buf') |->
                        Ith(nodes', m_position', buf', i)]
         /\ Pos' = m_position' + Len(buf') + left' /\ Pos' \in Nat /\ Pos' <= Len(Bytes')
         /\ Out' = got' \o [k \in 1..left' |-> ByteAt(nodes', m_position' + k - 1)]
         /\ Out' \in Seq(Byte) /\ Len(Out') = Len(got') + left'
<1>1. SeenExact'
  BY SeenNext
<1> QED BY <1>1 DEF SeenExact

\* What makes the bytes the same before and after a step
LEMMA BytesAre ==
  ASSUME CursorExact, Locals, CursorExact', Locals',
         SizeOf(m_size', m_position', buf') = SizeOf(m_size, m_position, buf),
         \A i \in 1..SizeOf(m_size, m_position, buf) :
           Ith(nodes', m_position', buf', i) = Ith(nodes, m_position, buf, i)
  PROVE  Bytes' = Bytes
<1>1. Bytes' = [i \in 1..SizeOf(m_size', m_position', buf') |->
                        Ith(nodes', m_position', buf', i)]
  BY SeenPrime
<1>2. Bytes = [i \in 1..SizeOf(m_size, m_position, buf) |-> Ith(nodes, m_position, buf, i)]
  BY SeenIs DEF SeenExact
<1> QED BY <1>1, <1>2

\* CursorExact after a step, from its parts
LEMMA CursorNext ==
  ASSUME m_position' \in Nat, m_size' \in Nat, m_endian' \in -128..127,
         nodes' \in Seq(Node), m_capacity' = Base * Len(nodes'),
         m_position' <= m_capacity', m_size' <= m_capacity',
         m_cur' = CursorFor(m_position', Len(nodes')),
         op' \in {"idle", "write", "read", "next", "crashed"}, npos' \in 0..(Base - 1),
         buf' \in Seq(Byte), got' \in Seq(Byte), left' \in Nat
  PROVE  CursorExact'
<1>1. Len(nodes') \in Nat /\ m_capacity' \in Nat
  BY BaseFacts
<1>2. m_cur' \in 0..Len(nodes')
  BY <1>1, CursorForType
<1> QED BY <1>1, <1>2 DEF CursorExact, TypeOK, CursorFor, Node

-----------------------------------------------------------------------------
(***************************************************************************)
(* The steps of write() and read()                                         *)
(***************************************************************************)

Still == Bytes' = Bytes /\ Pos' = Pos /\ Out' = Out

\* The members and locals of which the bytes of the user are made
LEMMA Members ==
  ASSUME CursorExact, Locals
  PROVE  /\ m_position \in Nat /\ m_size \in Nat /\ m_capacity \in Nat /\ left \in Nat
         /\ m_position <= m_capacity /\ m_size <= m_capacity
         /\ m_capacity = Base * Len(nodes) /\ Len(nodes) \in Nat /\ Len(nodes) >= 1
         /\ nodes \in Seq(Node) /\ buf \in Seq(Byte) /\ got \in Seq(Byte)
         /\ Len(buf) \in Nat /\ Len(got) \in Nat /\ m_endian \in -128..127
         /\ npos \in 0..(Base - 1) /\ m_cur = CursorFor(m_position, Len(nodes))
         /\ SizeOf(m_size, m_position, buf) \in Nat
         /\ SizeOf(m_size, m_position, buf) <= m_capacity
<1>1. /\ m_position \in Nat /\ m_size \in Nat /\ m_capacity \in Nat /\ left \in Nat
      /\ m_position <= m_capacity /\ m_size <= m_capacity
      /\ m_capacity = Base * Len(nodes) /\ Len(nodes) \in Nat
      /\ nodes \in Seq(Node) /\ buf \in Seq(Byte) /\ got \in Seq(Byte)
      /\ Len(buf) \in Nat /\ Len(got) \in Nat /\ m_endian \in -128..127
      /\ npos \in 0..(Base - 1) /\ m_cur = CursorFor(m_position, Len(nodes))
  BY DEF CursorExact, TypeOK, CursorFor, Node
<1>2. Len(nodes) >= 1
  BY <1>1 DEF Locals
<1>3. m_position + Len(buf) <= m_capacity
  <2>1. CASE op = "write"
    BY <2>1 DEF Locals
  <2>2. CASE op # "write"
    <3>1. Len(buf) = 0
      BY <2>2 DEF Locals
    <3> QED BY <1>1, <3>1
  <2> QED BY <2>1, <2>2
<1>4. SizeOf(m_size, m_position, buf) \in Nat /\ SizeOf(m_size, m_position, buf) <= m_capacity
  BY <1>1, <1>3 DEF SizeOf, Larger
<1> QED BY <1>1, <1>2, <1>4

\* An iteration of write() moves n bytes from what is to be written to the nodes.
LEMMA WriteStep ==
  ASSUME CursorExact, Locals, CursorExact', Locals', op = "write",
         NEW n \in Nat, n <= Len(buf), n <= Base - npos, CopyIn(n),
         m_position' = m_position + n, m_size' \in {m_size, Larger(m_size, m_position')},
         Len(buf') = Len(buf) - n, \A k \in 1..(Len(buf) - n) : buf'[k] = buf[n + k],
         left' = left, got' = got
  PROVE  Still
<1>1. /\ m_position \in Nat /\ m_size \in Nat /\ m_capacity \in Nat
      /\ Len(buf) \in Nat /\ npos \in 0..(Base - 1) /\ buf \in Seq(Byte)
      /\ SizeOf(m_size, m_position, buf) \in Nat
      /\ SizeOf(m_size, m_position, buf) <= m_capacity
  BY Members
<1>2. left = 0
  BY DEF Locals
<1>3. \A p \in Nat : p < m_capacity =>
        ByteAt(nodes', p) = IF p >= m_position /\ p < m_position + n
                              THEN buf[p - m_position + 1] ELSE ByteAt(nodes, p)
  BY CopyInIs
<1> DEFINE size == SizeOf(m_size, m_position, buf)
<1>4. SizeOf(m_size', m_position', buf') = size
  BY <1>1 DEF SizeOf, Larger
<1>5. ASSUME NEW i \in 1..size
      PROVE  Ith(nodes', m_position', buf', i) = Ith(nodes, m_position, buf, i)
  <2> HIDE DEF size
  <2>0. size \in Nat /\ size <= m_capacity
    BY <1>1 DEF size
  <2> DEFINE p == i - 1
  <2>1. p \in Nat /\ p < m_capacity /\ i \in Nat
    BY <1>1, <2>0
  <2>2. ByteAt(nodes', p) = IF p >= m_position /\ p < m_position + n
                              THEN buf[p - m_position + 1] ELSE ByteAt(nodes, p)
    BY <1>3, <2>1
  <2>3. CASE i > m_position + n /\ i <= m_position + Len(buf)
    <3> DEFINE k == i - (m_position + n)
    <3>1. k \in 1..(Len(buf) - n) /\ n + k = i - m_position
      BY <1>1, <2>1, <2>3
    <3>2. Ith(nodes', m_position', buf', i) = buf'[k]
      BY <1>1, <2>1, <2>3 DEF Ith
    <3> HIDE DEF k
    <3>3. Ith(nodes, m_position, buf, i) = buf[i - m_position]
      BY <1>1, <2>1, <2>3 DEF Ith
    <3> QED BY <3>1, <3>2, <3>3
  <2>4. CASE i > m_position /\ i <= m_position + n
    <3>1. Ith(nodes', m_position', buf', i) = ByteAt(nodes', p)
      BY <1>1, <2>1, <2>4 DEF Ith
    <3>2. p >= m_position /\ p < m_position + n /\ p - m_position + 1 = i - m_position
      BY <1>1, <2>1, <2>4
    <3>3. Ith(nodes, m_position, buf, i) = buf[i - m_position]
      BY <1>1, <2>1, <2>4 DEF Ith
    <3> QED BY <2>2, <3>1, <3>2, <3>3
  <2>5. CASE i <= m_position \/ i > m_position + Len(buf)
    <3>1. Ith(nodes', m_position', buf', i) = ByteAt(nodes', p)
      BY <1>1, <2>1, <2>5 DEF Ith
    <3>2. Ith(nodes, m_position, buf, i) = ByteAt(nodes, p)
      BY <1>1, <2>1, <2>5 DEF Ith
    <3>3. ~(p >= m_position /\ p < m_position + n)
      BY <1>1, <2>1, <2>5
    <3> QED BY <2>2, <3>1, <3>2, <3>3
  <2> QED BY <1>1, <2>1, <2>3, <2>4, <2>5
<1>6. Bytes' = Bytes
  BY <1>4, <1>5, BytesAre
<1>7. Pos' = Pos
  <2>1. Pos' = m_position' + Len(buf') + left'
    BY SeenPrime
  <2>2. Pos = m_position + Len(buf) + left
    BY SeenIs DEF SeenExact
  <2> QED BY <1>1, <1>2, <2>1, <2>2
<1>8. Out' = Out
  <2>1. Out' = got' \o [k \in 1..left' |-> ByteAt(nodes', m_position' + k - 1)]
    BY SeenPrime
  <2>2. Out = got \o [k \in 1..left |-> ByteAt(nodes, m_position + k - 1)]
    BY SeenIs DEF SeenExact
  <2>3. [k \in 1..left' |-> ByteAt(nodes', m_position' + k - 1)]
          = [k \in 1..left |-> ByteAt(nodes, m_position + k - 1)]
    BY <1>2
  <2> QED BY <2>1, <2>2, <2>3
<1> QED BY <1>6, <1>7, <1>8 DEF Still

\* The last iteration of write() changes nothing for the user, for whom all was written
\* when the call started.
LEMMA WriteLastIs ==
  ASSUME CursorExact, Locals, WriteLast
  PROVE  CursorExact' /\ Locals' /\ Still /\ op' = "idle"
<1> DEFINE n == Len(buf)
<1>1. /\ m_position \in Nat /\ m_size \in Nat /\ m_capacity \in Nat /\ m_size <= m_capacity
      /\ m_capacity = Base * Len(nodes) /\ Len(nodes) \in Nat
      /\ nodes \in Seq(Node) /\ n \in Nat /\ buf \in Seq(Byte)
      /\ m_endian \in -128..127 /\ npos \in 0..(Base - 1) /\ got \in Seq(Byte) /\ left \in Nat
  BY Members
<1>2. /\ op = "write" /\ Base - npos >= n /\ CopyIn(n)
      /\ m_cur' = IF Base = npos + n THEN NextNode(m_cur, nodes) ELSE m_cur
      /\ m_position' = m_position + n /\ m_size' = Larger(m_size, m_position')
      /\ op' = "idle" /\ npos' = 0 /\ buf' = <<>> /\ m_capacity' = m_capacity
      /\ m_endian' = m_endian /\ left' = left /\ got' = got
  BY DEF WriteLast
<1>3. /\ n > 0 /\ npos = m_position % Base /\ m_position + n <= m_capacity /\ left = 0
      /\ nodes # <<>>
  BY <1>1, <1>2 DEF Locals
<1>4. m_cur' = CursorFor(m_position + n, Len(nodes))
  <2>1. m_position < m_capacity /\ n <= Base - (m_position % Base)
    BY <1>1, <1>2, <1>3, BaseFacts
  <2> QED BY <1>1, <1>2, <1>3, <2>1, CursorStep
<1>5. nodes' \in Seq(Node) /\ Len(nodes') = Len(nodes)
  BY <1>1, <1>2, BaseFacts, CopyInIs
<1>6. m_size' \in Nat /\ m_size' <= m_capacity /\ m_position' <= m_size'
  <2>1. m_size \in Nat /\ m_position + n \in Nat /\ m_capacity \in Nat
    BY <1>1
  <2>2. m_size' = Larger(m_size, m_position + n) /\ m_position' = m_position + n
    BY <1>2
  <2>3. m_size <= m_capacity /\ m_position + n <= m_capacity
    BY <1>1, <1>3
  <2> QED BY <2>1, <2>2, <2>3 DEF Larger
<1>7. CursorExact'
  <2>1. m_cur' = CursorFor(m_position', Len(nodes')) /\ m_capacity' = Base * Len(nodes')
    BY <1>1, <1>2, <1>4, <1>5
  <2>2. npos' \in 0..(Base - 1)
    BY <1>2, BaseFacts
  <2> QED BY <1>1, <1>2, <1>3, <1>5, <1>6, <2>1, <2>2, CursorNext
<1>8. Locals'
  <2>1. nodes' # <<>>
    BY <1>1, <1>3, <1>5
  <2> QED BY <1>2, <1>3, <1>6, <2>1 DEF Locals
<1>9. Still
  <2>1. Len(buf') = n - n /\ \A k \in 1..(n - n) : buf'[k] = buf[n + k]
    BY <1>1, <1>2
  <2>3. n <= Base - npos
    BY <1>1, <1>2, BaseFacts
  <2> QED BY <1>1, <1>2, <1>7, <1>8, <2>1, <2>3, WriteStep
<1> QED BY <1>2, <1>7, <1>8, <1>9

\* An iteration of write() that fills a node has a next node to go to.
LEMMA WriteNodeIs ==
  ASSUME CursorExact, Locals, WriteNode
  PROVE  CursorExact' /\ Locals' /\ Still /\ op' = "write"
<1> DEFINE n == Base - npos
<1>1. /\ m_position \in Nat /\ m_size \in Nat /\ m_capacity \in Nat /\ m_size <= m_capacity
      /\ m_capacity = Base * Len(nodes) /\ Len(nodes) \in Nat
      /\ nodes \in Seq(Node) /\ Len(buf) \in Nat /\ buf \in Seq(Byte)
      /\ m_endian \in -128..127 /\ npos \in 0..(Base - 1) /\ got \in Seq(Byte) /\ left \in Nat
  BY Members
<1>2. /\ op = "write" /\ n < Len(buf) /\ CopyIn(n)
      /\ m_cur' = NextNode(m_cur, nodes)
      /\ m_position' = m_position + Base - npos /\ m_size' = m_size
      /\ op' = (IF m_cur' = 0 THEN "crashed" ELSE op)
      /\ npos' = 0 /\ buf' = SubSeq(buf, n + 1, Len(buf)) /\ m_capacity' = m_capacity
      /\ m_endian' = m_endian /\ left' = left /\ got' = got
  BY DEF WriteNode
<1>3. /\ npos = m_position % Base /\ m_position + Len(buf) <= m_capacity /\ left = 0
      /\ nodes # <<>> /\ got = <<>>
  BY <1>1, <1>2 DEF Locals
<1>4. n \in Nat /\ n > 0 /\ Base = npos + n /\ m_position' = m_position + n
  BY <1>1, <1>2, BaseFacts
<1> HIDE DEF n
<1>5. m_position + n < m_capacity
  <2>1. m_position \in Nat /\ Len(buf) \in Nat /\ m_capacity \in Nat /\ n \in Nat
    BY <1>1, <1>4
  <2>2. n < Len(buf) /\ m_position + Len(buf) <= m_capacity
    BY <1>2, <1>3
  <2> QED BY <2>1, <2>2
<1>6. m_cur' = CursorFor(m_position + n, Len(nodes)) /\ (m_position + n) % Base = 0
  <2>1. m_position < m_capacity /\ n <= Base - (m_position % Base)
        /\ Base = (m_position % Base) + n
    <3>1. m_position \in Nat /\ m_capacity \in Nat /\ n \in Nat /\ npos \in Nat
      BY <1>1, <1>4
    <3>2. npos = m_position % Base /\ Base = npos + n
      BY <1>3, <1>4
    <3> QED BY <1>5, <3>1, <3>2, BaseFacts
  <2> QED BY <1>2, <1>4, <2>1, CursorStep
<1>7. nodes' \in Seq(Node) /\ Len(nodes') = Len(nodes)
  <2>1. n <= Len(buf) /\ n <= Base - npos
    BY <1>1, <1>2, <1>4, BaseFacts
  <2> QED BY <1>2, <1>4, <2>1, CopyInIs
<1>8. op' = "write"
  <2>1. m_position + n # Base * Len(nodes) /\ m_position + n \in Nat
        /\ m_position + n <= Base * Len(nodes)
    BY <1>1, <1>4, <1>5
  <2> QED BY <1>1, <1>2, <1>6, <2>1, CursorForType
<1>9. /\ Len(buf') = Len(buf) - n /\ buf' \in Seq(Byte)
      /\ \A k \in 1..(Len(buf) - n) : buf'[k] = buf[n + k]
  <2> DEFINE m == Len(buf) - n
  <2>1. m \in Nat /\ n + m = Len(buf)
    BY <1>1, <1>2, <1>4
  <2> HIDE DEF m
  <2>2. buf' = SubSeq(buf, n + 1, n + m) /\ n + m <= Len(buf)
    <3>1. buf' = SubSeq(buf, n + 1, Len(buf))
      BY <1>2
    <3>2. n + m <= Len(buf)
      BY <1>1, <2>1
    <3> QED BY <2>1, <3>1, <3>2
  <2>3. buf' \in Seq(Byte) /\ Len(buf') = m /\ buf' = [k \in 1..m |-> buf[n + k]]
    BY <1>1, <1>4, <2>1, <2>2, SubSeqIs
  <2> QED BY <2>3 DEF m
<1>10. CursorExact'
  <2>1. m_cur' = CursorFor(m_position', Len(nodes')) /\ m_capacity' = Base * Len(nodes')
    BY <1>1, <1>2, <1>4, <1>6, <1>7
  <2>2. npos' \in 0..(Base - 1)
    BY <1>2, BaseFacts
  <2>3. m_position' \in Nat /\ m_position' <= m_capacity'
    BY <1>1, <1>2, <1>4, <1>5
  <2> QED BY <1>1, <1>2, <1>7, <1>8, <1>9, <2>1, <2>2, <2>3, CursorNext
<1>11. Locals'
  <2>1. nodes' # <<>>
    BY <1>1, <1>3, <1>7
  <2>2. buf' # <<>> /\ m_position' + Len(buf') <= m_capacity'
    <3>1. m_position \in Nat /\ Len(buf) \in Nat /\ m_capacity \in Nat /\ n \in Nat
      BY <1>1, <1>4
    <3>2. n < Len(buf) /\ m_position + Len(buf) <= m_capacity /\ m_capacity' = m_capacity
          /\ m_position' = m_position + n /\ Len(buf') = Len(buf) - n /\ buf' \in Seq(Byte)
      BY <1>2, <1>3, <1>4, <1>9
    <3> QED BY <3>1, <3>2
  <2>3. npos' = m_position' % Base
    BY <1>2, <1>4, <1>6
  <2> QED BY <1>2, <1>3, <1>8, <2>1, <2>2, <2>3 DEF Locals
<1>12. Still
  <2>1. n <= Len(buf) /\ n <= Base - npos
    BY <1>1, <1>2, <1>4, BaseFacts
  <2>2. m_size' \in {m_size, Larger(m_size, m_position')}
    BY <1>2
  <2> QED BY <1>2, <1>4, <1>9, <1>10, <1>11, <2>1, <2>2, WriteStep
<1> QED BY <1>8, <1>10, <1>11, <1>12

\* n bytes from position p on
From(list, p, n) == [k \in 1..n |-> ByteAt(list, p + k - 1)]

\* The bytes of a list from a position on are a sequence.
LEMMA FromType ==
  ASSUME NEW list \in Seq(Node), NEW p \in Nat, NEW n \in Nat, p + n <= Base * Len(list)
  PROVE  From(list, p, n) \in Seq(Byte) /\ Len(From(list, p, n)) = n
<1>1. ASSUME NEW k \in 1..n PROVE ByteAt(list, p + k - 1) \in Byte
  <2> DEFINE a == p + k - 1
             m == Base * Len(list)
  <2>0. m \in Nat
    BY BaseFacts
  <2> HIDE DEF m
  <2>1. a \in Nat /\ a < m
    BY <2>0 DEF m
  <2> HIDE DEF a
  <2> QED BY <2>1, ByteAtType DEF a, m
<1>2. From(list, p, n) \in [1..n -> Byte]
  BY <1>1 DEF From
<1> QED BY <1>2, IsASeq, LenProperties

\* Three sequences of bytes, joined one way or the other.
LEMMA Joined ==
  ASSUME NEW r \in Seq(Byte), NEW s \in Seq(Byte), NEW t \in Seq(Byte)
  PROVE  (r \o s) \o t = r \o (s \o t)
BY ConcatAssociative

\* Bytes read in two parts are the bytes read at once.
LEMMA FromJoin ==
  ASSUME NEW list \in Seq(Node), NEW p \in Nat, NEW a \in Nat, NEW b \in Nat,
         p + a + b <= Base * Len(list)
  PROVE  From(list, p, a + b) = From(list, p, a) \o From(list, p + a, b)
<1> DEFINE s == From(list, p, a)
           t == From(list, p + a, b)
           u == From(list, p, a + b)
           m == Base * Len(list)
<1>0. m \in Nat
  BY BaseFacts
<1> HIDE DEF m
<1>1. s \in Seq(Byte) /\ Len(s) = a /\ t \in Seq(Byte) /\ Len(t) = b
      /\ u \in Seq(Byte) /\ Len(u) = a + b
  <2>1. p + a <= m /\ (p + a) + b <= m /\ p + (a + b) <= m /\ p + a \in Nat /\ a + b \in Nat
    BY <1>0 DEF m
  <2> QED BY <2>1, FromType DEF m
<1>2. /\ s \o t \in Seq(Byte) /\ Len(s \o t) = a + b
      /\ \A i \in 1..(a + b) : (s \o t)[i] = IF i <= a THEN s[i] ELSE t[i - a]
  <2> HIDE DEF s, t
  <2> QED BY <1>1, ConcatProperties
<1>3. ASSUME NEW i \in 1..(a + b) PROVE (s \o t)[i] = u[i]
  <2>1. u[i] = ByteAt(list, p + i - 1)
    BY DEF From
  <2>2. CASE i <= a
    <3>1. s[i] = ByteAt(list, p + i - 1)
      BY <2>2 DEF From
    <3> QED BY <1>2, <2>1, <2>2, <3>1
  <2>3. CASE ~(i <= a)
    <3>1. i - a \in 1..b /\ (p + a) + (i - a) - 1 = p + i - 1
      BY <2>3
    <3>2. t[i - a] = ByteAt(list, (p + a) + (i - a) - 1)
      BY <3>1 DEF From
    <3> QED BY <1>2, <2>1, <2>3, <3>1, <3>2
  <2> QED BY <2>2, <2>3
<1> HIDE DEF s, t, u
<1>4. s \o t = u
  <2> DEFINE w == s \o t
  <2> HIDE DEF w
  <2>1. w \in Seq(Byte) /\ Len(w) = Len(u) /\ \A i \in 1..Len(w) : w[i] = u[i]
    BY <1>1, <1>2, <1>3 DEF w
  <2> QED BY <1>1, <2>1, SeqEqual DEF w
<1> QED BY <1>4 DEF s, t, u

\* An iteration of read() moves n bytes from what is to be read to what has been read.
LEMMA ReadStep ==
  ASSUME CursorExact, Locals, CursorExact', Locals', op = "read",
         NEW n \in Nat, n <= left, n <= Base - npos, nodes' = nodes, m_size' = m_size,
         m_position' = m_position + n, left' = left - n, got' = got \o FromNode(n), buf' = buf
  PROVE  Still
<1>1. /\ m_position \in Nat /\ m_size \in Nat /\ left \in Nat
      /\ SizeOf(m_size, m_position, buf) \in Nat
  BY Members
<1>2. Len(buf) = 0 /\ m_position + left <= m_size /\ left > 0 /\ npos = m_position % Base
  BY DEF Locals
<1>3. m_position + left <= Base * Len(nodes) /\ m_position < m_capacity
  <2>1. m_size <= m_capacity /\ m_capacity = Base * Len(nodes) /\ m_capacity \in Nat
    BY Members
  <2> HIDE DEF Locals
  <2> QED BY <1>1, <1>2, <2>1
<1>4. Bytes' = Bytes
  <2>1. SizeOf(m_size', m_position', buf') = SizeOf(m_size, m_position, buf)
    BY <1>1, <1>2 DEF SizeOf, Larger
  <2>2. ASSUME NEW i \in 1..SizeOf(m_size, m_position, buf)
        PROVE  Ith(nodes', m_position', buf', i) = Ith(nodes, m_position, buf, i)
    BY <1>1, <1>2 DEF Ith
  <2> QED BY <2>1, <2>2, BytesAre
<1>5. Pos' = Pos
  <2>1. Pos' = m_position' + Len(buf') + left'
    BY SeenPrime
  <2>2. Pos = m_position + Len(buf) + left
    BY SeenIs DEF SeenExact
  <2> QED BY <1>1, <1>2, <2>1, <2>2
<1>6. Out' = Out
  <2> DEFINE m == left - n
             s == From(nodes, m_position, n)
             t == From(nodes, m_position + n, m)
  <2>1. Out' = got' \o From(nodes, m_position + n, m)
    BY SeenPrime DEF From
  <2>2. Out = got \o From(nodes, m_position, left)
    BY SeenIs DEF SeenExact, From
  <2>3. FromNode(n) = s
    BY <1>2, <1>3, FromNodeIs DEF From
  <2>4. nodes \in Seq(Node) /\ got \in Seq(Byte)
    BY Members
  <2>5. m \in Nat /\ n + m = left
    BY <1>1
  <2> HIDE DEF m
  <2>6. m_position + n + m <= Base * Len(nodes) /\ m_position + n <= Base * Len(nodes)
        /\ m_position + n \in Nat /\ (m_position + n) + m <= Base * Len(nodes)
    <3> DEFINE c == Base * Len(nodes)
    <3>1. c \in Nat
      BY <2>4, BaseFacts
    <3> HIDE DEF c
    <3>2. m_position + left <= c
      BY <1>3 DEF c
    <3>3. m_position + n + m <= c /\ m_position + n <= c
          /\ m_position + n \in Nat /\ (m_position + n) + m <= c
      BY <1>1, <2>5, <3>1, <3>2
    <3> QED BY <3>3 DEF c
  <2>7. s \in Seq(Byte) /\ t \in Seq(Byte)
    BY <1>1, <2>4, <2>5, <2>6, FromType
  <2>8. From(nodes, m_position, n + m) = s \o t
    <3>1. m_position \in Nat /\ nodes \in Seq(Node) /\ m \in Nat
      BY <1>1, <2>4, <2>5
    <3>2. m_position + n + m <= Base * Len(nodes)
      BY <2>6
    <3> HIDE DEF s, t
    <3>3. From(nodes, m_position, n + m)
            = From(nodes, m_position, n) \o From(nodes, m_position + n, m)
      BY <3>1, <3>2, FromJoin
    <3> QED BY <3>3 DEF s, t
  <2> HIDE DEF s, t
  <2>9. (got \o s) \o t = got \o (s \o t)
    BY <2>4, <2>7, Joined
  <2> QED BY <2>1, <2>2, <2>3, <2>5, <2>8, <2>9 DEF t
<1> QED BY <1>4, <1>5, <1>6 DEF Still

\* What both iterations of read() do to m_cur and to the locals
LEMMA ReadMoves ==
  ASSUME CursorExact, Locals, op = "read", NEW n \in Nat, n > 0, n <= left, n <= Base - npos,
         UNCHANGED <<nodes, m_size, m_capacity, m_endian, buf>>,
         m_position' = m_position + n, left' = left - n, got' = got \o FromNode(n),
         m_cur' = (IF Base = npos + n THEN NextNode(m_cur, nodes) ELSE m_cur), npos' = 0,
         op' = "read" => left' > 0 /\ Base = npos + n, op' # "read" => left' = 0,
         op' \in {"idle", "next", "read"}
  PROVE  CursorExact' /\ Locals' /\ Still
<1>1. /\ m_position \in Nat /\ m_size \in Nat /\ m_capacity \in Nat /\ m_size <= m_capacity
      /\ m_endian \in -128..127 /\ npos \in 0..(Base - 1) /\ left \in Nat
  BY Members
<1>2. /\ m_capacity = Base * Len(nodes) /\ Len(nodes) \in Nat /\ got \in Seq(Byte)
      /\ nodes \in Seq(Node) /\ buf \in Seq(Byte)
  BY Members
<1>3. /\ npos = m_position % Base /\ m_position + left <= m_size /\ left > 0 /\ buf = <<>>
      /\ nodes # <<>>
  BY DEF Locals
<1>4. m_position < m_capacity /\ m_position + n <= m_size /\ n <= Base - (m_position % Base)
      /\ m_position + n <= m_capacity
  BY <1>1, <1>3
<1>5. /\ m_cur' = CursorFor(m_position + n, Len(nodes))
      /\ Base = npos + n => (m_position + n) % Base = 0
  BY <1>3, <1>4, CursorStep
<1>6. got' \in Seq(Byte)
  <2>1. FromNode(n) = From(nodes, m_position, n)
    BY <1>3, <1>4, FromNodeIs DEF From
  <2>2. From(nodes, m_position, n) \in Seq(Byte)
    <3>1. m_position + n <= Base * Len(nodes) /\ m_position \in Nat
      BY <1>1, <1>2, <1>4
    <3> QED BY <1>2, <3>1, FromType
  <2> QED BY <1>2, <2>1, <2>2, ConcatProperties
<1>7. CursorExact'
  <2>1. m_cur' = CursorFor(m_position', Len(nodes')) /\ m_capacity' = Base * Len(nodes')
    BY <1>2, <1>5
  <2>2. npos' \in 0..(Base - 1)
    BY BaseFacts
  <2>3. m_position' \in Nat /\ m_position' <= m_capacity' /\ m_size' \in Nat
        /\ m_size' <= m_capacity' /\ left' \in Nat /\ m_endian' \in -128..127
    BY <1>1, <1>4
  <2>4. nodes' \in Seq(Node) /\ buf' \in Seq(Byte)
    BY <1>2
  <2> QED BY <1>6, <2>1, <2>2, <2>3, <2>4, CursorNext
<1>8. Locals'
  <2>1. nodes' # <<>> /\ buf' = <<>> /\ m_position' <= m_size'
    BY <1>3, <1>4
  <2>2. op' = "read" => npos' = m_position' % Base /\ m_position' + left' <= m_size'
    <3>1. m_position' + left' = m_position + left
      BY <1>1
    <3> QED BY <1>3, <1>5, <3>1
  <2> QED BY <2>1, <2>2 DEF Locals
<1>9. Still
  BY <1>7, <1>8, ReadStep
<1> QED BY <1>7, <1>8, <1>9

\* The last iteration of read() changes nothing for the user, who has got the bytes when
\* the call started.
LEMMA ReadLastIs ==
  ASSUME CursorExact, Locals, ReadLast
  PROVE  /\ CursorExact' /\ Locals' /\ Still
         /\ op' = (IF reader = Plain THEN "idle" ELSE "next")
<1> DEFINE n == left
<1>1. left \in Nat /\ npos \in 0..(Base - 1)
  BY Members
<1>2. /\ op = "read" /\ Base - npos >= n
      /\ m_cur' = (IF Base = npos + n THEN NextNode(m_cur, nodes) ELSE m_cur)
      /\ m_position' = m_position + n /\ got' = got \o FromNode(n)
      /\ op' = (IF reader = Plain THEN "idle" ELSE "next") /\ npos' = 0 /\ left' = 0
      /\ UNCHANGED <<nodes, m_size, m_capacity, m_endian, buf>>
  BY DEF ReadLast
<1>3. n > 0
  BY <1>2 DEF Locals
<1>4. n <= Base - npos /\ n <= left /\ left' = left - n
  BY <1>1, <1>2, BaseFacts
<1>5. op' \in {"idle", "next"}
  BY <1>2
<1> QED BY <1>1, <1>2, <1>3, <1>4, <1>5, ReadMoves

\* An iteration of read() that empties a node has a next node to go to.
LEMMA ReadNodeIs ==
  ASSUME CursorExact, Locals, ReadNode
  PROVE  CursorExact' /\ Locals' /\ Still /\ op' = "read"
<1> DEFINE n == Base - npos
<1>1. left \in Nat /\ npos \in 0..(Base - 1)
  BY Members
<1>2. /\ op = "read" /\ n < left /\ m_cur' = NextNode(m_cur, nodes)
      /\ m_position' = m_position + Base - npos /\ got' = got \o FromNode(n)
      /\ op' = (IF m_cur' = 0 THEN "crashed" ELSE op) /\ npos' = 0 /\ left' = left - n
      /\ UNCHANGED <<nodes, m_size, m_capacity, m_endian, buf>>
  BY DEF ReadNode
<1>3. m_position \in Nat /\ m_capacity \in Nat /\ m_size \in Nat /\ m_size <= m_capacity
  BY Members
<1>4. n \in Nat /\ n > 0 /\ Base = npos + n /\ n <= left /\ left - n > 0
      /\ m_position' = m_position + n /\ n <= Base - npos
  BY <1>1, <1>2, <1>3, BaseFacts
<1> HIDE DEF n
<1>5. npos = m_position % Base /\ m_position + left <= m_size
  BY <1>2 DEF Locals
<1>6. m_position < m_capacity /\ m_position + n < m_capacity
  BY <1>1, <1>3, <1>4, <1>5
<1>7. m_cur' = CursorFor(m_position + n, Len(nodes))
  BY <1>2, <1>4, <1>5, <1>6, CursorStep
<1>8. op' = "read"
  <2>1. m_capacity = Base * Len(nodes) /\ Len(nodes) \in Nat
    BY Members
  <2>2. m_position + n # Base * Len(nodes) /\ m_position + n \in Nat
        /\ m_position + n <= Base * Len(nodes)
    BY <1>3, <1>4, <1>6, <2>1
  <2>3. m_cur' # 0
    BY <1>7, <2>1, <2>2, CursorForType
  <2> QED BY <1>2, <2>3
<1>9. left' > 0
  BY <1>2, <1>4
<1> QED BY <1>2, <1>4, <1>8, <1>9, ReadMoves

-----------------------------------------------------------------------------
(***************************************************************************)
(* The calls                                                               *)
(***************************************************************************)

\* What the user sees between two calls
Quiet ==
  op \notin {"write", "read"} =>
    /\ Pos = m_position /\ Out = got /\ Len(Bytes) = m_size
    /\ \A i \in 1..m_size : Bytes[i] = ByteAt(nodes, i - 1)
    /\ m_position <= m_size /\ left = 0 /\ buf = <<>>

\* Between two calls the user sees the members themselves.
LEMMA QuietIs == CursorExact /\ Locals => Quiet
<1> SUFFICES ASSUME CursorExact, Locals, op \notin {"write", "read"}
             PROVE  /\ Pos = m_position /\ Out = got /\ Len(Bytes) = m_size
                    /\ \A i \in 1..m_size : Bytes[i] = ByteAt(nodes, i - 1)
                    /\ m_position <= m_size /\ left = 0 /\ buf = <<>>
  BY DEF Quiet
<1>1. left = 0 /\ Len(buf) = 0 /\ m_position <= m_size /\ buf = <<>>
  BY DEF Locals
<1>2. m_position \in Nat /\ m_size \in Nat /\ got \in Seq(Byte)
  BY Members
<1>3. /\ Bytes = [i \in 1..SizeOf(m_size, m_position, buf) |-> Ith(nodes, m_position, buf, i)]
      /\ Len(Bytes) = SizeOf(m_size, m_position, buf)
      /\ Pos = m_position + Len(buf) + left
      /\ Out = got \o [k \in 1..left |-> ByteAt(nodes, m_position + k - 1)]
  BY SeenIs DEF SeenExact
<1>4. SizeOf(m_size, m_position, buf) = m_size
  BY <1>1, <1>2 DEF SizeOf, Larger
<1>5. \A i \in 1..m_size : Bytes[i] = ByteAt(nodes, i - 1)
  BY <1>1, <1>2, <1>3, <1>4 DEF Ith
<1>6. Out = got
  <2>1. [k \in 1..left |-> ByteAt(nodes, m_position + k - 1)] = <<>>
    BY <1>1
  <2> QED BY <1>2, <1>3, <2>1, ConcatEmptySeq
<1>7. Pos = m_position
  BY <1>1, <1>2, <1>3
<1> QED BY <1>1, <1>3, <1>4, <1>5, <1>6, <1>7

\* The same after a step.
LEMMA QuietNext == (CursorExact /\ Locals => Quiet)'
BY QuietIs, PTL

\* The bytes d are written at the position
Wrote(d) ==
  /\ Pos' = Pos + Len(d) /\ Out' = <<>>
  /\ Len(Bytes') = Larger(Len(Bytes), Pos + Len(d))
  /\ \A i \in 1..Len(Bytes') :
       Bytes'[i] = IF i > Pos /\ i <= Pos + Len(d) THEN d[i - Pos] ELSE Bytes[i]

\* A call of write() makes room for all it writes and has a node to start from.
LEMMA StartWriteIs ==
  ASSUME CursorExact, Locals, NEW data \in Seq(Byte), NEW value, StartWrite(data, value)
  PROVE  CursorExact' /\ Locals' /\ Wrote(data) /\ op' = "write"
<1> DEFINE n == Len(data)
           list == Grown(n)
<1>1. /\ op = "idle" /\ data # <<>> /\ nodes' = list
      /\ m_capacity' = m_capacity + Base * Missing(n)
      /\ m_cur' = CursorAfterGrowth(n) /\ op' = (IF m_cur' = 0 THEN "crashed" ELSE "write")
      /\ npos' = m_position % Base /\ buf' = data /\ got' = <<>>
      /\ UNCHANGED <<m_position, m_size, m_endian, left>>
  BY DEF StartWrite
<1>2. m_position \in Nat /\ m_size \in Nat /\ m_capacity \in Nat /\ m_endian \in -128..127
      /\ m_position <= m_capacity /\ m_size <= m_capacity /\ left \in Nat
  BY Members
<1>3. n \in Nat /\ n > 0
  BY <1>1
<1> HIDE DEF n
<1>4. /\ list \in Seq(Node) /\ m_capacity' = Base * Len(list)
      /\ m_position + n <= Base * Len(list) /\ m_capacity <= Base * Len(list)
      /\ \A p \in Nat : p < m_capacity => ByteAt(list, p) = ByteAt(nodes, p)
      /\ m_cur' = CursorFor(m_position, Len(list))
  BY <1>1, <1>3, GrownIs
<1> HIDE DEF list
<1>5. Len(list) \in Nat /\ Base * Len(list) \in Nat
  BY <1>4, BaseFacts
<1>6. op' = "write"
  <2>1. m_position # Base * Len(list) /\ m_position <= Base * Len(list)
    BY <1>2, <1>3, <1>4, <1>5
  <2>2. m_cur' # 0
    BY <1>2, <1>4, <1>5, <2>1, CursorForType
  <2> QED BY <1>1, <2>2
<1>7. CursorExact'
  <2>1. npos' \in 0..(Base - 1)
    BY <1>1, <1>2, InBase
  <2>2. m_position' \in Nat /\ m_size' \in Nat /\ m_endian' \in -128..127
        /\ m_position' <= m_capacity' /\ m_size' <= m_capacity' /\ left' \in Nat
    BY <1>1, <1>2, <1>3, <1>4, <1>5
  <2>3. nodes' \in Seq(Node) /\ m_capacity' = Base * Len(nodes')
        /\ m_cur' = CursorFor(m_position', Len(nodes')) /\ got' \in Seq(Byte)
        /\ buf' \in Seq(Byte)
    BY <1>1, <1>4
  <2> QED BY <1>6, <2>1, <2>2, <2>3, CursorNext
<1>8. left = 0 /\ Pos = m_position /\ Len(Bytes) = m_size /\ m_position <= m_size
      /\ \A i \in 1..m_size : Bytes[i] = ByteAt(nodes, i - 1)
  BY <1>1, QuietIs DEF Quiet
<1>9. Locals'
  <2>1. nodes' # <<>>
    <3>1. Len(nodes) >= 1 /\ Base * Len(nodes) = m_capacity /\ Len(nodes) \in Nat
      BY Members
    <3>2. Base * Len(list) > 0
      BY <1>2, <1>3, <1>4, <1>5
    <3>3. Len(list) # 0
      BY <1>5, <3>2, BaseFacts
    <3> QED BY <1>1, <3>3
  <2>2. m_position' + Len(buf') <= m_capacity' /\ buf' # <<>>
    BY <1>1, <1>4 DEF n
  <2> QED BY <1>1, <1>6, <1>8, <2>1, <2>2 DEF Locals
<1>10. Wrote(data)
  <2>1. /\ Len(Bytes') = SizeOf(m_size', m_position', buf')
        /\ Bytes' = [i \in 1..SizeOf(m_size', m_position', buf') |->
                        Ith(nodes', m_position', buf', i)]
        /\ Pos' = m_position' + Len(buf') + left'
        /\ Out' = got' \o [k \in 1..left' |-> ByteAt(nodes', m_position' + k - 1)]
    BY <1>7, <1>9, SeenPrime
  <2> DEFINE size == Larger(m_size, m_position + n)
  <2>2. SizeOf(m_size', m_position', buf') = size /\ size \in Nat
    BY <1>1, <1>2, <1>3, <1>8 DEF SizeOf, Larger, n
  <2>3. \A i \in 1..size : Bytes'[i] = Ith(list, m_position, data, i)
    BY <1>1, <2>1, <2>2
  <2>4. ASSUME NEW i \in 1..size
        PROVE  Ith(list, m_position, data, i)
                 = IF i > m_position /\ i <= m_position + n THEN data[i - m_position] ELSE Bytes[i]
    <3>1. CASE i > m_position /\ i <= m_position + n
      BY <3>1 DEF Ith, n
    <3>2. CASE ~(i > m_position /\ i <= m_position + n)
      <4>1. i \in 1..m_size
        BY <1>2, <1>3, <1>8, <3>2 DEF Larger
      <4>2. i - 1 \in Nat /\ i - 1 < m_capacity
        BY <1>2, <4>1
      <4>3. Ith(list, m_position, data, i) = ByteAt(list, i - 1)
        BY <3>2 DEF Ith, n
      <4> QED BY <1>4, <1>8, <3>2, <4>1, <4>2, <4>3
    <3> QED BY <3>1, <3>2
  <2>5. Out' = <<>>
    <3>1. [k \in 1..left' |-> ByteAt(nodes', m_position' + k - 1)] = <<>>
      BY <1>1, <1>8
    <3> QED BY <1>1, <2>1, <3>1
  <2>6. Pos' = m_position + n
    <3>1. Len(buf') = n /\ left' = 0 /\ m_position' = m_position
      BY <1>1, <1>8 DEF n
    <3> QED BY <1>2, <1>3, <2>1, <3>1
  <2> HIDE DEF size
  <2>7. Len(Bytes') = size /\ \A i \in 1..size : Bytes'[i] =
          IF i > m_position /\ i <= m_position + n THEN data[i - m_position] ELSE Bytes[i]
    BY <2>1, <2>2, <2>3, <2>4
  <2> QED BY <1>8, <2>5, <2>6, <2>7 DEF Wrote, n, size
<1> QED BY <1>6, <1>7, <1>9, <1>10

\* n bytes are read at the position
Fetched(n) ==
  /\ Bytes' = Bytes /\ Pos' = Pos + n /\ Pos + n <= Len(Bytes)
  /\ Out' = SubSeq(Bytes, Pos + 1, Pos + n)

\* read() of too much changes nothing; of no bytes at the end of the capacity it
\* dereferences the null m_cur
LEMMA EnterReadIs ==
  ASSUME CursorExact, Locals, op \in {"idle", "next"}, NEW size \in Nat, NEW r,
         EnterRead(size, r), UNCHANGED <<store, m_endian, buf>>
  PROVE  /\ CursorExact' /\ Locals'
         /\ \/ op' = "idle" /\ reader' = None /\ Still
            \/ size > 0 /\ op' = "read" /\ reader' = r /\ Fetched(size)
            \/ size = 0 /\ op' = "idle" /\ reader' = None /\ Fetched(0) /\ Out' = <<>>
            \/ size = 0 /\ op' = "crashed" /\ reader' = r /\ Fetched(0)
<1>1. /\ m_position \in Nat /\ m_size \in Nat /\ m_capacity \in Nat /\ m_size <= m_capacity
      /\ m_position <= m_capacity /\ npos \in 0..(Base - 1) /\ m_endian \in -128..127
  BY Members
<1>2. /\ nodes \in Seq(Node) /\ buf \in Seq(Byte) /\ got \in Seq(Byte)
      /\ m_capacity = Base * Len(nodes) /\ Len(nodes) \in Nat
      /\ m_cur = CursorFor(m_position, Len(nodes))
  BY Members
<1>3. /\ left = 0 /\ Pos = m_position /\ Len(Bytes) = m_size /\ m_position <= m_size
      /\ Out = got /\ \A i \in 1..m_size : Bytes[i] = ByteAt(nodes, i - 1)
      /\ buf = <<>>
  BY QuietIs DEF Quiet
<1>4. /\ UNCHANGED <<m_position, m_capacity, m_size, nodes, m_cur>>
      /\ m_endian' = m_endian /\ buf' = buf
  BY DEF store
<1>5. nodes # <<>>
  BY DEF Locals
<1>6. ASSUME op' \in {"idle", "read", "crashed"}, npos' \in 0..(Base - 1), left' \in Nat,
             got' \in Seq(Byte)
      PROVE  CursorExact'
  <2>1. m_cur' = CursorFor(m_position', Len(nodes')) /\ m_capacity' = Base * Len(nodes')
    BY <1>2, <1>4
  <2> QED BY <1>1, <1>2, <1>4, <1>6, <2>1, CursorNext
<1>7. ASSUME CursorExact', Locals' PROVE Bytes' = Bytes
  BY <1>4, <1>7, BytesAre
<1>8. ASSUME CursorExact', Locals' PROVE Pos' = m_position + left'
  <2>1. Pos' = m_position' + Len(buf') + left'
    BY <1>8, SeenPrime
  <2>2. Len(buf') = 0 /\ m_position' = m_position /\ left' \in Nat
    BY <1>3, <1>4, <1>8 DEF CursorExact, TypeOK
  <2> QED BY <1>1, <2>1, <2>2
<1>9. CASE size > m_size - m_position
  <2>1. op' = "idle" /\ reader' = None /\ UNCHANGED <<npos, left, got>>
    BY <1>9 DEF EnterRead, getReadSize
  <2>2. CursorExact'
    BY <1>1, <1>2, <1>3, <1>6, <2>1
  <2>3. Locals'
    BY <1>3, <1>4, <1>5, <2>1 DEF Locals
  <2>4. Out' = Out
    <3>1. Out' = got'
      BY <2>1, <2>2, <2>3, QuietNext DEF Quiet
    <3> QED BY <1>3, <2>1, <3>1
  <2>5. Pos' = Pos
    BY <1>1, <1>3, <1>8, <2>1, <2>2, <2>3
  <2> QED BY <1>7, <2>1, <2>2, <2>3, <2>4, <2>5 DEF Still
<1>10. CASE ~(size > m_size - m_position)
  <2>1. /\ op' = (IF m_cur = 0 THEN "crashed" ELSE IF size = 0 THEN "idle" ELSE "read")
        /\ reader' = (IF op' = "idle" THEN None ELSE r)
        /\ npos' = (IF op' = "read" THEN m_position % Base ELSE 0)
        /\ left' = (IF op' = "idle" THEN 0 ELSE size)
        /\ got' = <<>>
    BY <1>10 DEF EnterRead, getReadSize
  <2>2. m_position + size <= m_size
    BY <1>1, <1>10
  <2>3. m_cur = 0 <=> m_position = m_capacity
    <3>1. m_position <= Base * Len(nodes)
      BY <1>1, <1>2
    <3> QED BY <1>1, <1>2, <3>1, CursorForType
  <2>4. m_cur = 0 => size = 0
    BY <1>1, <2>2, <2>3
  <2>5. left' = size
    BY <2>1
  <2>6. CursorExact'
    <3>1. npos' \in 0..(Base - 1) /\ op' \in {"idle", "read", "crashed"}
      <4>1. m_position % Base \in 0..(Base - 1)
        BY <1>1, InBase
      <4>2. 0 \in 0..(Base - 1)
        BY BaseFacts
      <4> QED BY <2>1, <4>1, <4>2
    <3>2. got' \in Seq(Byte)
      BY <2>1
    <3> QED BY <1>6, <2>5, <3>1, <3>2
  <2>7. Locals'
    BY <1>3, <1>4, <1>5, <2>1, <2>2, <2>3, <2>4, <2>5 DEF Locals
  <2>8. Fetched(size)
    <3>1. Bytes' = Bytes /\ Pos' = Pos + size /\ Pos + size <= Len(Bytes)
      BY <1>3, <1>7, <1>8, <2>2, <2>5, <2>6, <2>7
    <3>2. Out' = <<>> \o [k \in 1..size |-> ByteAt(nodes, m_position + k - 1)]
          /\ Out' \in Seq(Byte) /\ Len(Out') = 0 + size
      <4>1. /\ Out' = got' \o [k \in 1..left' |-> ByteAt(nodes', m_position' + k - 1)]
            /\ Out' \in Seq(Byte) /\ Len(Out') = Len(got') + left'
        BY <2>6, <2>7, SeenPrime
      <4> QED BY <1>4, <2>1, <2>5, <4>1
    <3> DEFINE s == [k \in 1..size |-> ByteAt(nodes, m_position + k - 1)]
    <3>3. s \in Seq(Byte)
      <4>1. m_position + size <= Base * Len(nodes)
        BY <1>1, <1>2, <2>2
      <4> QED BY <1>1, <1>2, <4>1, FromType DEF From
    <3>4. Out' = s
      <4> HIDE DEF s
      <4>1. Out' = <<>> \o s
        BY <3>2 DEF s
      <4> QED BY <3>3, <4>1, ConcatEmptySeq
    <3>5. SubSeq(Bytes, m_position + 1, m_position + size) = [k \in 1..size |-> Bytes[m_position + k]]
      <4>1. Bytes \in Seq(Byte)
        BY SeenIs DEF SeenExact
      <4>2. m_position + size <= Len(Bytes)
        BY <1>3, <2>2
      <4> QED BY <1>1, <4>1, <4>2, SubSeqIs
    <3>6. ASSUME NEW k \in 1..size PROVE Bytes[m_position + k] = ByteAt(nodes, m_position + k - 1)
      <4>1. m_position + k \in 1..m_size /\ (m_position + k) - 1 = m_position + k - 1
        BY <1>1, <2>2
      <4> QED BY <1>3, <4>1
    <3>7. Out' = SubSeq(Bytes, Pos + 1, Pos + size)
      BY <1>3, <3>4, <3>5, <3>6
    <3> QED BY <3>1, <3>7 DEF Fetched
  <2>9. size = 0 /\ op' = "idle" => Out' = <<>>
    <3>1. op' = "idle" => Out' = got'
      BY <2>6, <2>7, QuietNext DEF Quiet
    <3> QED BY <2>1, <3>1
  <2>10. size = 0 \/ size > 0
    OBVIOUS
  <2> QED BY <2>1, <2>4, <2>6, <2>7, <2>8, <2>9, <2>10
<1> QED BY <1>9, <1>10

\* A typed reader returns
Returned == Bytes' = Bytes /\ Pos' = Pos /\ Out' = <<>>

\* A typed reader that returns leaves the array alone.
LEMMA ReturnIs ==
  ASSUME CursorExact, Locals, op = "next", op' = "idle", got' = <<>>,
         UNCHANGED <<store, m_endian, buf, npos, left>>
  PROVE  CursorExact' /\ Locals' /\ Returned
<1>1. /\ m_position \in Nat /\ m_size \in Nat /\ m_capacity \in Nat /\ m_size <= m_capacity
      /\ m_position <= m_capacity /\ npos \in 0..(Base - 1) /\ m_endian \in -128..127
      /\ left \in Nat
  BY Members
<1>2. /\ nodes \in Seq(Node) /\ buf \in Seq(Byte)
      /\ m_capacity = Base * Len(nodes) /\ m_cur = CursorFor(m_position, Len(nodes))
  BY Members
<1>3. left = 0 /\ Pos = m_position /\ m_position <= m_size /\ buf = <<>>
  BY QuietIs DEF Quiet
<1>4. /\ UNCHANGED <<m_position, m_capacity, m_size, nodes, m_cur>>
      /\ m_endian' = m_endian /\ buf' = buf /\ npos' = npos /\ left' = left
  BY DEF store
<1>5. CursorExact'
  <2>1. m_cur' = CursorFor(m_position', Len(nodes')) /\ m_capacity' = Base * Len(nodes')
    BY <1>2, <1>4
  <2>2. got' \in Seq(Byte)
    OBVIOUS
  <2> QED BY <1>1, <1>2, <1>4, <2>1, <2>2, CursorNext
<1>6. Locals'
  BY <1>3, <1>4 DEF Locals
<1>7. Bytes' = Bytes
  BY <1>4, <1>5, <1>6, BytesAre
<1>8. Pos' = m_position' /\ Out' = got'
  BY <1>5, <1>6, QuietNext DEF Quiet
<1> QED BY <1>3, <1>4, <1>5, <1>6, <1>7, <1>8 DEF Returned

\* The position is set, over what memory holds
Moved(v) ==
  /\ Pos' = v /\ Out' = <<>> /\ Len(Bytes') = Larger(Len(Bytes), v)
  /\ \A i \in 1..Len(Bytes) : Bytes'[i] = Bytes[i]

\* setPosition() finds the node of its position.
LEMMA SetPositionIs ==
  ASSUME CursorExact, Locals, NEW v \in Nat, SetPosition(v)
  PROVE  CursorExact' /\ Locals' /\ Moved(v)
<1>1. /\ op = "idle" /\ v <= m_capacity /\ m_position' = v /\ m_size' = Larger(m_size, v)
      /\ m_cur' = NodeOf(v, nodes) /\ got' = <<>>
      /\ UNCHANGED <<m_capacity, nodes, m_endian, op, npos, buf, left>>
  BY DEF SetPosition
<1>2. /\ m_size \in Nat /\ m_capacity \in Nat /\ m_size <= m_capacity
      /\ npos \in 0..(Base - 1) /\ m_endian \in -128..127 /\ left \in Nat
  BY Members
<1>3. /\ nodes \in Seq(Node) /\ buf \in Seq(Byte) /\ m_capacity = Base * Len(nodes)
  BY Members
<1>4. left = 0 /\ buf = <<>> /\ Len(Bytes) = m_size
      /\ \A i \in 1..m_size : Bytes[i] = ByteAt(nodes, i - 1)
  BY <1>1, QuietIs DEF Quiet
<1>5. m_size' \in Nat /\ m_size' <= m_capacity /\ v <= m_size' /\ m_size <= m_size'
  BY <1>1, <1>2 DEF Larger
<1>6. nodes # <<>>
  BY DEF Locals
<1>7. CursorExact'
  <2>1. NodeOf(v, nodes) = CursorFor(v, Len(nodes))
    <3>1. v <= Base * Len(nodes)
      BY <1>1, <1>3
    <3> QED BY <1>3, <1>6, <3>1, NodeOfIs
  <2>2. m_cur' = CursorFor(m_position', Len(nodes')) /\ m_capacity' = Base * Len(nodes')
    BY <1>1, <1>3, <2>1
  <2>3. got' \in Seq(Byte) /\ nodes' \in Seq(Node) /\ buf' \in Seq(Byte)
    BY <1>1, <1>3
  <2>4. m_position' \in Nat /\ m_size' \in Nat /\ m_endian' \in -128..127
        /\ m_position' <= m_capacity' /\ m_size' <= m_capacity' /\ left' \in Nat
        /\ npos' \in 0..(Base - 1) /\ op' = "idle"
    BY <1>1, <1>2, <1>5
  <2> QED BY <2>2, <2>3, <2>4, CursorNext
<1>8. Locals'
  BY <1>1, <1>4, <1>5, <1>6 DEF Locals
<1>9. /\ Pos' = m_position' /\ Out' = got' /\ Len(Bytes') = m_size'
      /\ \A i \in 1..m_size' : Bytes'[i] = ByteAt(nodes', i - 1)
  BY <1>1, <1>7, <1>8, QuietNext DEF Quiet
<1>10. ASSUME NEW i \in 1..m_size PROVE Bytes'[i] = Bytes[i]
  <2>1. i \in 1..m_size'
    BY <1>2, <1>5
  <2> QED BY <1>1, <1>4, <1>9, <2>1
<1> QED BY <1>1, <1>4, <1>7, <1>8, <1>9, <1>10 DEF Moved

\* clear() keeps the first node and nothing of its bytes.
LEMMA ClearIs ==
  ASSUME CursorExact, Locals, Clear
  PROVE  CursorExact' /\ Locals' /\ Bytes' = <<>> /\ Pos' = 0 /\ Out' = <<>>
<1>1. /\ op = "idle" /\ m_position' = 0 /\ m_size' = 0 /\ m_capacity' = Base
      /\ nodes' = SubSeq(nodes, 1, 1) /\ m_cur' = 1 /\ got' = <<>>
      /\ UNCHANGED <<m_endian, op, npos, buf, left>>
  BY DEF Clear
<1>2. /\ npos \in 0..(Base - 1) /\ m_endian \in -128..127 /\ left \in Nat
      /\ buf \in Seq(Byte) /\ nodes \in Seq(Node) /\ Len(nodes) >= 1 /\ Len(nodes) \in Nat
  BY Members
<1>3. nodes' \in Seq(Node) /\ Len(nodes') = 1
  <2>1. nodes' = SubSeq(nodes, 0 + 1, 0 + 1) /\ 0 + 1 <= Len(nodes)
    BY <1>1, <1>2
  <2> QED BY <1>2, <2>1, SubSeqIs
<1>4. left = 0 /\ buf = <<>>
  BY <1>1, QuietIs DEF Quiet
<1>5. CursorExact'
  <2>1. m_cur' = CursorFor(m_position', Len(nodes')) /\ m_capacity' = Base * Len(nodes')
    <3>1. 0 \div Base = 0 /\ Base * 1 = Base /\ 0 # Base
      <4>1. 0 \div Base = 0
        BY BaseFacts, InBase
      <4> QED BY <4>1, BaseFacts
    <3> QED BY <1>1, <1>3, <3>1 DEF CursorFor
  <2>2. m_position' \in Nat /\ m_size' \in Nat /\ m_endian' \in -128..127
        /\ m_position' <= m_capacity' /\ m_size' <= m_capacity' /\ left' \in Nat
        /\ npos' \in 0..(Base - 1) /\ op' = "idle" /\ got' \in Seq(Byte) /\ buf' \in Seq(Byte)
    BY <1>1, <1>2, BaseFacts
  <2> QED BY <1>3, <2>1, <2>2, CursorNext
<1>6. Locals'
  <2>1. nodes' # <<>>
    BY <1>3
  <2> QED BY <1>1, <1>4, <2>1 DEF Locals
<1>7. Pos' = m_position' /\ Out' = got' /\ Len(Bytes') = m_size'
  BY <1>1, <1>5, <1>6, QuietNext DEF Quiet
<1>8. Bytes' \in Seq(Byte)
  BY <1>5, <1>6, SeenPrime
<1>9. Bytes' = <<>>
  BY <1>1, <1>7, <1>8, EmptySeq
<1> QED BY <1>1, <1>5, <1>6, <1>7, <1>9

\* The byte order is no matter of the bytes there are.
LEMMA SetIsLittleEndianIs ==
  ASSUME CursorExact, Locals, NEW b \in BOOLEAN, SetIsLittleEndian(b)
  PROVE  CursorExact' /\ Locals' /\ Still
<1>1. /\ UNCHANGED <<m_position, m_capacity, m_size, nodes, m_cur>> /\ op' = op
      /\ npos' = npos /\ buf' = buf /\ left' = left /\ got' = got /\ reader' = reader
  BY DEF SetIsLittleEndian, store, locals, typed
<1>2. m_endian' \in -128..127
  BY DEF SetIsLittleEndian, Int8, LITTLE_ENDIAN, BIG_ENDIAN
<1>3. CursorExact'
  BY <1>1, <1>2 DEF CursorExact, TypeOK
<1>4. Locals'
  BY <1>1 DEF Locals
<1>5. Bytes' = Bytes
  BY <1>1, <1>3, <1>4, BytesAre
<1>6. Pos' = Pos /\ Out' = Out
  BY <1>1 DEF Pos, Out, Content, Flat, Larger
<1> QED BY <1>3, <1>4, <1>5, <1>6 DEF Still

-----------------------------------------------------------------------------
(***************************************************************************)
(* The streams                                                             *)
(***************************************************************************)

\* The loop that starts at the node and the index of a position finds the bytes from
\* this position on.
LEMMA CellIs ==
  ASSUME NEW p \in Nat, NEW k \in Nat \ {0}
  PROVE  Cell((p \div Base) + 1, p % Base, k)
           = <<((p + k - 1) \div Base) + 1, (p + k - 1) % Base>>
<1> DEFINE q == p \div Base
           r == p % Base
           x == r + k - 1
           y == p + k - 1
           j == x \div Base
           s == x % Base
<1>1. q \in Nat /\ r \in 0..(Base - 1) /\ p = Base * q + r
  BY InBase
<1> HIDE DEF q, r
<1>2. x \in Nat /\ y \in Nat
  BY <1>1, BaseFacts
<1>3. j \in Nat /\ s \in 0..(Base - 1) /\ x = Base * j + s
  BY <1>2, InBase
<1>4. y = Base * q + x
  <2>1. Base * q \in Nat
    BY <1>1, BaseFacts
  <2> QED BY <1>1, <2>1, BaseFacts
<1> HIDE DEF x, y, j, s
<1>5. y = Base * (q + j) + s
  <2>1. Base * (q + j) = Base * q + Base * j /\ Base * q \in Nat /\ Base * j \in Nat
    BY <1>1, <1>3, BaseFacts
  <2> QED BY <1>3, <1>4, <2>1, BaseFacts
<1>6. y \div Base = q + j /\ y % Base = s
  <2> DEFINE d == q + j
  <2>1. d \in Nat
    BY <1>1, <1>3
  <2> HIDE DEF d
  <2>2. y = Base * d + s /\ y \in Nat /\ s \in 0..(Base - 1)
    BY <1>2, <1>3, <1>5 DEF d
  <2>3. y \div Base = d /\ y % Base = s
    BY <2>1, <2>2, BaseFacts, DivUnique
  <2> QED BY <2>3 DEF d
<1>7. Cell(q + 1, r, k) = <<(q + 1) + j, s>>
  BY DEF Cell, x, j, s
<1>8. (q + 1) + j = (q + j) + 1
  BY <1>1, <1>3
<1> QED BY <1>6, <1>7, <1>8 DEF y, q, r

\* The cells of n bytes from position p on
LEMMA CellsFrom ==
  ASSUME NEW p \in Nat, NEW n \in Nat
  PROVE  Cells[<<n, (p \div Base) + 1, p % Base>>]
           = [k \in 1..n |-> <<((p + k - 1) \div Base) + 1, (p + k - 1) % Base>>]
<1> DEFINE node == (p \div Base) + 1
           off == p % Base
<1>1. node \in Nat /\ off \in 0..(Base - 1)
  BY InBase
<1>2. \A k \in 1..n : Cell(node, off, k)
                       = <<((p + k - 1) \div Base) + 1, (p + k - 1) % Base>>
  <2>1. \A k \in 1..n : k \in Nat \ {0}
    OBVIOUS
  <2> QED BY <2>1, CellIs
<1> HIDE DEF node, off
<1>3. Cells[<<n, node, off>>] = [k \in 1..n |-> Cell(node, off, k)]
  BY <1>1, CellsAre
<1> QED BY <1>2, <1>3 DEF node, off

\* A position has one node and one index.
LEMMA CellsDiffer ==
  ASSUME NEW p \in Nat, NEW q \in Nat, p \div Base = q \div Base, p % Base = q % Base
  PROVE  p = q
<1>1. p = Base * (p \div Base) + (p % Base)
  BY InBase
<1>2. q = Base * (q \div Base) + (q % Base)
  BY InBase
<1> QED BY <1>1, <1>2

\* A function on 1..n is a sequence.
LEMMA AsSeq ==
  ASSUME NEW S, NEW n \in Nat, NEW f \in [1..n -> S]
  PROVE  f \in Seq(S) /\ Len(f) = n
BY IsASeq, LenProperties

\* What the kernel has filled
Filled(list, data, cells) ==
  [k \in 1..Len(list) |-> [j \in 0..(Base - 1) |->
     IF \E i \in 1..Len(data) : cells[i] = <<k, j>>
       THEN data[CHOOSE i \in 1..Len(data) : cells[i] = <<k, j>>]
       ELSE list[k][j]]]

\* The first n cells are those of the bytes from a position on
Lead(cells, at, n) ==
  \A i \in 1..n : cells[i] = <<((at + i - 1) \div Base) + 1, (at + i - 1) % Base>>

\* What the kernel puts into the cells of the buffers is in the list from the position
\* on, and nothing else of the list has changed.
LEMMA FilledIs ==
  ASSUME NEW list \in Seq(Node), NEW at \in Nat, NEW data \in Seq(Byte), NEW cells,
         Lead(cells, at, Len(data))
  PROVE  /\ Filled(list, data, cells) \in Seq(Node)
         /\ Len(Filled(list, data, cells)) = Len(list)
         /\ \A p \in Nat : p < Base * Len(list) =>
              ByteAt(Filled(list, data, cells), p) = IF p >= at /\ p < at + Len(data) THEN data[p - at + 1]
                                ELSE ByteAt(list, p)
<1> DEFINE n == Len(data)
           full == Filled(list, data, cells)
           At(k, j, i) == cells[i] = <<k, j>>
           Val(k, j) == IF \E i \in 1..n : At(k, j, i)
                          THEN data[CHOOSE i \in 1..n : At(k, j, i)] ELSE list[k][j]
<1>1. n \in Nat /\ Len(list) \in Nat
  OBVIOUS
<1>2. full = [k \in 1..Len(list) |-> [j \in 0..(Base - 1) |-> Val(k, j)]]
  BY DEF Filled
<1> HIDE DEF full
<1>3. ASSUME NEW k \in 1..Len(list), NEW j \in 0..(Base - 1) PROVE Val(k, j) \in Byte
  <2>1. CASE \E i \in 1..n : At(k, j, i)
    <3> HIDE DEF At, n
    <3>1. (CHOOSE i \in 1..n : At(k, j, i)) \in 1..n
      BY <2>1
    <3> QED BY <2>1, <3>1 DEF n
  <2>2. CASE ~\E i \in 1..n : At(k, j, i)
    <3>1. list[k] \in Node
      OBVIOUS
    <3>2. list[k][j] \in Byte
      BY <3>1 DEF Node
    <3> QED BY <2>2, <3>2
  <2> QED BY <2>1, <2>2
<1> HIDE DEF Val
<1>4. full \in [1..Len(list) -> Node]
  <2>1. \A k \in 1..Len(list) : [j \in 0..(Base - 1) |-> Val(k, j)] \in Node
    BY <1>3 DEF Node
  <2> QED BY <1>2, <2>1
<1>5. full \in Seq(Node) /\ Len(full) = Len(list)
  BY <1>1, <1>4, AsSeq
<1>6. ASSUME NEW p \in Nat, p < Base * Len(list)
      PROVE  ByteAt(full, p) = IF p >= at /\ p < at + n THEN data[p - at + 1] ELSE ByteAt(list, p)
  <2> DEFINE k == (p \div Base) + 1
             j == p % Base
  <2>1. k \in 1..Len(list) /\ j \in 0..(Base - 1)
    BY <1>6, ByteAtType
  <2>2. ByteAt(full, p) = Val(k, j) /\ ByteAt(list, p) = list[k][j]
    <3>1. ByteAt(full, p) = full[k][j] /\ ByteAt(list, p) = list[k][j]
      BY DEF ByteAt
    <3> HIDE DEF k, j
    <3> QED BY <1>2, <2>1, <3>1
  <2>3. ASSUME NEW i \in 1..n PROVE At(k, j, i) <=> at + i - 1 = p
    <3> DEFINE y == at + i - 1
    <3>1. y \in Nat
      OBVIOUS
    <3>2. y \div Base \in Nat /\ p \div Base \in Nat
      BY <3>1, InBase
    <3>3. cells[i] = <<(y \div Base) + 1, y % Base>>
      BY DEF Lead
    <3> HIDE DEF y
    <3>4. At(k, j, i) <=> (y \div Base = p \div Base /\ y % Base = p % Base)
      BY <3>2, <3>3
    <3>5. At(k, j, i) <=> y = p
      BY <3>1, <3>4, CellsDiffer
    <3> QED BY <3>5 DEF y
  <2> HIDE DEF k, j, At
  <2>4. CASE p >= at /\ p < at + n
    <3> DEFINE i == p - at + 1
    <3>1. i \in 1..n /\ at + i - 1 = p
      BY <1>1, <2>4
    <3>2. ASSUME NEW m \in 1..n, At(k, j, m) PROVE m = i
      <4>1. at + m - 1 = p
        BY <2>3, <3>2
      <4> QED BY <1>1, <4>1
    <3> HIDE DEF i
    <3>3. At(k, j, i)
      BY <2>3, <3>1
    <3>4. (CHOOSE m \in 1..n : At(k, j, m)) = i
      BY <3>1, <3>2, <3>3
    <3> QED BY <2>2, <2>4, <3>1, <3>3, <3>4 DEF Val, i
  <2>5. CASE ~(p >= at /\ p < at + n)
    <3>1. ASSUME NEW i \in 1..n PROVE ~At(k, j, i)
      <4>1. at + i - 1 # p
        BY <1>1, <2>5
      <4> QED BY <2>3, <4>1
    <3> QED BY <2>2, <2>5, <3>1 DEF Val
  <2> QED BY <2>4, <2>5
<1> QED BY <1>5, <1>6 DEF n, full

\* SocketStream::read writes what the kernel delivered, and only that.
LEMMA StreamReadIs ==
  ASSUME CursorExact, Locals, NEW length \in Nat, NEW data \in Seq(Byte),
         StreamRead(length, data)
  PROVE  /\ CursorExact' /\ Locals'
         /\ data = <<>> => Still
         /\ data # <<>> => Wrote(data)
<1> DEFINE n == Len(data)
           list == Grown(length)
           c == CursorAfterGrowth(length)
           cells == Cells[<<length, c, m_position % Base>>]
           end == m_position + n
<1>1. /\ op = "idle" /\ length > 0 /\ n <= length
      /\ nodes' = Filled(list, data, cells)
      /\ m_capacity' = m_capacity + Base * Missing(length)
      /\ UNCHANGED <<m_endian, op, npos, buf, left>>
  BY DEF StreamRead, Filled
<1>2. data = <<>> => /\ m_cur' = c
                     /\ UNCHANGED <<m_position, m_size, got>>
  BY DEF StreamRead
<1>3. data # <<>> => /\ m_position' = end /\ m_size' = Larger(m_size, end)
                     /\ m_cur' = NodeOf(end, list) /\ got' = <<>>
  BY DEF StreamRead
<1>4. /\ m_position \in Nat /\ m_size \in Nat /\ m_capacity \in Nat /\ m_size <= m_capacity
      /\ npos \in 0..(Base - 1) /\ m_endian \in -128..127 /\ left \in Nat
      /\ m_position <= m_capacity
  BY Members
<1>5. buf \in Seq(Byte) /\ got \in Seq(Byte)
  BY Members
<1>6. /\ left = 0 /\ buf = <<>> /\ Len(Bytes) = m_size /\ m_position <= m_size
      /\ Pos = m_position /\ Out = got
      /\ \A i \in 1..m_size : Bytes[i] = ByteAt(nodes, i - 1)
  BY <1>1, QuietIs DEF Quiet
<1>7. n \in Nat /\ (data = <<>> <=> n = 0) /\ end \in Nat /\ end >= m_position
  BY <1>4
<1>8. /\ list \in Seq(Node) /\ m_capacity' = Base * Len(list)
      /\ m_position + length <= Base * Len(list) /\ m_capacity <= Base * Len(list)
      /\ \A p \in Nat : p < m_capacity => ByteAt(list, p) = ByteAt(nodes, p)
      /\ c = CursorFor(m_position, Len(list))
  BY <1>1, GrownIs
<1> HIDE DEF list, c
<1>9. Len(list) \in Nat /\ Base * Len(list) \in Nat
  BY <1>8, BaseFacts
<1>10. c = (m_position \div Base) + 1 /\ end <= Base * Len(list)
  <2>1. m_position # Base * Len(list) /\ end <= Base * Len(list)
    BY <1>1, <1>4, <1>7, <1>8, <1>9
  <2> QED BY <1>8, <2>1 DEF CursorFor
<1>11. Lead(cells, m_position, n)
  <2>1. cells = [i \in 1..length |-> <<((m_position + i - 1) \div Base) + 1,
                                       (m_position + i - 1) % Base>>]
    BY <1>4, <1>10, CellsFrom
  <2>2. \A i \in 1..n : i \in 1..length
    BY <1>1, <1>7
  <2> QED BY <2>1, <2>2 DEF Lead
<1> HIDE DEF cells
<1>12. /\ nodes' \in Seq(Node) /\ Len(nodes') = Len(list)
       /\ \A p \in Nat : p < Base * Len(list) =>
            ByteAt(nodes', p) = IF p >= m_position /\ p < end THEN data[p - m_position + 1]
                                ELSE ByteAt(list, p)
  <2>1. m_position \in Nat /\ list \in Seq(Node) /\ nodes' = Filled(list, data, cells)
    BY <1>1, <1>4, <1>8
  <2> QED BY <1>11, <2>1, FilledIs
<1> HIDE DEF n, end
<1>13. m_position' \in Nat /\ m_position' <= Base * Len(list)
       /\ m_size' \in Nat /\ m_size' <= Base * Len(list) /\ m_position' <= m_size'
       /\ got' \in Seq(Byte)
  <2>1. CASE data = <<>>
    BY <1>2, <1>4, <1>5, <1>6, <1>8, <1>9, <2>1
  <2>2. CASE data # <<>>
    <3>1. m_position' = end /\ m_size' = Larger(m_size, end) /\ got' = <<>>
      BY <1>3, <2>2
    <3>2. end \in Nat /\ end <= Base * Len(list) /\ m_size \in Nat /\ m_size <= Base * Len(list)
      BY <1>4, <1>7, <1>8, <1>9, <1>10
    <3> QED BY <1>9, <3>1, <3>2 DEF Larger
  <2> QED BY <2>1, <2>2
<1>14. list # <<>>
  <2>1. Base * Len(list) > 0
    BY <1>1, <1>4, <1>8, <1>9
  <2> QED BY <1>9, <2>1, BaseFacts
<1>15. m_cur' = CursorFor(m_position', Len(nodes'))
  <2>1. CASE data = <<>>
    BY <1>2, <1>8, <1>12, <2>1
  <2>2. CASE data # <<>>
    <3>1. NodeOf(end, list) = CursorFor(end, Len(list))
      BY <1>7, <1>8, <1>10, <1>14, NodeOfIs
    <3> QED BY <1>3, <1>12, <2>2, <3>1
  <2> QED BY <2>1, <2>2
<1>16. CursorExact'
  <2>1. m_capacity' = Base * Len(nodes') /\ m_position' <= m_capacity' /\ m_size' <= m_capacity'
    BY <1>8, <1>12, <1>13
  <2>2. m_endian' \in -128..127 /\ op' = "idle" /\ npos' \in 0..(Base - 1) /\ left' \in Nat
        /\ buf' \in Seq(Byte) /\ got' \in Seq(Byte)
    BY <1>1, <1>4, <1>5, <1>13
  <2> QED BY <1>12, <1>13, <1>15, <2>1, <2>2, CursorNext
<1>17. Locals'
  <2>1. nodes' # <<>>
    BY <1>9, <1>12, <1>14
  <2> QED BY <1>1, <1>6, <1>13, <2>1 DEF Locals
<1>18. /\ Pos' = m_position' /\ Out' = got' /\ Len(Bytes') = m_size'
       /\ \A i \in 1..m_size' : Bytes'[i] = ByteAt(nodes', i - 1)
  BY <1>1, <1>16, <1>17, QuietNext DEF Quiet
<1>19. ASSUME NEW i \in 1..m_size'
       PROVE  Bytes'[i] = IF i > m_position /\ i <= end THEN data[i - m_position] ELSE Bytes[i]
  <2> DEFINE p == i - 1
  <2>1. p \in Nat /\ p < Base * Len(list) /\ p - m_position + 1 = i - m_position
        /\ (p >= m_position <=> i > m_position) /\ (p < end <=> i <= end)
    BY <1>4, <1>7, <1>9, <1>13
  <2>2. Bytes'[i] = ByteAt(nodes', p)
    BY <1>18
  <2> HIDE DEF p
  <2>3. Bytes'[i] = IF i > m_position /\ i <= end THEN data[i - m_position] ELSE ByteAt(list, p)
    BY <1>12, <2>1, <2>2
  <2>4. ASSUME ~(i > m_position /\ i <= end) PROVE ByteAt(list, p) = Bytes[i]
    <3>1. i \in 1..m_size
      <4>1. m_size' = m_size \/ m_size' = Larger(m_size, end)
        BY <1>2, <1>3
      <4>2. m_size' \in {m_size, end}
        BY <4>1 DEF Larger
      <4> QED BY <1>4, <1>6, <1>7, <1>13, <2>4, <4>2
    <3>2. p < m_capacity /\ i - 1 = p
      BY <1>4, <3>1 DEF p
    <3> QED BY <1>6, <1>8, <2>1, <3>1, <3>2
  <2> QED BY <2>3, <2>4
<1>20. ASSUME data = <<>> PROVE Still
  <2>1. Len(Bytes') = m_size /\ Pos' = Pos /\ Out' = Out
    BY <1>2, <1>6, <1>18, <1>20
  <2>2. Bytes \in Seq(Byte) /\ Bytes' \in Seq(Byte)
    BY <1>16, <1>17, SeenIs, SeenPrime DEF SeenExact
  <2>3. ASSUME NEW i \in 1..m_size PROVE Bytes'[i] = Bytes[i]
    <3>1. i \in 1..m_size' /\ ~(i > m_position /\ i <= end)
      BY <1>2, <1>4, <1>7, <1>20 DEF end
    <3> QED BY <1>19, <3>1
  <2>4. Bytes' = Bytes
    BY <1>6, <2>1, <2>2, <2>3, SeqEqual
  <2> QED BY <2>1, <2>4 DEF Still
<1>21. ASSUME data # <<>> PROVE Wrote(data)
  <2>1. Pos' = m_position + n /\ Out' = <<>> /\ Len(Bytes') = Larger(m_size, m_position + n)
    BY <1>3, <1>18, <1>21 DEF end
  <2>2. \A i \in 1..Len(Bytes') :
          Bytes'[i] = IF i > m_position /\ i <= m_position + n THEN data[i - m_position] ELSE Bytes[i]
    BY <1>18, <1>19 DEF end
  <2> QED BY <1>6, <2>1, <2>2 DEF Wrote, n
<1> QED BY <1>16, <1>17, <1>20, <1>21

\* SocketStream::write sends the bytes from the position on, and moves it over them.
LEMMA StreamWriteIs ==
  ASSUME CursorExact, Locals, NEW length \in Nat, NEW n \in Nat, StreamWrite(length, n)
  PROVE  CursorExact' /\ Locals' /\ Fetched(n)
<1> DEFINE m == Smaller(length, getReadSize)
           cells == getReadBuffers(length)
<1>1. /\ op = "idle" /\ n > 0 /\ n <= Len(cells)
      /\ got' = [i \in 1..n |-> nodes[cells[i][1]][cells[i][2]]]
      /\ m_position' = m_position + n /\ m_cur' = NodeOf(m_position', nodes)
      /\ UNCHANGED <<m_capacity, m_size, nodes, m_endian, op, npos, buf, left>>
  BY DEF StreamWrite
<1>2. /\ m_position \in Nat /\ m_size \in Nat /\ m_capacity \in Nat /\ m_size <= m_capacity
      /\ npos \in 0..(Base - 1) /\ m_endian \in -128..127 /\ left \in Nat
      /\ m_position <= m_capacity
  BY Members
<1>3. /\ nodes \in Seq(Node) /\ buf \in Seq(Byte) /\ m_capacity = Base * Len(nodes)
      /\ m_cur = CursorFor(m_position, Len(nodes))
  BY Members
<1>4. /\ left = 0 /\ buf = <<>> /\ Len(Bytes) = m_size /\ m_position <= m_size
      /\ Pos = m_position
      /\ \A i \in 1..m_size : Bytes[i] = ByteAt(nodes, i - 1)
  BY <1>1, QuietIs DEF Quiet
<1>5. m \in Nat /\ m <= m_size - m_position
  BY <1>2, <1>4 DEF Smaller, getReadSize
<1>6. m # 0
  <2>1. m = 0 => cells = <<>>
    BY DEF getReadBuffers
  <2> QED BY <1>1, <2>1
<1>7. cells = [k \in 1..m |-> <<((m_position + k - 1) \div Base) + 1,
                                (m_position + k - 1) % Base>>]
  <2>1. cells = Cells[<<m, m_cur, m_position % Base>>]
    BY <1>6 DEF getReadBuffers
  <2>2. m_cur = (m_position \div Base) + 1
    <3>1. m_position # Base * Len(nodes)
      BY <1>2, <1>3, <1>5, <1>6
    <3> QED BY <1>3, <3>1 DEF CursorFor
  <2> HIDE DEF m
  <2> QED BY <1>2, <1>5, <2>1, <2>2, CellsFrom
<1> HIDE DEF m
<1>8. n <= m
  <2>1. Len(cells) = m
    BY <1>5, <1>7
  <2> QED BY <1>1, <2>1
<1> HIDE DEF cells
<1>9. m_position + n <= m_size /\ m_position + n \in Nat
      /\ m_position + n <= m_capacity
  BY <1>2, <1>5, <1>8
<1>10. got' = From(nodes, m_position, n)
  <2>1. ASSUME NEW i \in 1..n
        PROVE  nodes[cells[i][1]][cells[i][2]] = ByteAt(nodes, m_position + i - 1)
    <3>1. i \in 1..m
      BY <1>5, <1>8
    <3>2. cells[i] = <<((m_position + i - 1) \div Base) + 1, (m_position + i - 1) % Base>>
      BY <1>7, <3>1
    <3> QED BY <3>2 DEF ByteAt
  <2> QED BY <1>1, <2>1 DEF From
<1>11. got' \in Seq(Byte)
  <2>1. m_position + n <= Base * Len(nodes)
    BY <1>3, <1>9
  <2> QED BY <1>2, <1>3, <1>10, <2>1, FromType
<1>12. nodes # <<>>
  BY DEF Locals
<1>13. CursorExact'
  <2>1. m_cur' = CursorFor(m_position', Len(nodes')) /\ m_capacity' = Base * Len(nodes')
    <3>1. m_position + n <= Base * Len(nodes)
      BY <1>3, <1>9
    <3>2. NodeOf(m_position + n, nodes) = CursorFor(m_position + n, Len(nodes))
      BY <1>3, <1>9, <1>12, <3>1, NodeOfIs
    <3> QED BY <1>1, <1>3, <3>2
  <2>2. m_position' \in Nat /\ m_size' \in Nat /\ m_endian' \in -128..127
        /\ m_position' <= m_capacity' /\ m_size' <= m_capacity' /\ left' \in Nat
        /\ npos' \in 0..(Base - 1) /\ op' = "idle"
    BY <1>1, <1>2, <1>9
  <2>3. nodes' \in Seq(Node) /\ buf' \in Seq(Byte)
    BY <1>1, <1>3
  <2> QED BY <1>11, <2>1, <2>2, <2>3, CursorNext
<1>14. Locals'
  BY <1>1, <1>4, <1>9, <1>12 DEF Locals
<1>15. Bytes' = Bytes
  <2>1. SizeOf(m_size', m_position', buf') = SizeOf(m_size, m_position, buf)
    <3>1. Len(buf) = 0
      BY <1>4
    <3> QED BY <1>1, <1>2, <1>4, <1>9, <3>1 DEF SizeOf, Larger
  <2>2. ASSUME NEW i \in 1..SizeOf(m_size, m_position, buf)
        PROVE  Ith(nodes', m_position', buf', i) = Ith(nodes, m_position, buf, i)
    <3>1. Len(buf) = 0 /\ SizeOf(m_size, m_position, buf) \in Nat
      BY <1>4, Members
    <3> QED BY <1>1, <1>2, <3>1 DEF Ith
  <2> QED BY <1>13, <1>14, <2>1, <2>2, BytesAre
<1>16. Pos' = m_position' /\ Out' = got'
  BY <1>1, <1>13, <1>14, QuietNext DEF Quiet
<1>17. SubSeq(Bytes, m_position + 1, m_position + n) = From(nodes, m_position, n)
  <2>1. SubSeq(Bytes, m_position + 1, m_position + n) = [k \in 1..n |-> Bytes[m_position + k]]
    <3>1. Bytes \in Seq(Byte)
      BY SeenIs DEF SeenExact
    <3>2. m_position + n <= Len(Bytes)
      BY <1>4, <1>9
    <3> QED BY <1>2, <3>1, <3>2, SubSeqIs
  <2>2. ASSUME NEW k \in 1..n PROVE Bytes[m_position + k] = ByteAt(nodes, m_position + k - 1)
    <3>1. m_position + k \in 1..m_size /\ (m_position + k) - 1 = m_position + k - 1
      BY <1>2, <1>9
    <3> QED BY <1>4, <3>1
  <2> QED BY <2>1, <2>2 DEF From
<1> QED BY <1>1, <1>4, <1>9, <1>10, <1>13, <1>14, <1>15, <1>16, <1>17 DEF Fetched

-----------------------------------------------------------------------------
(***************************************************************************)
(* What the typed writers write and the typed readers make of it           *)
(***************************************************************************)

\* A division in two steps
LEMMA SplitDiv ==
  ASSUME NEW a \in Nat \ {0}, NEW b \in Nat \ {0}, NEW c \in Nat
  PROVE  /\ a * b \in Nat \ {0}
         /\ c \div (a * b) = (c \div a) \div b
         /\ c % (a * b) = (c % a) + ((c \div a) % b) * a
<1> DEFINE w == c \div a
           r == c % a
           u == w \div b
           s == w % b
           d == a * b
           t == a * s + r
<1>1. w \in Nat /\ r \in 0..(a - 1) /\ c = a * w + r
  BY DivMod
<1>2. u \in Nat /\ s \in 0..(b - 1) /\ w = b * u + s
  BY <1>1, DivMod
<1> HIDE DEF w, r, u, s
<1>3. d \in Nat \ {0}
  OBVIOUS
<1>4. a * s \in Nat /\ t \in Nat /\ s * a = a * s
  BY <1>1, <1>2
<1>5. a * s + a <= d
  BY <1>2, MulMono
<1>6. t \in 0..(d - 1)
  BY <1>1, <1>3, <1>4, <1>5
<1>7. c = d * u + t
  <2>1. a * w = a * (b * u) + a * s
    BY <1>2
  <2>2. a * (b * u) = d * u
    BY <1>2
  <2>3. d * u \in Nat /\ a * w \in Nat
    BY <1>1, <1>2, <1>3
  <2> DEFINE A == a * w
             B == d * u
             C == a * s
  <2>4. A = B + C /\ c = A + r /\ t = C + r /\ A \in Nat /\ B \in Nat /\ C \in Nat /\ r \in Nat
    BY <1>1, <1>4, <2>1, <2>2, <2>3
  <2> HIDE DEF A, B, C, t
  <2>5. c = B + t
    BY <2>4
  <2> QED BY <2>5 DEF B
<1> HIDE DEF d, t
<1>8. c \div d = u /\ c % d = t
  <2>1. u \in Nat
    BY <1>2
  <2> QED BY <1>3, <1>6, <1>7, <2>1, DivUnique
<1>9. c % d = r + s * a
  BY <1>1, <1>4, <1>8 DEF t
<1> QED BY <1>3, <1>8, <1>9 DEF w, r, u, s, d

\* The bit that says that more follow is not in the group.
LEMMA AddMod ==
  ASSUME NEW d \in Nat \ {0}, NEW g \in 0..(d - 1)
  PROVE  (g + d) % d = g
<1> DEFINE x == g + d
           p == x \div d
           s == x % d
<1>1. x \in Nat
  OBVIOUS
<1>2. p \in Nat /\ s \in 0..(d - 1) /\ x = d * p + s
  BY <1>1, DivMod
<1> HIDE DEF p, s
<1>3. p # 0
  <2>1. p = 0 => d * p = 0
    OBVIOUS
  <2> QED BY <1>2, <2>1
<1>4. ~(1 < p)
  <2>1. 1 < p => d * 1 + d <= d * p
    BY <1>2, MulMono
  <2>2. d * p \in Nat
    BY <1>2
  <2> QED BY <1>2, <2>1, <2>2
<1>5. p = 1
  BY <1>2, <1>3, <1>4
<1>6. d * p = d
  BY <1>5
<1>7. s = g
  BY <1>2, <1>6
<1> QED BY <1>7 DEF s

\* What readUint32 and readUint64 do with the first byte of the rest of a Varint: more
\* bytes follow exactly when the number has higher bits.
LEMMA VarintStep ==
  ASSUME NEW c \in Word, NEW i \in Nat
  PROVE  LET w == c \div Pow2[i]
             b == Varint[w][1]
             acc == AddGroup(c % Pow2[i], b, i)
             v == c \div Pow2[i + Group]
         IN  /\ w \in Nat
             /\ w >= More => /\ ~LastGroup(b, i) /\ acc = c % Pow2[i + Group]
                             /\ v \in Nat /\ Len(Varint[w]) = 1 + Len(Varint[v])
                             /\ \A k \in 1..Len(Varint[v]) : Varint[w][1 + k] = Varint[v][k]
             /\ w < More => LastGroup(b, i) /\ acc = c /\ Len(Varint[w]) = 1
<1> DEFINE a == Pow2[i]
           w == c \div a
           r == c % a
           b == Varint[w][1]
           acc == AddGroup(r, b, i)
           p == Pow2[i + Group]
           v == c \div p
           top == Pow2[VarBits]
<1>1. a \in Nat \ {0} /\ top \in Nat \ {0} /\ p \in Nat \ {0} /\ Group \in Nat
  BY MoreFacts, CodecConstants, Pow2Positive
<1>2. c \in Nat /\ c < top
  BY <1>1 DEF Word
<1>3. More \in Nat \ {0} /\ p = a * More
  <2>1. More \in Nat \ {0}
    BY MoreFacts
  <2>2. Pow2[i + Group] = Pow2[i] * Pow2[Group]
    BY <1>1, Pow2Sum
  <2> QED BY <2>1, <2>2 DEF More
<1> HIDE DEF a, p, top
<1>4. w \in Nat /\ r \in 0..(a - 1) /\ c = a * w + r
  BY <1>1, <1>2, DivMod
<1>5. v = w \div More /\ c % p = r + (w % More) * a
  BY <1>1, <1>2, <1>3, SplitDiv
<1>6. w % More \in 0..(More - 1) /\ w \div More \in Nat
      /\ w = More * (w \div More) + (w % More)
  BY <1>3, <1>4, DivMod
<1> HIDE DEF w, r, v
<1>7. CASE w >= More
  <2> DEFINE x == (w % More) + More
             y == Varint[v]
             z == Varint[w]
  <2>1. z = <<x>> \o y /\ y \in Seq(Byte)
    BY <1>4, <1>5, <1>6, <1>7, VarintDef, VarintType
  <2>2. x \in Byte /\ x >= More /\ x % More = w % More
    <3>0. More \in Nat \ {0} /\ w % More \in 0..(More - 1)
      BY <1>3, <1>6
    <3>1. x \in Byte /\ x >= More /\ x \in Nat
      <4> DEFINE g == w % More
      <4> HIDE DEF g
      <4>1. g \in 0..(More - 1) /\ x = g + More
        BY <3>0 DEF g
      <4>2. Byte = 0..(2 * More - 1)
        BY MoreFacts
      <4> HIDE DEF x
      <4> QED BY <3>0, <4>1, <4>2
    <3>2. x % More = w % More
      BY <3>0, AddMod
    <3> QED BY <3>1, <3>2
  <2> HIDE DEF x, y, z
  <2>3. /\ Len(z) = 1 + Len(y) /\ z[1] = x
        /\ \A k \in 1..Len(y) : z[1 + k] = y[k]
    <3> DEFINE s == <<x>>
    <3>1. s \in Seq(Byte) /\ Len(s) = 1 /\ s[1] = x
      BY <2>2
    <3>2. z = s \o y
      BY <2>1
    <3> HIDE DEF s
    <3>3. /\ Len(z) = 1 + Len(y) /\ Len(y) \in Nat
          /\ \A k \in 1..(1 + Len(y)) : z[k] = IF k <= 1 THEN s[k] ELSE y[k - 1]
      BY <2>1, <3>1, <3>2, ConcatProperties
    <3>4. ASSUME NEW k \in 1..Len(y) PROVE z[1 + k] = y[k]
      <4>1. 1 + k \in 1..(1 + Len(y)) /\ ~(1 + k <= 1) /\ (1 + k) - 1 = k
        BY <3>3
      <4> QED BY <3>3, <4>1
    <3> QED BY <3>1, <3>3, <3>4
  <2>4. b = x
    BY <2>3 DEF z
  <2>5. p <= c
    <3>1. a * More <= a * w
      BY <1>1, <1>3, <1>4, <1>7, MulMono
    <3>2. a * w \in Nat
      BY <1>1, <1>4
    <3> QED BY <1>1, <1>3, <1>4, <3>1, <3>2
  <2>6. ~LastGroup(b, i)
    <3>1. ~(b < More)
      BY <1>3, <2>2, <2>4 DEF Byte
    <3>2. ~(i + Group >= VarBits)
      <4>1. SUFFICES ASSUME i + Group >= VarBits PROVE FALSE
        OBVIOUS
      <4>2. i + Group \in Nat /\ VarBits \in Nat /\ VarBits <= i + Group
        BY <1>1, <4>1, CodecConstants
      <4>3. top <= p
        BY <4>2, Pow2Mono DEF top, p
      <4> QED BY <1>1, <1>2, <2>5, <4>3
    <3> QED BY <3>1, <3>2 DEF LastGroup
  <2>7. acc = c % p
    <3> DEFINE m == c % p
    <3>1. acc = (r + (w % More) * a) % top
      BY <2>2, <2>4 DEF AddGroup, a, top
    <3>2. m \in Nat /\ m < top
      <4>1. m \in 0..(p - 1)
        BY <1>1, <1>2, DivMod
      <4> QED BY <1>1, <1>2, <2>5, <4>1
    <3>3. m = r + (w % More) * a
      BY <1>5
    <3> HIDE DEF m
    <3>4. acc = m % top
      BY <3>1, <3>3
    <3>5. m % top = m
      BY <1>1, <3>2
    <3> QED BY <3>4, <3>5 DEF m
  <2>8. v \in Nat
    BY <1>5, <1>6
  <2> QED BY <1>3, <1>4, <1>7, <2>3, <2>6, <2>7, <2>8 DEF y, z, w, r, a, p, v
<1>8. CASE w < More
  <2>1. Varint[w] = <<w>>
    <3>1. w \in Nat /\ ~(w >= More)
      BY <1>3, <1>4, <1>8
    <3> QED BY <3>1, VarintDef
  <2>2. b = w /\ Len(Varint[w]) = 1
    BY <2>1
  <2>3. LastGroup(b, i)
    BY <1>8, <2>2 DEF LastGroup
  <2>4. w % More = w
    BY <1>3, <1>4, <1>8
  <2>5. acc = (r + w * a) % top
    BY <2>2, <2>4 DEF AddGroup, a, top
  <2>6. r + w * a = c
    BY <1>1, <1>4
  <2>7. c % top = c
    BY <1>1, <1>2
  <2> QED BY <1>3, <1>4, <1>8, <2>2, <2>3, <2>5, <2>6, <2>7 DEF w, r, a
<1> QED BY <1>3, <1>4, <1>7, <1>8 DEF w, a

\* DecodeZigzag undoes EncodeZigzag on the numbers of a word.
LEMMA ZigzagBack ==
  ASSUME NEW v \in (-Pow2[VarBits - 1])..(Pow2[VarBits - 1] - 1)
  PROVE  EncodeZigzag(v) \in Word /\ DecodeZigzag(EncodeZigzag(v)) = v
<1> DEFINE h == Pow2[VarBits - 1]
           top == Pow2[VarBits]
           x == IF v < 0 THEN (-v) * 2 - 1 ELSE v * 2
<1>1. h \in Nat \ {0} /\ top = 2 * h
  <2>1. VarBits \in Nat /\ VarBits - 1 \in Nat /\ VarBits # 0
    BY CodecConstants
  <2> QED BY <2>1, Pow2Def, Pow2Positive
<1>2. v \in Int /\ -h <= v /\ v <= h - 1
  <2>1. h \in Int
    BY <1>1
  <2> HIDE DEF h
  <2>2. v \in (-h)..(h - 1)
    BY DEF h
  <2> QED BY <2>1, <2>2
<1>3. EncodeZigzag(v) = x % top
  BY DEF EncodeZigzag
<1> HIDE DEF h, top
<1>4. x \in Nat /\ x < top
  BY <1>1, <1>2
<1>5. x % top = x
  BY <1>1, <1>4
<1>6. x \in Word
  BY <1>1, <1>4 DEF Word, top
<1>7. CASE v < 0
  <2> DEFINE y == -v - 1
  <2>1. y \in Nat /\ x = 2 * y + 1 /\ v = -y - 1
    BY <1>2, <1>7
  <2> HIDE DEF x, y
  <2>2. x \div 2 = y /\ x % 2 = 1
    BY <2>1
  <2> QED BY <1>3, <1>5, <1>6, <2>1, <2>2 DEF DecodeZigzag
<1>8. CASE ~(v < 0)
  <2>1. v \in Nat /\ x = 2 * v
    BY <1>2, <1>8
  <2> HIDE DEF x
  <2>2. x \div 2 = v /\ x % 2 = 0
    BY <2>1
  <2> QED BY <1>3, <1>5, <1>6, <2>2 DEF DecodeZigzag
<1> QED BY <1>7, <1>8

\* An integer is the sum of its bytes in memory.
LEMMA LowestIs ==
  ASSUME NEW v \in Nat
  PROVE  \A k \in 0..FixBytes : Lowest(InMemory(v))[k] = v % Pow2[ByteBits * k]
<1> DEFINE m == InMemory(v)
           D == 0..FixBytes
           g == [k \in D |-> v % Pow2[ByteBits * k]]
           f == Lowest(m)
<1>0. FixBytes \in Nat /\ ByteBits \in Nat
  BY CodecConstants
<1>1. ASSUME NEW k \in D, k # 0
      PROVE  k - 1 \in D /\ v % Pow2[ByteBits * k]
               = (v % Pow2[ByteBits * (k - 1)]) + m[k] * Pow2[ByteBits * (k - 1)]
  <2> DEFINE e == ByteBits * (k - 1)
             a == Pow2[e]
             b == Pow2[ByteBits]
  <2>1. k \in 1..FixBytes /\ k - 1 \in D
    BY <1>0, <1>1
  <2>2. e \in Nat /\ ByteBits * k = e + ByteBits
    BY <1>0, <2>1
  <2>3. m[k] = (v \div a) % b
    BY <2>1 DEF InMemory
  <2> HIDE DEF e
  <2>4. a \in Nat \ {0} /\ b \in Nat \ {0}
    BY <1>0, <2>2, Pow2Positive
  <2>5. Pow2[ByteBits * k] = a * b
    BY <1>0, <2>2, Pow2Sum
  <2> HIDE DEF a, b
  <2>6. v % (a * b) = (v % a) + ((v \div a) % b) * a
    BY <2>4, SplitDiv
  <2> QED BY <2>1, <2>3, <2>5, <2>6 DEF a, e
<1>2. v % Pow2[ByteBits * 0] = 0
  <2>1. Pow2[ByteBits * 0] = 1
    BY <1>0, Pow2Def
  <2> QED BY <2>1
<1> HIDE DEF m
<1>3. g = [k \in D |-> IF k = 0 THEN 0 ELSE g[k - 1] + m[k] * Pow2[ByteBits * (k - 1)]]
  <2>1. ASSUME NEW k \in D
        PROVE  g[k] = IF k = 0 THEN 0 ELSE g[k - 1] + m[k] * Pow2[ByteBits * (k - 1)]
    <3>1. CASE k = 0
      BY <1>2, <3>1
    <3>2. CASE k # 0
      BY <1>1, <3>2
    <3> QED BY <3>1, <3>2
  <2> QED BY <2>1
<1> HIDE DEF g
<1>4. f = [k \in D |-> IF k = 0 THEN 0 ELSE f[k - 1] + m[k] * Pow2[ByteBits * (k - 1)]]
  BY <1>3 DEF Lowest
<1> HIDE DEF f
<1> DEFINE T == {k \in Nat : k \in D => f[k] = g[k]}
<1>5. ASSUME NEW k \in Nat, \A j \in Nat : j < k => j \in T PROVE k \in T
  <2>1. SUFFICES ASSUME k \in D PROVE f[k] = g[k]
    OBVIOUS
  <2>2. CASE k = 0
    BY <1>3, <1>4, <2>1, <2>2
  <2>3. CASE k # 0
    <3>1. k - 1 \in D /\ k - 1 \in Nat /\ k - 1 < k
      BY <1>1, <2>1, <2>3
    <3>2. f[k - 1] = g[k - 1]
      BY <1>5, <3>1
    <3> QED BY <1>3, <1>4, <2>1, <2>3, <3>2
  <2> QED BY <2>2, <2>3
<1>6. T = Nat
  <2>1. T \in SUBSET Nat
    OBVIOUS
  <2> HIDE DEF T
  <2> QED BY <1>5, <2>1, StrongInduction
<1>7. \A k \in D : f[k] = g[k]
  <2>1. \A k \in D : k \in Nat
    BY <1>0
  <2> QED BY <1>6, <2>1
<1> QED BY <1>7 DEF f, g, m

\* The fixed-size readers undo the fixed-size writers.
LEMMA FixedBack ==
  ASSUME NEW v \in 0..(Pow2[ByteBits * FixBytes] - 1), NEW s, s = Reverse(InMemory(v)),
         NEW e, e # BYTE_ORDER
  PROVE  s \in Seq(Byte) /\ Len(s) = FixBytes /\ FixedValue(s, e) = v
<1> DEFINE m == InMemory(v)
           n == FixBytes
           top == Pow2[ByteBits * FixBytes]
<1>0. n \in Nat \ {0} /\ ByteBits * n \in Nat /\ ByteBits \in Nat
  BY CodecConstants
<1>1. top \in Nat \ {0} /\ v \in Nat /\ v < top
  <2>1. top \in Nat \ {0}
    BY <1>0, Pow2Positive
  <2> QED BY <2>1
<1>2. m \in [1..n -> Byte]
  <2>1. ASSUME NEW k \in 1..n PROVE (v \div Pow2[ByteBits * (k - 1)]) % Pow2[ByteBits] \in Byte
    <3>1. ByteBits * (k - 1) \in Nat
      BY <1>0
    <3>2. Pow2[ByteBits * (k - 1)] \in Nat \ {0} /\ Pow2[ByteBits] \in Nat \ {0}
      BY <1>0, <3>1, Pow2Positive
    <3>3. v \div Pow2[ByteBits * (k - 1)] \in Nat
      BY <1>1, <3>2, DivMod
    <3> QED BY <3>2, <3>3, DivMod DEF Byte
  <2> QED BY <2>1 DEF InMemory
<1>3. Lowest(m)[n] = v
  <2>1. Lowest(m)[n] = v % top
    BY <1>0, <1>1, LowestIs
  <2>2. v % top = v
    BY <1>1
  <2> QED BY <2>1, <2>2
<1> HIDE DEF m, top
<1>4. m \in Seq(Byte) /\ Len(m) = n
  BY <1>0, <1>2, AsSeq
<1>5. s = [k \in 1..n |-> m[(n - k) + 1]]
  BY <1>4 DEF Reverse, m
<1>6. s \in [1..n -> Byte]
  <2>1. \A k \in 1..n : (n - k) + 1 \in 1..n
    BY <1>0
  <2> QED BY <1>2, <1>5, <2>1
<1>7. s \in Seq(Byte) /\ Len(s) = n
  <2> DEFINE t == s
  <2>1. t \in [1..n -> Byte]
    BY <1>6
  <2> HIDE DEF t
  <2>2. t \in Seq(Byte) /\ Len(t) = n
    BY <1>0, <2>1, AsSeq
  <2> QED BY <2>2 DEF t
<1>8. Reverse(s) = m
  <2>1. Reverse(s) = [k \in 1..n |-> s[(n - k) + 1]]
    BY <1>7 DEF Reverse
  <2>2. ASSUME NEW k \in 1..n PROVE s[(n - k) + 1] = m[k]
    <3>1. (n - k) + 1 \in 1..n /\ (n - ((n - k) + 1)) + 1 = k
      BY <1>0
    <3> QED BY <1>5, <3>1
  <2> QED BY <1>2, <2>1, <2>2
<1>9. FixedValue(s, e) = Lowest(m)[n]
  BY <1>8 DEF FixedValue
<1> QED BY <1>3, <1>7, <1>9

\* Bytes in memory are a number, whatever they are.
LEMMA LowestType ==
  ASSUME NEW m \in [1..FixBytes -> Byte]
  PROVE  Lowest(m)[FixBytes] \in Nat
<1> DEFINE D == 0..FixBytes
           more == D \ {0}
           rank == [k \in D |-> k]
           next == [k \in more |-> k - 1]
           base == [k \in D |-> 0]
           comb == [k \in D |-> [x \in Nat |->
                      IF k = 0 THEN 0 ELSE x + m[k] * Pow2[ByteBits * (k - 1)]]]
           f == Lowest(m)
<1>0. FixBytes \in Nat /\ ByteBits \in Nat
  BY CodecConstants
<1>1. ASSUME NEW k \in more PROVE m[k] * Pow2[ByteBits * (k - 1)] \in Nat /\ k - 1 \in D
  <2>1. k \in 1..FixBytes /\ k - 1 \in D
    BY <1>0
  <2>2. ByteBits * (k - 1) \in Nat
    BY <1>0, <2>1
  <2>3. m[k] \in Nat /\ Pow2[ByteBits * (k - 1)] \in Nat
    BY <2>1, <2>2, MoreFacts, Pow2Positive
  <2> QED BY <2>1, <2>3
<1>2. /\ rank \in [D -> Nat] /\ more \in SUBSET D /\ next \in [more -> D]
      /\ base \in [D -> Nat] /\ comb \in [D -> [Nat -> Nat]]
      /\ \A d \in more : rank[next[d]] < rank[d]
  <2>1. D \subseteq Nat /\ more \subseteq D
    BY <1>0
  <2>2. ASSUME NEW k \in D, NEW x \in Nat
        PROVE  (IF k = 0 THEN 0 ELSE x + m[k] * Pow2[ByteBits * (k - 1)]) \in Nat
    BY <1>1
  <2>3. comb \in [D -> [Nat -> Nat]]
    BY <2>2
  <2>4. rank \in [D -> Nat] /\ base \in [D -> Nat] /\ next \in [more -> D]
    BY <1>1, <2>1
  <2>5. \A d \in more : rank[next[d]] < rank[d]
    BY <1>1, <2>1
  <2> QED BY <2>1, <2>3, <2>4, <2>5
<1> HIDE DEF more, rank, next, base, comb
<1>3. PICK g \in [D -> Nat] : Solves(g, D, more, next, base, comb)
  BY <1>2, Recursion
<1>4. ASSUME NEW k \in D
      PROVE  g[k] = IF k = 0 THEN 0 ELSE g[k - 1] + m[k] * Pow2[ByteBits * (k - 1)]
  <2>1. g[k] = IF k \in more THEN comb[k][g[next[k]]] ELSE base[k]
    BY <1>3 DEF Solves
  <2>2. k # 0 => k \in more /\ next[k] = k - 1 /\ g[k - 1] \in Nat
    BY <1>1 DEF next, more
  <2>3. base[k] = 0 /\ \A x \in Nat : comb[k][x] =
          IF k = 0 THEN 0 ELSE x + m[k] * Pow2[ByteBits * (k - 1)]
    BY DEF base, comb
  <2>4. k = 0 => k \notin more
    BY DEF more
  <2> QED BY <2>1, <2>2, <2>3, <2>4
<1>5. g = [k \in D |-> IF k = 0 THEN 0 ELSE g[k - 1] + m[k] * Pow2[ByteBits * (k - 1)]]
  BY <1>4
<1>6. f = [k \in D |-> IF k = 0 THEN 0 ELSE f[k - 1] + m[k] * Pow2[ByteBits * (k - 1)]]
  BY <1>5 DEF Lowest
<1> HIDE DEF f
<1> DEFINE T == {k \in Nat : k \in D => f[k] = g[k]}
<1>7. ASSUME NEW k \in Nat, \A j \in Nat : j < k => j \in T PROVE k \in T
  <2>1. SUFFICES ASSUME k \in D PROVE f[k] = g[k]
    OBVIOUS
  <2>2. CASE k = 0
    BY <1>5, <1>6, <2>1, <2>2
  <2>3. CASE k # 0
    <3>1. k - 1 \in D /\ k - 1 \in Nat /\ k - 1 < k
      BY <1>0, <2>1, <2>3
    <3>2. f[k - 1] = g[k - 1]
      BY <1>7, <3>1
    <3> QED BY <1>5, <1>6, <2>1, <2>3, <3>2
  <2> QED BY <2>2, <2>3
<1>8. T = Nat
  <2>1. T \in SUBSET Nat
    OBVIOUS
  <2> HIDE DEF T
  <2> QED BY <1>7, <2>1, StrongInduction
<1>9. FixBytes \in D /\ FixBytes \in T
  BY <1>0, <1>8
<1> QED BY <1>3, <1>9 DEF f

\* The fixed-size readers return a number.
LEMMA FixedType ==
  ASSUME NEW s \in Seq(Byte), Len(s) = FixBytes, NEW e
  PROVE  FixedValue(s, e) \in Nat
<1> DEFINE n == FixBytes
           m == IF e = BYTE_ORDER THEN s ELSE Reverse(s)
<1>0. n \in Nat
  BY CodecConstants
<1>1. s \in [1..n -> Byte]
  BY LenProperties
<1>2. Reverse(s) \in [1..n -> Byte]
  <2>1. Reverse(s) = [k \in 1..n |-> s[(n - k) + 1]]
    BY DEF Reverse
  <2>2. \A k \in 1..n : (n - k) + 1 \in 1..n
    BY <1>0
  <2> QED BY <1>1, <2>1, <2>2
<1>3. m \in [1..n -> Byte]
  BY <1>1, <1>2
<1> HIDE DEF m
<1>4. Lowest(m)[n] \in Nat
  BY <1>3, LowestType
<1> QED BY <1>4 DEF FixedValue, m

\* What writeStringF16 and its like write in front of a string
Length(v) == Reverse(InMemory(Len(v) % Pow2[LenBits]))

\* What the writer of a kind writes: m_endian, an int8_t, is never the int
\* LITTLE_ENDIAN, so the order of the bytes does not depend on it
Code(kind, v) ==
  CASE kind = "fixed"    -> Reverse(InMemory(v))
    [] kind = "unsigned" -> Varint[v]
    [] kind = "signed"   -> Varint[EncodeZigzag(v)]
    [] kind = "string"   -> Varint[Len(v)] \o v
    [] kind = "fstring"  -> Length(v) \o v

EndianKept == \A kind \in Kinds : \A v \in Value(kind) : Encode(kind, v) = Code(kind, v)

\* The encoding of a value does not depend on what m_endian is set to.
LEMMA EndianIs == CursorExact => EndianKept
<1> SUFFICES ASSUME CursorExact, NEW kind \in Kinds, NEW v \in Value(kind)
             PROVE  Encode(kind, v) = Code(kind, v)
  BY DEF EndianKept
<1>1. m_endian # BYTE_ORDER
  BY DEF CursorExact, TypeOK, BYTE_ORDER, LITTLE_ENDIAN
<1>2. \A x : FixedBytes(x, m_endian) = Reverse(InMemory(x))
  BY <1>1 DEF FixedBytes
<1>3. FixedBytes(Len(v) % Pow2[LenBits], m_endian) = Length(v)
  BY <1>2 DEF Length
<1> HIDE DEF Length
<1> QED BY <1>2, <1>3 DEF Encode, Code, Kinds

\* The same after a step.
LEMMA EndianNext == (CursorExact => EndianKept)'
BY EndianIs, PTL

\* The length in front of a string is read back, without the bits that were cut off.
LEMMA LengthIs ==
  ASSUME NEW v \in Seq(Byte)
  PROVE  /\ Length(v) \in Seq(Byte) /\ Len(Length(v)) = FixBytes
         /\ \A e : e # BYTE_ORDER => FixedValue(Length(v), e) = Len(v) % Pow2[LenBits]
         /\ Len(v) < Pow2[LenBits] => Len(v) % Pow2[LenBits] = Len(v)
<1> DEFINE x == Len(v) % Pow2[LenBits]
           s == Length(v)
<1>1. LenBits \in Nat /\ ByteBits * FixBytes \in Nat /\ LenBits <= ByteBits * FixBytes
  BY ArrayConstants, CodecConstants
<1>2. /\ Pow2[LenBits] \in Nat \ {0} /\ Pow2[ByteBits * FixBytes] \in Nat
      /\ Pow2[LenBits] <= Pow2[ByteBits * FixBytes]
  BY <1>1, Pow2Positive, Pow2Mono
<1>3. Len(v) \in Nat
  OBVIOUS
<1>4. x \in 0..(Pow2[LenBits] - 1)
  BY <1>2, <1>3, DivMod
<1>5. x \in 0..(Pow2[ByteBits * FixBytes] - 1)
  BY <1>2, <1>4
<1>6. s = Reverse(InMemory(x))
  BY DEF Length
<1> HIDE DEF x, s
<1>7. ASSUME NEW e, e # BYTE_ORDER
      PROVE  s \in Seq(Byte) /\ Len(s) = FixBytes /\ FixedValue(s, e) = x
  BY <1>5, <1>6, <1>7, FixedBack
<1>8. 0 # BYTE_ORDER
  BY DEF BYTE_ORDER, LITTLE_ENDIAN
<1>9. s \in Seq(Byte) /\ Len(s) = FixBytes
  BY <1>7, <1>8
<1>10. Len(v) < Pow2[LenBits] => Len(v) % Pow2[LenBits] = Len(v)
  BY <1>2, <1>3
<1> QED BY <1>7, <1>9, <1>10 DEF s, x

\* The number and the string of a value
LEMMA CodeIs ==
  ASSUME NEW kind \in Kinds, NEW v \in Value(kind)
  PROVE  LET c == Number(kind, v)
             s == Code(kind, v)
         IN  /\ s \in Seq(Byte) /\ Len(s) >= 1
             /\ kind = "fixed" => /\ v \in 0..(Pow2[ByteBits * FixBytes] - 1)
                                  /\ s = Reverse(InMemory(v)) /\ Len(s) = FixBytes
             /\ kind \in VarKinds => /\ c \in Word
                                     /\ Len(s) >= Len(Varint[c])
                                     /\ \A k \in 1..Len(Varint[c]) : s[k] = Varint[c][k]
             /\ kind = "string" => /\ v \in Seq(Byte) /\ c = Len(v)
                                   /\ Len(s) = Len(Varint[c]) + Len(v)
                                   /\ \A k \in 1..Len(v) : s[Len(Varint[c]) + k] = v[k]
             /\ kind = "fstring" => /\ v \in Seq(Byte) /\ Len(s) = FixBytes + Len(v)
                                    /\ \A k \in 1..FixBytes : s[k] = Length(v)[k]
                                    /\ \A k \in 1..Len(v) : s[FixBytes + k] = v[k]
             /\ kind = "unsigned" => c = v
             /\ kind = "signed" => DecodeZigzag(c) = v
<1> DEFINE c == Number(kind, v)
           s == Code(kind, v)
<1>0. \A x \in Word : x \in Nat /\ Varint[x] \in Seq(Byte) /\ Len(Varint[x]) >= 1
  <2>1. Pow2[VarBits] \in Nat
    BY CodecConstants, Pow2Positive
  <2>2. \A x \in Word : x \in Nat
    BY <2>1 DEF Word
  <2> QED BY <2>2, VarintType
<1>1. CASE kind = "fixed"
  <2>1. v \in 0..(Pow2[ByteBits * FixBytes] - 1)
    BY <1>1, ArrayConstants DEF Value
  <2>2. s = Reverse(InMemory(v))
    BY <1>1 DEF Code
  <2>3. s \in Seq(Byte) /\ Len(s) = FixBytes
    <3> HIDE DEF s
    <3>1. 0 # BYTE_ORDER
      BY DEF BYTE_ORDER, LITTLE_ENDIAN
    <3>2. s \in Seq(Byte) /\ Len(s) = FixBytes /\ FixedValue(s, 0) = v
      BY <2>1, <2>2, <3>1, FixedBack
    <3> QED BY <3>2
  <2> HIDE DEF s
  <2> QED BY <1>1, <2>1, <2>2, <2>3, CodecConstants DEF VarKinds, s
<1>2. CASE kind = "unsigned"
  <2>1. v \in Word /\ c = v /\ s = Varint[c]
    BY <1>2, ArrayConstants DEF Value, Number, Code
  <2>2. c \in Word
    BY <2>1
  <2> HIDE DEF s, c
  <2>3. s \in Seq(Byte) /\ Len(s) >= 1
    BY <1>0, <2>1, <2>2
  <2>4. Len(s) >= Len(Varint[c]) /\ \A k \in 1..Len(Varint[c]) : s[k] = Varint[c][k]
    BY <2>1, <2>3
  <2> QED BY <1>2, <2>1, <2>2, <2>3, <2>4 DEF s, c
<1>3. CASE kind = "signed"
  <2>1. v \in (-Pow2[VarBits - 1])..(Pow2[VarBits - 1] - 1)
        /\ c = EncodeZigzag(v) /\ s = Varint[c]
    BY <1>3, ArrayConstants DEF Value, Number, Code
  <2>2. c \in Word /\ DecodeZigzag(c) = v
    BY <2>1, ZigzagBack
  <2> HIDE DEF s, c
  <2>3. s \in Seq(Byte) /\ Len(s) >= 1
    BY <1>0, <2>1, <2>2
  <2>4. Len(s) >= Len(Varint[c]) /\ \A k \in 1..Len(Varint[c]) : s[k] = Varint[c][k]
    BY <2>1, <2>3
  <2> QED BY <1>3, <2>2, <2>3, <2>4 DEF s, c
<1>4. CASE kind = "string"
  <2>1. v \in Seq(Byte) /\ Len(v) \in Word /\ c = Len(v) /\ s = Varint[c] \o v
    BY <1>4, ArrayConstants DEF Value, Number, Code
  <2> DEFINE t == Varint[c]
  <2>2. c \in Word /\ t \in Seq(Byte) /\ Len(t) >= 1
    BY <1>0, <2>1
  <2> HIDE DEF s, c, t
  <2>3. /\ s \in Seq(Byte) /\ Len(s) = Len(t) + Len(v) /\ Len(t) \in Nat /\ Len(v) \in Nat
        /\ \A k \in 1..(Len(t) + Len(v)) : s[k] = IF k <= Len(t) THEN t[k] ELSE v[k - Len(t)]
    <3>1. s = t \o v
      BY <2>1 DEF t
    <3> QED BY <2>1, <2>2, <3>1, ConcatProperties
  <2>4. ASSUME NEW k \in 1..Len(t) PROVE s[k] = t[k]
    BY <2>3
  <2>5. ASSUME NEW k \in 1..Len(v) PROVE s[Len(t) + k] = v[k]
    <3>1. Len(t) + k \in 1..(Len(t) + Len(v)) /\ ~(Len(t) + k <= Len(t)) /\ (Len(t) + k) - Len(t) = k
      BY <2>3
    <3> QED BY <2>3, <3>1
  <2>6. Len(s) >= 1 /\ Len(s) >= Len(t)
    BY <2>2, <2>3
  <2> QED BY <1>4, <2>1, <2>2, <2>3, <2>4, <2>5, <2>6 DEF s, c, t
<1>5. CASE kind = "fstring"
  <2>1. v \in Seq(Byte) /\ s = Length(v) \o v
    BY <1>5, ArrayConstants DEF Value, Code
  <2> DEFINE t == Length(v)
             n == FixBytes
  <2>2. t \in Seq(Byte) /\ Len(t) = n /\ n \in Nat /\ n >= 1
    BY <2>1, LengthIs, CodecConstants
  <2> HIDE DEF s, t, n, c
  <2>3. /\ s \in Seq(Byte) /\ Len(s) = n + Len(v) /\ Len(v) \in Nat
        /\ \A k \in 1..(n + Len(v)) : s[k] = IF k <= n THEN t[k] ELSE v[k - n]
    <3>1. s = t \o v
      BY <2>1 DEF t
    <3>2. /\ s \in Seq(Byte) /\ Len(s) = Len(t) + Len(v) /\ Len(v) \in Nat
          /\ \A k \in 1..(Len(t) + Len(v)) : s[k] = IF k <= Len(t) THEN t[k] ELSE v[k - Len(t)]
      <4>1. t \in Seq(Byte) /\ v \in Seq(Byte)
        BY <2>1, <2>2
      <4> QED BY <3>1, <4>1, ConcatProperties
    <3> QED BY <2>2, <3>2
  <2>4. ASSUME NEW k \in 1..n PROVE s[k] = t[k]
    BY <2>2, <2>3
  <2>5. ASSUME NEW k \in 1..Len(v) PROVE s[n + k] = v[k]
    <3>1. n + k \in 1..(n + Len(v)) /\ ~(n + k <= n) /\ (n + k) - n = k
      BY <2>2, <2>3
    <3> QED BY <2>3, <3>1
  <2>6. Len(s) >= 1 /\ kind \notin VarKinds
    BY <1>5, <2>2, <2>3 DEF VarKinds
  <2> QED BY <1>5, <2>1, <2>3, <2>4, <2>5, <2>6 DEF s, t, n
<1> QED BY <1>1, <1>2, <1>3, <1>4, <1>5 DEF Kinds

\* A value is in its place in a sequence of bytes
Holding(b, w) ==
  /\ w.kind \in Kinds /\ w.value \in Value(w.kind) /\ w.at \in Nat
  /\ w.len = Len(Code(w.kind, w.value))
  /\ w.at + w.len <= Len(b)
  /\ \A k \in 1..w.len : b[w.at + k] = Code(w.kind, w.value)[k]

\* Written, without the byte order.
LEMMA WrittenIs ==
  ASSUME CursorExact PROVE Written <=> (wrote # None => Holding(Bytes, wrote))
<1>1. EndianKept
  BY EndianIs
<1> QED BY <1>1 DEF Written, Holding, EndianKept

\* The same after a step.
LEMMA WrittenNext ==
  ASSUME CursorExact' PROVE Written' <=> (wrote' # None => Holding(Bytes', wrote'))
<1>1. EndianKept'
  BY EndianNext
<1> QED BY <1>1 DEF Written, Holding, EndianKept

\* A step that keeps the bytes of a value keeps the value.
LEMMA HoldingKept ==
  ASSUME NEW a, NEW b, NEW w, Holding(a, w), w.at + w.len <= Len(b),
         \A k \in 1..w.len : b[w.at + k] = a[w.at + k]
  PROVE  Holding(b, w)
BY DEF Holding

\* A write that does not meet the typed value leaves it in its place.
LEMMA WroteKeeps ==
  ASSUME CursorExact, Locals, op = "idle", CursorExact', Locals', NEW d \in Seq(Byte), Wrote(d),
         Written, wrote' = Intact(Len(d))
  PROVE  Written'
<1>1. SUFFICES ASSUME wrote' # None PROVE Holding(Bytes', wrote')
  BY WrittenNext
<1> DEFINE n == Len(d)
           w == wrote
<1>2. /\ wrote' = w /\ w # None
      /\ m_position + n <= w.at \/ w.at + w.len <= m_position
  BY <1>1 DEF Intact
<1>3. Holding(Bytes, w)
  BY <1>2, WrittenIs
<1>4. w.at \in Nat /\ w.len \in Nat /\ w.at + w.len <= Len(Bytes)
  <2>1. Code(w.kind, w.value) \in Seq(Byte)
    BY <1>3, CodeIs DEF Holding
  <2> QED BY <1>3, <2>1 DEF Holding
<1>5. Pos = m_position /\ m_position \in Nat /\ n \in Nat /\ Len(Bytes) \in Nat
  <2>1. Bytes \in Seq(Byte) /\ m_position \in Nat
    BY SeenIs, Members DEF SeenExact
  <2> QED BY <2>1, QuietIs DEF Quiet
<1>6. /\ Len(Bytes') = Larger(Len(Bytes), m_position + n)
      /\ \A i \in 1..Len(Bytes') :
           Bytes'[i] = IF i > m_position /\ i <= m_position + n THEN d[i - m_position] ELSE Bytes[i]
  BY <1>5 DEF Wrote
<1>7. Len(Bytes') \in Nat /\ Len(Bytes') >= Len(Bytes)
  BY <1>5, <1>6 DEF Larger
<1> HIDE DEF w
<1>8. ASSUME NEW k \in 1..w.len PROVE Bytes'[w.at + k] = Bytes[w.at + k]
  <2>1. w.at + k \in 1..Len(Bytes') /\ ~(w.at + k > m_position /\ w.at + k <= m_position + n)
    <3> DEFINE at == w.at
               len == w.len
               new == Len(Bytes')
    <3>1. at \in Nat /\ len \in Nat /\ k \in 1..len /\ m_position \in Nat /\ n \in Nat
      BY <1>4, <1>5
    <3>2. new \in Nat /\ at + len <= new
      BY <1>4, <1>5, <1>7
    <3>3. m_position + n <= at \/ at + len <= m_position
      BY <1>2
    <3> HIDE DEF at, len, new, n
    <3>4. at + k \in 1..new /\ ~(at + k > m_position /\ at + k <= m_position + n)
      BY <3>1, <3>2, <3>3
    <3> QED BY <3>4 DEF at, len, new
  <2> QED BY <1>6, <2>1
<1>9. w.at + w.len <= Len(Bytes')
  BY <1>4, <1>5, <1>7
<1>10. Holding(Bytes', w)
  BY <1>3, <1>8, <1>9, HoldingKept
<1> QED BY <1>2, <1>10

\* A step that changes no byte leaves the typed value in its place.
LEMMA SameWritten ==
  ASSUME CursorExact, CursorExact', Written, wrote' = wrote, Bytes' = Bytes
  PROVE  Written'
BY WrittenIs, WrittenNext

-----------------------------------------------------------------------------
(***************************************************************************)
(* The invariant, call by call                                             *)
(***************************************************************************)

\* Between two calls, and while something is written, nobody reads.
LEMMA NoReader ==
  ASSUME op' \in {"idle", "write"}, reader' = None
  PROVE  Readers' /\ Decoding'
<1>1. Readers'
  BY DEF Readers
<1>2. Decoding'
  BY DEF Decoding
<1> QED BY <1>1, <1>2

\* Without a returned or a written value there is nothing to compare.
LEMMA Forgotten ==
  ASSUME ret' = None \/ wrote' = None PROVE TypedExact'
BY DEF TypedExact

\* A step that returns and writes no value.
LEMMA SameReturned ==
  ASSUME TypedExact, ret' = ret, wrote' = wrote PROVE TypedExact'
BY DEF TypedExact

\* write().
LEMMA RawWriteKeeps ==
  ASSUME IInv, NEW data \in Raw, StartWrite(data, None)
  PROVE  IInv'
<1>1. CursorExact /\ Locals /\ Readers /\ Written /\ data \in Seq(Byte)
  BY ArrayConstants DEF IInv
<1>2. /\ op = "idle" /\ wrote' = Intact(Len(data)) /\ ret' = None /\ reader' = reader
  BY DEF StartWrite
<1>3. CursorExact' /\ Locals' /\ Wrote(data) /\ op' = "write"
  BY <1>1, StartWriteIs
<1>4. reader' = None
  BY <1>1, <1>2 DEF Readers
<1>5. Written'
  BY <1>1, <1>2, <1>3, WroteKeeps
<1> QED BY <1>2, <1>3, <1>4, <1>5, NoReader, Forgotten DEF IInv

\* The typed writers: the value is in its place as soon as the call starts.
LEMMA TypedWriteKeeps ==
  ASSUME IInv, NEW kind \in Kinds, NEW v \in Value(kind), WriteTyped(kind, v)
  PROVE  IInv'
<1> DEFINE s == Code(kind, v)
           w == [kind |-> kind, value |-> v, at |-> m_position, len |-> Len(s)]
<1>1. CursorExact /\ Locals /\ Readers
  BY DEF IInv
<1>2. s \in Seq(Byte) /\ Len(s) >= 1
  BY CodeIs
<1>3. StartWrite(s, w)
  <2>1. Encode(kind, v) = s
    BY <1>1, EndianIs DEF EndianKept
  <2> QED BY <2>1 DEF WriteTyped
<1>4. w.kind = kind /\ w.value = v /\ w.at = m_position /\ w.len = Len(s)
  OBVIOUS
<1>5. w # None
  <2>1. None.kind = "none" /\ kind # "none"
    BY DEF None, Kinds
  <2> QED BY <1>4, <2>1
<1> HIDE DEF w
<1>6. op = "idle" /\ wrote' = w /\ ret' = None /\ reader' = reader
  BY <1>3, <1>5 DEF StartWrite
<1> HIDE DEF s
<1>7. CursorExact' /\ Locals' /\ Wrote(s) /\ op' = "write"
  BY <1>1, <1>2, <1>3, StartWriteIs
<1>8. reader' = None
  BY <1>1, <1>6 DEF Readers
<1>9. Written'
  <2>1. Pos = m_position /\ m_position \in Nat /\ Len(Bytes) \in Nat /\ Len(s) \in Nat
    <3>1. Bytes \in Seq(Byte) /\ m_position \in Nat
      BY <1>1, SeenIs, Members DEF SeenExact
    <3> QED BY <1>1, <1>2, <1>6, <3>1, QuietIs DEF Quiet
  <2>2. /\ Len(Bytes') = Larger(Len(Bytes), m_position + Len(s))
        /\ \A i \in 1..Len(Bytes') : Bytes'[i] =
             IF i > m_position /\ i <= m_position + Len(s) THEN s[i - m_position] ELSE Bytes[i]
    BY <1>7, <2>1 DEF Wrote
  <2>3. Len(Bytes') \in Nat /\ m_position + Len(s) <= Len(Bytes')
    BY <2>1, <2>2 DEF Larger
  <2>4. ASSUME NEW k \in 1..Len(s) PROVE Bytes'[m_position + k] = s[k]
    <3>1. m_position + k \in 1..Len(Bytes') /\ m_position + k > m_position
          /\ m_position + k <= m_position + Len(s) /\ (m_position + k) - m_position = k
      BY <2>1, <2>3
    <3> QED BY <2>2, <3>1
  <2>5. Holding(Bytes', w)
    BY <1>4, <2>1, <2>3, <2>4 DEF Holding, s
  <2> QED BY <1>6, <1>7, <2>5, WrittenNext
<1> QED BY <1>6, <1>7, <1>8, <1>9, NoReader, Forgotten DEF IInv

\* The iterations of write().
LEMMA WriteKeeps ==
  ASSUME IInv, WriteLast \/ WriteNode
  PROVE  IInv'
<1>1. CursorExact /\ Locals /\ Readers /\ Written /\ TypedExact
  BY DEF IInv
<1>2. op = "write" /\ reader' = reader /\ ret' = ret /\ wrote' = wrote
  BY DEF WriteLast, WriteNode, typed
<1>3. CursorExact' /\ Locals' /\ Still /\ op' \in {"idle", "write"}
  BY <1>1, WriteLastIs, WriteNodeIs
<1>4. reader' = None
  BY <1>1, <1>2 DEF Readers
<1>5. Written'
  BY <1>1, <1>2, <1>3, SameWritten DEF Still
<1>6. TypedExact'
  BY <1>1, <1>2, SameReturned
<1> QED BY <1>3, <1>4, <1>5, <1>6, NoReader DEF IInv

\* While a read goes on, or between the reads of a typed reader, its locals do not change.
LEMMA SameReader ==
  ASSUME Readers, Decoding, Still, op \in {"read", "next"}, op' \in {"read", "next"},
         reader' = reader, wrote' = wrote, op' = "next" => reader # Plain
  PROVE  Readers' /\ Decoding'
<1>1. Readers'
  BY DEF Readers, Still
<1>2. Decoding'
  BY DEF Decoding, Still
<1> QED BY <1>1, <1>2

\* The iterations of read().
LEMMA ReadKeeps ==
  ASSUME IInv, ReadLast \/ ReadNode
  PROVE  IInv'
<1>1. CursorExact /\ Locals /\ Readers /\ Written /\ Decoding /\ TypedExact
  BY DEF IInv
<1>2. op = "read" /\ ret' = ret /\ wrote' = wrote
  BY DEF ReadLast, ReadNode, typed
<1>3. Written' /\ TypedExact' /\ CursorExact' /\ Locals' /\ Still
  <2>1. CursorExact' /\ Locals' /\ Still
    BY <1>1, ReadLastIs, ReadNodeIs
  <2> QED BY <1>1, <1>2, <2>1, SameWritten, SameReturned DEF Still
<1>4. Readers' /\ Decoding'
  <2>1. CASE ReadLast /\ reader = Plain
    <3>1. op' = "idle" /\ reader' = None
      BY <2>1 DEF ReadLast
    <3> QED BY <3>1, NoReader
  <2>2. CASE ReadLast /\ reader # Plain
    <3>1. op' = "next" /\ reader' = reader
      BY <2>2 DEF ReadLast
    <3> QED BY <1>1, <1>2, <1>3, <2>2, <3>1, SameReader
  <2>3. CASE ReadNode
    <3>1. op' = "read" /\ reader' = reader
      BY <1>1, <2>3, ReadNodeIs DEF ReadNode, typed
    <3> QED BY <1>1, <1>2, <1>3, <3>1, SameReader
  <2> QED BY <2>1, <2>2, <2>3
<1> QED BY <1>3, <1>4 DEF IInv

\* Operations of the user between two calls
LEMMA OtherKeeps ==
  ASSUME IInv, \/ \E v \in 0..m_capacity : SetPosition(v)
               \/ Clear
               \/ \E b \in BOOLEAN : SetIsLittleEndian(b)
  PROVE  IInv'
<1>1. CursorExact /\ Locals /\ Readers /\ Written /\ TypedExact
  BY DEF IInv
<1>2. op = "idle" /\ op' = "idle" /\ reader' = reader
  BY DEF SetPosition, Clear, SetIsLittleEndian, typed
<1>3. Readers' /\ Decoding'
  <2>1. reader' = None
    BY <1>1, <1>2 DEF Readers
  <2> QED BY <1>2, <2>1, NoReader
<1>4. ASSUME NEW v \in 0..m_capacity, SetPosition(v) PROVE IInv'
  <2>0. v \in Nat
    BY <1>1, Members
  <2>1. CursorExact' /\ Locals' /\ Moved(v)
    BY <1>1, <1>4, <2>0, SetPositionIs
  <2>2. ret' = None /\ wrote' = wrote
    BY <1>4 DEF SetPosition
  <2>3. ASSUME wrote # None PROVE Holding(Bytes', wrote)
    <3>1. Holding(Bytes, wrote)
      BY <1>1, <2>3, WrittenIs
    <3>2. wrote.at \in Nat /\ wrote.len \in Nat /\ wrote.at + wrote.len <= Len(Bytes)
      <4>1. Code(wrote.kind, wrote.value) \in Seq(Byte)
        BY <3>1, CodeIs DEF Holding
      <4> QED BY <3>1, <4>1 DEF Holding
    <3>3. Len(Bytes) \in Nat
      <4>1. Bytes \in Seq(Byte)
        BY <1>1, SeenIs DEF SeenExact
      <4> QED BY <4>1
    <3>4. wrote.at + wrote.len <= Len(Bytes')
      <4>1. Len(Bytes') = Larger(Len(Bytes), v)
        BY <2>1 DEF Moved
      <4> QED BY <2>0, <3>2, <3>3, <4>1 DEF Larger
    <3>5. ASSUME NEW k \in 1..wrote.len PROVE Bytes'[wrote.at + k] = Bytes[wrote.at + k]
      <4>1. wrote.at + k \in 1..Len(Bytes)
        BY <3>2, <3>3
      <4> QED BY <2>1, <4>1 DEF Moved
    <3> QED BY <3>1, <3>4, <3>5, HoldingKept
  <2>4. Written'
    BY <2>1, <2>2, <2>3, WrittenNext
  <2> QED BY <1>3, <2>1, <2>2, <2>4, Forgotten DEF IInv
<1>5. ASSUME Clear PROVE IInv'
  <2>1. CursorExact' /\ Locals'
    BY <1>1, <1>5, ClearIs
  <2>2. ret' = None /\ wrote' = None
    BY <1>5 DEF Clear
  <2>3. Written'
    BY <2>1, <2>2, WrittenNext
  <2> QED BY <1>3, <2>1, <2>2, <2>3, Forgotten DEF IInv
<1>6. ASSUME NEW b \in BOOLEAN, SetIsLittleEndian(b) PROVE IInv'
  <2>1. CursorExact' /\ Locals' /\ Still
    BY <1>1, <1>6, SetIsLittleEndianIs
  <2>2. ret' = ret /\ wrote' = wrote
    BY <1>6 DEF SetIsLittleEndian, typed
  <2>3. Written' /\ TypedExact'
    BY <1>1, <2>1, <2>2, SameWritten, SameReturned DEF Still
  <2> QED BY <1>3, <2>1, <2>3 DEF IInv
<1> QED BY <1>4, <1>5, <1>6

\* The two operations of SocketStream.
LEMMA StreamKeeps ==
  ASSUME IInv, NEW n \in Nat,
         \/ \E data \in Raw \cup {<<>>} : StreamRead(n, data)
         \/ \E k \in 1..Smaller(n, getReadSize) : StreamWrite(n, k)
  PROVE  IInv'
<1>1. CursorExact /\ Locals /\ Readers /\ Written /\ TypedExact
  BY DEF IInv
<1>2. op = "idle" /\ op' = "idle" /\ reader' = reader
  BY DEF StreamRead, StreamWrite
<1>3. Readers' /\ Decoding'
  <2>1. reader' = None
    BY <1>1, <1>2 DEF Readers
  <2> QED BY <1>2, <2>1, NoReader
<1>4. ASSUME NEW data \in Raw \cup {<<>>}, StreamRead(n, data) PROVE IInv'
  <2>1. data \in Seq(Byte)
    <3>1. Raw \subseteq Seq(Byte)
      BY ArrayConstants
    <3>2. <<>> \in Seq(Byte)
      OBVIOUS
    <3> QED BY <3>1, <3>2
  <2>2. /\ CursorExact' /\ Locals' /\ (data = <<>> => Still) /\ (data # <<>> => Wrote(data))
    BY <1>1, <1>4, <2>1, StreamReadIs
  <2>3. CASE data = <<>>
    <3>1. ret' = ret /\ wrote' = wrote
      BY <1>4, <2>3 DEF StreamRead
    <3>2. Written' /\ TypedExact'
      BY <1>1, <2>2, <2>3, <3>1, SameWritten, SameReturned DEF Still
    <3> QED BY <1>3, <2>2, <3>2 DEF IInv
  <2>4. CASE data # <<>>
    <3>1. ret' = None /\ wrote' = Intact(Len(data))
      BY <1>4, <2>4 DEF StreamRead
    <3>2. Written'
      BY <1>1, <1>2, <2>1, <2>2, <2>4, <3>1, WroteKeeps
    <3> QED BY <1>3, <2>2, <3>1, <3>2, Forgotten DEF IInv
  <2> QED BY <2>3, <2>4
<1>5. ASSUME NEW k \in 1..Smaller(n, getReadSize), StreamWrite(n, k) PROVE IInv'
  <2>0. k \in Nat
    <3>1. Smaller(n, getReadSize) \in Int
      BY <1>1, Members DEF Smaller, getReadSize
    <3> QED BY <3>1
  <2>1. CursorExact' /\ Locals' /\ Fetched(k)
    BY <1>1, <1>5, <2>0, StreamWriteIs
  <2>2. ret' = None /\ wrote' = wrote
    BY <1>5 DEF StreamWrite
  <2>3. Written'
    BY <1>1, <2>1, <2>2, SameWritten DEF Fetched
  <2> QED BY <1>3, <2>1, <2>2, <2>3, Forgotten DEF IInv
<1> QED BY <1>4, <1>5

\* What a read of n bytes delivers
LEMMA FetchedIs ==
  ASSUME CursorExact, Locals, NEW n \in Nat, Fetched(n)
  PROVE  /\ Pos \in Nat /\ Len(Bytes) \in Nat /\ Bytes' = Bytes /\ Pos' = Pos + n
         /\ Pos + n <= Len(Bytes) /\ Len(Out') = n
         /\ Len(Out') <= Pos' /\ Out' = SubSeq(Bytes', Pos' - Len(Out') + 1, Pos')
         /\ \A k \in 1..n : Out'[k] = Bytes[Pos + k]
         /\ Out' \in Seq(Byte)
<1>1. Bytes \in Seq(Byte) /\ Pos \in Nat
  BY SeenIs DEF SeenExact
<1>2. Bytes' = Bytes /\ Pos' = Pos + n /\ Pos + n <= Len(Bytes)
      /\ Out' = SubSeq(Bytes, Pos + 1, Pos + n)
  BY DEF Fetched
<1>3. Out' \in Seq(Byte) /\ Len(Out') = n /\ Out' = [k \in 1..n |-> Bytes[Pos + k]]
  BY <1>1, <1>2, SubSeqIs
<1>4. Pos' - Len(Out') + 1 = Pos + 1
  BY <1>1, <1>2, <1>3
<1>5. Len(Bytes) \in Nat
  BY <1>1
<1>6. Len(Out') <= Pos'
  BY <1>1, <1>2, <1>3
<1>7. \A k \in 1..n : Out'[k] = Bytes[Pos + k]
  BY <1>3
<1>8. Out' = SubSeq(Bytes', Pos' - Len(Out') + 1, Pos')
  BY <1>2, <1>4
<1> QED BY <1>1, <1>2, <1>3, <1>5, <1>6, <1>7, <1>8

\* What the reader's own loop finds in a value that is intact: the reader of a Varint,
\* with i bits read, is at the byte of the next group.
AtGroup(b, p, r, w) ==
  LET c == Number(w.kind, w.value)
      rest == Varint[c \div Pow2[r.i]]
  IN  /\ r.acc = c % Pow2[r.i]
      /\ \A k \in 1..Len(rest) : b[p - 1 + k] = rest[k]
      /\ r.kind = "string" => p - 1 + Len(rest) + Len(w.value) = w.at + w.len

\* A reader that starts read() of n > 0 bytes
LEMMA ReaderStarts ==
  ASSUME CursorExact, Locals, NEW n \in Nat, n > 0, Fetched(n), op' = "read",
         NEW r, reader' = r,
         r = Plain \/ r \in [kind : Kinds, at : Nat, i : Nat, acc : Nat]
                   \/ r \in [kind : {"body"}, at : Nat, of : {"string", "fstring"}],
         r.kind \in {"fixed", "fstring"} => Pos + n = r.at + FixBytes /\ n = FixBytes,
         r.kind \in VarKinds => n = 1 /\ Pos >= r.at /\ r.i = Group * (Pos - r.at),
         r # Plain /\ wrote' # None /\ r.at = wrote'.at =>
           /\ /\ r.kind = "body" /\ r.of = wrote'.kind
              /\ Fits(wrote'.kind, wrote'.value)
              => Out' = wrote'.value
           /\ r.kind \in VarKinds /\ r.kind = wrote'.kind => AtGroup(Bytes, Pos + 1, r, wrote')
  PROVE  Readers' /\ Decoding'
<1>1. /\ Pos \in Nat /\ Bytes' = Bytes /\ Pos' = Pos + n /\ Len(Out') = n
      /\ Len(Out') <= Pos' /\ Out' = SubSeq(Bytes', Pos' - Len(Out') + 1, Pos')
  BY FetchedIs
<1>2. r # None
  <2>1. None.kind = "none" /\ Plain.kind = "plain"
    BY DEF None, Plain
  <2>2. r.kind \in {"plain", "body"} \cup Kinds
    BY <2>1
  <2> QED BY <2>1, <2>2 DEF Kinds
<1>3. r.kind \in {"fixed", "fstring"} => Pos' = r.at + FixBytes /\ Len(Out') = FixBytes
  BY <1>1
<1>4. r.kind \in VarKinds => /\ Len(Out') = 1 /\ Pos' > r.at
                             /\ r.i = Group * (Pos' - r.at - 1)
  <2>1. SUFFICES ASSUME r.kind \in VarKinds
                 PROVE  Len(Out') = 1 /\ Pos' > r.at /\ r.i = Group * (Pos' - r.at - 1)
    OBVIOUS
  <2>2. r.at \in Nat
    <3>1. Plain.kind = "plain"
      BY DEF Plain
    <3> QED BY <2>1, <3>1 DEF VarKinds
  <2>3. Pos' = Pos + 1 /\ Pos >= r.at /\ r.i = Group * (Pos - r.at)
    BY <1>1, <2>1
  <2>4. Pos' - r.at - 1 = Pos - r.at /\ Pos' > r.at
    BY <1>1, <2>2, <2>3
  <2> QED BY <1>1, <2>1, <2>3, <2>4
<1>5. Readers'
  BY <1>1, <1>2, <1>3, <1>4 DEF Readers
<1>6. Decoding'
  <2>1. SUFFICES ASSUME wrote' # None, r # Plain, r.at = wrote'.at
                 PROVE  /\ /\ r.kind = "body" /\ r.of = wrote'.kind
                           /\ Fits(wrote'.kind, wrote'.value)
                           => Out' = wrote'.value
                        /\ r.kind \in VarKinds /\ r.kind = wrote'.kind =>
                             AtGroup(Bytes', Pos', r, wrote')
    BY DEF Decoding, AtGroup, Fits
  <2>2. r.kind \in VarKinds => Pos' = Pos + 1
    BY <1>1
  <2> QED BY <1>1, <2>1, <2>2
<1> QED BY <1>5, <1>6

\* A read() of the user.
LEMMA PlainReadKeeps ==
  ASSUME IInv, NEW size \in Nat, Read(size)
  PROVE  IInv'
<1>1. CursorExact /\ Locals /\ Written
  BY DEF IInv
<1>2. /\ op = "idle" /\ EnterRead(size, Plain) /\ ret' = None /\ wrote' = wrote
      /\ UNCHANGED <<store, m_endian, buf>>
  BY DEF Read
<1>3. /\ CursorExact' /\ Locals'
      /\ \/ op' = "idle" /\ reader' = None /\ Still
         \/ size > 0 /\ op' = "read" /\ reader' = Plain /\ Fetched(size)
         \/ size = 0 /\ op' = "idle" /\ reader' = None /\ Fetched(0) /\ Out' = <<>>
         \/ size = 0 /\ op' = "crashed" /\ reader' = Plain /\ Fetched(0)
  BY <1>1, <1>2, EnterReadIs
<1>4. Written'
  BY <1>1, <1>2, <1>3, SameWritten DEF Still, Fetched
<1>5. TypedExact'
  BY <1>2, Forgotten
<1>6. Readers' /\ Decoding'
  <2>1. CASE op' = "idle" /\ reader' = None
    BY <2>1, NoReader
  <2>2. CASE size > 0 /\ op' = "read" /\ reader' = Plain /\ Fetched(size)
    <3>1. Plain.kind = "plain" /\ "plain" \notin VarKinds
          /\ "plain" \notin {"fixed", "fstring"}
      BY DEF Plain, VarKinds
    <3> QED BY <1>1, <2>2, <3>1, ReaderStarts
  <2>3. CASE op' = "crashed" /\ reader' = Plain
    BY <2>3 DEF Readers, Decoding
  <2> QED BY <1>3, <2>1, <2>2, <2>3
<1> QED BY <1>3, <1>4, <1>5, <1>6 DEF IInv

\* A typed reader starts: all groups of the value are in front of it.
LEMMA TypedReadKeeps ==
  ASSUME IInv, NEW kind \in Kinds, ReadTyped(kind)
  PROVE  IInv'
<1> DEFINE n == IF kind \in {"fixed", "fstring"} THEN FixBytes ELSE 1
           r == [kind |-> kind, at |-> m_position, i |-> 0, acc |-> 0]
<1>1. CursorExact /\ Locals /\ Written
  BY DEF IInv
<1>2. /\ op = "idle" /\ EnterRead(n, r) /\ ret' = None /\ wrote' = wrote
      /\ UNCHANGED <<store, m_endian, buf>>
  BY DEF ReadTyped
<1>3. /\ n \in Nat /\ n > 0 /\ (kind \in {"fixed", "fstring"} => n = FixBytes)
      /\ (kind \notin {"fixed", "fstring"} => n = 1)
  BY CodecConstants
<1>4. r.kind = kind /\ r.at = m_position /\ r.i = 0 /\ r.acc = 0
  OBVIOUS
<1>5. Pos = m_position /\ m_position \in Nat
  BY <1>1, <1>2, QuietIs, Members DEF Quiet
<1>6. r \in [kind : Kinds, at : Nat, i : Nat, acc : Nat]
  BY <1>5
<1> HIDE DEF n, r
<1>7. /\ CursorExact' /\ Locals'
      /\ \/ op' = "idle" /\ reader' = None /\ Still
         \/ op' = "read" /\ reader' = r /\ Fetched(n)
  BY <1>1, <1>2, <1>3, EnterReadIs
<1>8. Written'
  BY <1>1, <1>2, <1>7, SameWritten DEF Still, Fetched
<1>9. TypedExact'
  BY <1>2, Forgotten
<1>10. Readers' /\ Decoding'
  <2>1. CASE op' = "idle" /\ reader' = None
    BY <2>1, NoReader
  <2>2. CASE op' = "read" /\ reader' = r /\ Fetched(n)
    <3>1. kind \in {"fixed", "fstring"} => Pos + n = r.at + FixBytes /\ n = FixBytes
      BY <1>3, <1>4, <1>5
    <3>2. kind \in VarKinds => n = 1 /\ Pos >= r.at /\ r.i = Group * (Pos - r.at)
      <4>1. kind \in VarKinds => n = 1
        BY <1>3 DEF VarKinds
      <4>2. Group * (Pos - r.at) = 0 /\ Pos >= r.at
        <5>1. Pos - r.at = 0
          BY <1>4, <1>5
        <5> QED BY <1>4, <1>5, <5>1, MoreFacts
      <4> QED BY <1>4, <4>1, <4>2
    <3>3. ASSUME wrote # None, r.at = wrote.at, kind \in VarKinds, kind = wrote.kind
          PROVE  AtGroup(Bytes, Pos + 1, r, wrote)
      <4> DEFINE v == wrote.value
                 c == Number(kind, v)
                 s == Code(kind, v)
      <4>1. /\ v \in Value(kind) /\ wrote.len = Len(s)
            /\ \A k \in 1..wrote.len : Bytes[m_position + k] = s[k]
        <5>1. Holding(Bytes, wrote)
          BY <1>1, <3>3, WrittenIs
        <5> QED BY <1>4, <3>3, <5>1 DEF Holding
      <4>2. /\ s \in Seq(Byte) /\ c \in Word /\ Len(s) >= Len(Varint[c])
            /\ \A k \in 1..Len(Varint[c]) : s[k] = Varint[c][k]
            /\ kind = "string" => /\ v \in Seq(Byte) /\ Len(s) = Len(Varint[c]) + Len(v)
        BY <3>3, <4>1, CodeIs
      <4>3. c \in Nat
        <5>1. Pow2[VarBits] \in Nat
          BY CodecConstants, Pow2Positive
        <5> QED BY <4>2, <5>1 DEF Word
      <4> HIDE DEF v, c, s
      <4>4. Pow2[r.i] = 1 /\ c \div Pow2[r.i] = c /\ c % Pow2[r.i] = 0
        <5>1. Pow2[0] = 1
          BY Pow2Def
        <5>2. c \div 1 = c /\ c % 1 = 0
          BY <4>3
        <5> QED BY <1>4, <5>1, <5>2
      <4>5. Varint[c] \in Seq(Byte) /\ Len(Varint[c]) \in Nat
        BY <4>3, VarintType
      <4>6. Pos + 1 - 1 = m_position
        BY <1>5
      <4>7. ASSUME NEW k \in 1..Len(Varint[c]) PROVE Bytes[m_position + k] = Varint[c][k]
        <5>1. k \in 1..wrote.len
          <6>1. Len(s) \in Nat /\ Len(Varint[c]) <= Len(s) /\ wrote.len = Len(s)
            BY <4>1, <4>2, <4>5
          <6> QED BY <4>5, <6>1
        <5> QED BY <4>1, <4>2, <5>1
      <4>8. ASSUME kind = "string"
            PROVE  Pos + 1 - 1 + Len(Varint[c]) + Len(v) = wrote.at + wrote.len
        <5>1. Len(v) \in Nat /\ wrote.len = Len(Varint[c]) + Len(v) /\ wrote.at = m_position
          BY <1>4, <3>3, <4>1, <4>2, <4>8
        <5> QED BY <1>5, <4>5, <5>1
      <4>9. c = Number(wrote.kind, wrote.value) /\ v = wrote.value
        BY <3>3 DEF c, v
      <4>10. (Pos + 1) - 1 = m_position
        BY <1>5
      <4>11. \A k \in 1..Len(Varint[c]) : Bytes[(Pos + 1) - 1 + k] = Varint[c][k]
        BY <4>7, <4>10
      <4>12. kind = "string" =>
               (Pos + 1) - 1 + Len(Varint[c]) + Len(v) = wrote.at + wrote.len
        BY <1>5, <4>8, <4>10
      <4> QED BY <1>4, <4>4, <4>9, <4>11, <4>12 DEF AtGroup
    <3>4. kind # "body"
      BY DEF Kinds
    <3> QED BY <1>1, <1>2, <1>3, <1>4, <1>6, <2>2, <3>1, <3>2, <3>3, <3>4, ReaderStarts
  <2> QED BY <1>7, <2>1, <2>2
<1> QED BY <1>7, <1>8, <1>9, <1>10 DEF IInv

\* The readers whose last read() is over
LEMMA ReturnKeeps ==
  ASSUME CursorExact, Locals, Written, op = "next", op' = "idle", got' = <<>>, reader' = None,
         UNCHANGED <<store, m_endian, buf, npos, left>>, wrote' = wrote, TypedExact'
  PROVE  IInv'
<1>1. CursorExact' /\ Locals' /\ Returned
  BY ReturnIs
<1>2. Written'
  BY <1>1, SameWritten DEF Returned
<1> QED BY <1>1, <1>2, NoReader DEF IInv

\* The reader of a fixed-size integer has its bytes.
LEMMA FixedArrived ==
  ASSUME CursorExact, Locals, Readers, op = "next", reader.kind \in {"fixed", "fstring"}
  PROVE  /\ got \in Seq(Byte) /\ Len(got) = FixBytes /\ reader.at \in Nat
         /\ Pos = reader.at + FixBytes
         /\ \A k \in 1..FixBytes : got[k] = Bytes[reader.at + k]
<1> DEFINE n == FixBytes
           at == reader.at
<1>1. at \in Nat
  <2>1. None.kind = "none" /\ Plain.kind = "plain"
    BY DEF None, Plain
  <2> QED BY <2>1 DEF Readers
<1>2. Out = got
  BY QuietIs DEF Quiet
<1>3. Pos = at + n /\ Len(got) = n /\ got = SubSeq(Bytes, Pos - n + 1, Pos)
  BY <1>2 DEF Readers
<1>4. Bytes \in Seq(Byte) /\ Pos <= Len(Bytes) /\ got \in Seq(Byte)
  BY SeenIs, Members DEF SeenExact
<1>5. n \in Nat
  BY CodecConstants
<1> HIDE DEF n, at
<1>6. got = [k \in 1..n |-> Bytes[at + k]]
  <2>1. Pos - n + 1 = at + 1
    BY <1>1, <1>3, <1>5
  <2>2. got = SubSeq(Bytes, at + 1, at + n) /\ at + n <= Len(Bytes)
    BY <1>3, <1>4, <2>1
  <2> QED BY <1>1, <1>4, <1>5, <2>2, SubSeqIs
<1>7. \A k \in 1..n : got[k] = Bytes[at + k]
  BY <1>6
<1> QED BY <1>1, <1>3, <1>4, <1>7 DEF n, at

\* readFint16 ... readFuint64 return what was written.
LEMMA FixedReadKeeps ==
  ASSUME IInv, FixedRead
  PROVE  IInv'
<1>1. CursorExact /\ Locals /\ Readers /\ Written
  BY DEF IInv
<1>2. /\ op = "next" /\ reader.kind = "fixed" /\ reader' = None /\ op' = "idle" /\ got' = <<>>
      /\ ret' = [kind |-> reader.kind, at |-> reader.at, value |-> FixedValue(got, m_endian)]
      /\ UNCHANGED <<store, m_endian, buf, npos, left>> /\ wrote' = wrote
  BY DEF FixedRead, Return
<1>3. TypedExact'
  <2>1. SUFFICES ASSUME wrote # None, wrote.kind = "fixed", wrote.at = reader.at
                 PROVE  FixedValue(got, m_endian) = wrote.value
    BY <1>2 DEF TypedExact
  <2> DEFINE v == wrote.value
             s == Code("fixed", v)
             n == FixBytes
             at == wrote.at
  <2>2. /\ v \in Value("fixed") /\ wrote.len = Len(s)
        /\ \A k \in 1..wrote.len : Bytes[at + k] = s[k]
    <3>1. Holding(Bytes, wrote)
      BY <1>1, <2>1, WrittenIs
    <3> QED BY <2>1, <3>1 DEF Holding
  <2>3. /\ v \in 0..(Pow2[ByteBits * FixBytes] - 1) /\ s \in Seq(Byte)
        /\ s = Reverse(InMemory(v)) /\ Len(s) = n
    <3>1. "fixed" \in Kinds
      BY DEF Kinds
    <3> QED BY <2>2, <3>1, CodeIs
  <2>4. got \in Seq(Byte) /\ Len(got) = n /\ \A k \in 1..n : got[k] = Bytes[at + k]
    BY <1>1, <1>2, <2>1, FixedArrived
  <2> HIDE DEF v, s, at
  <2>5. got = s
    <3>1. \A k \in 1..n : got[k] = s[k]
      BY <2>2, <2>3, <2>4
    <3> QED BY <2>3, <2>4, <3>1, SeqEqual
  <2>6. m_endian # BYTE_ORDER
    BY <1>1 DEF CursorExact, TypeOK, BYTE_ORDER, LITTLE_ENDIAN
  <2>7. FixedValue(s, m_endian) = v
    BY <2>3, <2>6, FixedBack
  <2> QED BY <2>5, <2>7 DEF v
<1> QED BY <1>1, <1>2, <1>3, ReturnKeeps

\* The second read() of a string reader, which has read the length n.
LEMMA EnterBodyKeeps ==
  ASSUME IInv, op = "next", NEW n \in Nat, NEW kind \in {"string", "fstring"},
         NEW at \in Nat, EnterBody(n, kind, at), wrote' = wrote,
         UNCHANGED <<store, m_endian, buf>>,
         wrote # None /\ wrote.at = at /\ wrote.kind = kind /\ Fits(kind, wrote.value) =>
           /\ wrote.value \in Seq(Byte) /\ n = Len(wrote.value)
           /\ \A k \in 1..n : Bytes[Pos + k] = wrote.value[k]
  PROVE  IInv'
<1> DEFINE r == [kind |-> "body", at |-> at, of |-> kind]
           v == wrote.value
           Match == /\ wrote # None /\ wrote.at = at /\ wrote.kind = kind
                    /\ Fits(kind, wrote.value)
<1>1. CursorExact /\ Locals /\ Written /\ TypedExact
  BY DEF IInv
<1>2. /\ EnterRead(n, r)
      /\ ret' = IF op' = "idle" /\ n = 0
                  THEN [kind |-> kind, at |-> at, value |-> <<>>] ELSE ret
  BY DEF EnterBody
<1>3. /\ r.kind = "body" /\ r.at = at /\ r.of = kind
      /\ r \in [kind : {"body"}, at : Nat, of : {"string", "fstring"}]
  OBVIOUS
<1> HIDE DEF r
<1>4. /\ CursorExact' /\ Locals'
      /\ \/ op' = "idle" /\ reader' = None /\ Still
         \/ n > 0 /\ op' = "read" /\ reader' = r /\ Fetched(n)
         \/ n = 0 /\ op' = "idle" /\ reader' = None /\ Fetched(0) /\ Out' = <<>>
         \/ n = 0 /\ op' = "crashed" /\ reader' = r /\ Fetched(0)
  BY <1>1, <1>2, EnterReadIs
<1>5. Written'
  BY <1>1, <1>4, SameWritten DEF Still, Fetched
<1>6. TypedExact'
  <2>1. CASE op' = "idle" /\ n = 0
    <3>1. Match => v = <<>>
      BY <2>1, EmptySeq
    <3>2. ret' = [kind |-> kind, at |-> at, value |-> <<>>]
      BY <1>2, <2>1
    <3> QED BY <3>1, <3>2 DEF TypedExact, Fits
  <2>2. CASE ~(op' = "idle" /\ n = 0)
    <3>1. ret' = ret
      BY <1>2, <2>2
    <3> QED BY <1>1, <3>1, SameReturned
  <2> QED BY <2>1, <2>2
<1>7. Readers' /\ Decoding'
  <2>1. CASE op' = "idle" /\ reader' = None
    BY <2>1, NoReader
  <2>2. CASE n > 0 /\ op' = "read" /\ reader' = r /\ Fetched(n)
    <3>1. Match => Out' = v
      <4>1. SUFFICES ASSUME Match PROVE Out' = v
        OBVIOUS
      <4>2. Out' \in Seq(Byte) /\ Len(Out') = n /\ \A k \in 1..n : Out'[k] = Bytes[Pos + k]
        BY <1>1, <2>2, FetchedIs
      <4>3. v \in Seq(Byte) /\ Len(v) = n /\ \A k \in 1..n : v[k] = Bytes[Pos + k]
        BY <4>1
      <4> HIDE DEF v
      <4> QED BY <4>2, <4>3, SeqEqual
    <3>2. r.kind \notin VarKinds /\ r.kind \notin {"fixed", "fstring"}
      BY <1>3 DEF VarKinds
    <3>3. /\ wrote' # None /\ r.at = wrote'.at /\ r.of = wrote'.kind
          /\ Fits(wrote'.kind, wrote'.value)
          => Out' = wrote'.value
      BY <1>3, <3>1
    <3> QED BY <1>1, <1>3, <2>2, <3>2, <3>3, ReaderStarts
  <2>3. CASE op' = "crashed" /\ reader' = r
    BY <1>3, <2>3 DEF Readers, Decoding
  <2> QED BY <1>4, <2>1, <2>2, <2>3
<1> QED BY <1>4, <1>5, <1>6, <1>7 DEF IInv

\* readStringF16 and its like: the length, if it was not cut, is that of the string.
LEMMA LengthReadKeeps ==
  ASSUME IInv, LengthRead
  PROVE  IInv'
<1> DEFINE n == FixedValue(got, m_endian)
           v == wrote.value
           at == reader.at
<1>1. CursorExact /\ Locals /\ Readers /\ Written
  BY DEF IInv
<1>2. /\ op = "next" /\ reader.kind = "fstring" /\ EnterBody(n, "fstring", at)
      /\ UNCHANGED <<store, m_endian, buf>> /\ wrote' = wrote
  BY DEF LengthRead
<1>3. /\ got \in Seq(Byte) /\ Len(got) = FixBytes /\ at \in Nat /\ Pos = at + FixBytes
      /\ \A k \in 1..FixBytes : got[k] = Bytes[at + k]
  BY <1>1, <1>2, FixedArrived
<1>4. n \in Nat
  BY <1>3, FixedType
<1>5. ASSUME wrote # None, wrote.at = at, wrote.kind = "fstring", Fits("fstring", v)
      PROVE  v \in Seq(Byte) /\ n = Len(v) /\ \A k \in 1..n : Bytes[Pos + k] = v[k]
  <2> DEFINE s == Code("fstring", v)
             t == Length(v)
  <2>1. /\ v \in Value("fstring") /\ wrote.len = Len(s)
        /\ \A k \in 1..wrote.len : Bytes[at + k] = s[k]
    <3>1. Holding(Bytes, wrote)
      BY <1>1, <1>5, WrittenIs
    <3> QED BY <1>5, <3>1 DEF Holding
  <2>2. /\ v \in Seq(Byte) /\ s \in Seq(Byte) /\ Len(s) = FixBytes + Len(v)
        /\ \A k \in 1..FixBytes : s[k] = t[k]
        /\ \A k \in 1..Len(v) : s[FixBytes + k] = v[k]
    <3>1. "fstring" \in Kinds
      BY DEF Kinds
    <3> QED BY <2>1, <3>1, CodeIs
  <2>3. m_endian # BYTE_ORDER
    BY <1>1 DEF CursorExact, TypeOK, BYTE_ORDER, LITTLE_ENDIAN
  <2>4. t \in Seq(Byte) /\ Len(t) = FixBytes /\ FixedValue(t, m_endian) = Len(v)
    BY <1>5, <2>2, <2>3, LengthIs DEF Fits
  <2>5. FixBytes \in Nat /\ Len(v) \in Nat
    BY <2>2, CodecConstants
  <2> HIDE DEF v, s, t, at
  <2>6. got = t
    <3>1. ASSUME NEW k \in 1..FixBytes PROVE got[k] = t[k]
      <4>1. k \in 1..wrote.len
        BY <2>1, <2>2, <2>5
      <4>2. got[k] = Bytes[at + k] /\ s[k] = t[k]
        BY <1>3, <2>2
      <4> QED BY <2>1, <4>1, <4>2
    <3> QED BY <1>3, <2>4, <3>1, SeqEqual
  <2>7. n = Len(v)
    BY <2>4, <2>6
  <2>8. ASSUME NEW k \in 1..Len(v) PROVE Bytes[Pos + k] = v[k]
    <3>1. FixBytes + k \in 1..wrote.len /\ at + (FixBytes + k) = Pos + k
      BY <1>3, <2>1, <2>2, <2>5
    <3>2. Bytes[at + (FixBytes + k)] = s[FixBytes + k]
      BY <2>1, <3>1
    <3> QED BY <2>2, <3>1, <3>2
  <2> QED BY <2>2, <2>7, <2>8
<1> HIDE DEF n, at
<1> QED BY <1>2, <1>3, <1>4, <1>5, EnterBodyKeeps

\* A string reader returns the bytes behind its length.
LEMMA StringReadKeeps ==
  ASSUME IInv, StringRead
  PROVE  IInv'
<1>1. CursorExact /\ Locals /\ Readers /\ Written /\ Decoding
  BY DEF IInv
<1>2. /\ op = "next" /\ reader.kind = "body" /\ reader' = None /\ op' = "idle" /\ got' = <<>>
      /\ ret' = [kind |-> reader.of, at |-> reader.at, value |-> got]
      /\ UNCHANGED <<store, m_endian, buf, npos, left>> /\ wrote' = wrote
  BY DEF StringRead
<1>3. TypedExact'
  <2>1. SUFFICES ASSUME wrote # None, wrote.kind = reader.of, wrote.at = reader.at,
                        Fits(wrote.kind, wrote.value)
                 PROVE  got = wrote.value
    BY <1>2 DEF TypedExact, Fits
  <2>2. reader # Plain
    BY <1>2 DEF Plain
  <2>3. Out = wrote.value
    BY <1>1, <1>2, <2>1, <2>2 DEF Decoding
  <2>4. Out = got
    BY <1>1, <1>2, QuietIs DEF Quiet
  <2> QED BY <2>3, <2>4
<1> QED BY <1>1, <1>2, <1>3, ReturnKeeps

\* The reader of a Varint has its byte.
LEMMA ByteArrived ==
  ASSUME CursorExact, Locals, Readers, op = "next", reader.kind \in VarKinds
  PROVE  /\ reader \in [kind : Kinds, at : Nat, i : Nat, acc : Nat]
         /\ got[1] = Bytes[Pos] /\ got[1] \in Nat /\ Pos \in Nat /\ Pos > reader.at
         /\ reader.i = Group * (Pos - reader.at - 1)
         /\ AddGroup(reader.acc, got[1], reader.i) \in Nat
<1>1. reader \in [kind : Kinds, at : Nat, i : Nat, acc : Nat]
  <2>1. /\ None.kind \notin VarKinds /\ Plain.kind \notin VarKinds
        /\ "body" \notin VarKinds /\ "at" \notin VarKinds
    BY DEF None, Plain, VarKinds
  <2>2. \/ reader \in {None, Plain}
        \/ reader \in [kind : Kinds, at : Nat, i : Nat, acc : Nat]
        \/ reader \in [kind : {"body"}, at : Nat, of : {"string", "fstring"}]
        \/ reader \in [kind : {"at"}, at : Nat]
    BY DEF Readers
  <2> QED BY <2>1, <2>2
<1>2. Out = got
  BY QuietIs DEF Quiet
<1>3. /\ Len(got) = 1 /\ got = SubSeq(Bytes, Pos - 1 + 1, Pos) /\ Pos > reader.at
      /\ reader.i = Group * (Pos - reader.at - 1)
  BY <1>2 DEF Readers
<1>4. Bytes \in Seq(Byte) /\ Pos \in Nat /\ Pos <= Len(Bytes) /\ got \in Seq(Byte)
  BY SeenIs, Members DEF SeenExact
<1>5. got[1] = Bytes[Pos]
  <2> DEFINE p == Pos - 1
             n == 1
  <2>1. p \in Nat /\ p + n = Pos /\ p + n <= Len(Bytes) /\ reader.at \in Nat /\ n \in Nat
    BY <1>1, <1>3, <1>4
  <2>2. got = SubSeq(Bytes, p + 1, p + n)
    BY <1>3, <2>1
  <2>3. 1 \in 1..n
    OBVIOUS
  <2> HIDE DEF p, n
  <2>4. got = [k \in 1..n |-> Bytes[p + k]]
    BY <1>4, <2>1, <2>2, SubSeqIs
  <2>5. got[1] = Bytes[p + 1]
    BY <2>3, <2>4
  <2> QED BY <2>1, <2>5 DEF n
<1>6. got[1] \in Byte
  BY <1>3, <1>4
<1>7. got[1] \in Nat
  BY <1>6, MoreFacts
<1>8. AddGroup(reader.acc, got[1], reader.i) \in Nat
  <2> DEFINE a == reader.acc
             b == got[1] % More
             p == Pow2[reader.i]
             top == Pow2[VarBits]
  <2>1. a \in Nat /\ reader.i \in Nat
    BY <1>1
  <2>2. b \in Nat /\ p \in Nat /\ top \in Nat \ {0}
    <3>1. More \in Nat \ {0}
      BY MoreFacts
    <3>2. b \in 0..(More - 1)
      BY <1>7, <3>1, DivMod
    <3> QED BY <2>1, <3>1, <3>2, CodecConstants, Pow2Positive
  <2>3. AddGroup(reader.acc, got[1], reader.i) = (a + b * p) % top
    BY DEF AddGroup
  <2> HIDE DEF a, b, p, top
  <2>4. a + b * p \in Nat
    BY <2>1, <2>2
  <2>5. (a + b * p) % top \in Nat
    BY <2>2, <2>4, DivMod
  <2> QED BY <2>3, <2>5
<1> QED BY <1>1, <1>3, <1>4, <1>5, <1>7, <1>8

\* The byte belongs to the value that is intact.
LEMMA ByteOfValue ==
  ASSUME CursorExact, Locals, Readers, Written, Decoding, op = "next",
         reader.kind \in VarKinds, wrote # None, wrote.at = reader.at, wrote.kind = reader.kind,
         NEW b, b = got[1], NEW acc, acc = AddGroup(reader.acc, b, reader.i)
  PROVE  LET v == wrote.value
             c == Number(reader.kind, v)
             t == Varint[c]
         IN  /\ v \in Value(reader.kind) /\ c \in Word
             /\ ~LastGroup(b, reader.i) =>
                  \A r : /\ r.kind = reader.kind /\ r.at = reader.at
                         /\ r.i = reader.i + Group /\ r.acc = acc
                         => AtGroup(Bytes, Pos + 1, r, wrote)
             /\ LastGroup(b, reader.i) =>
                  /\ acc = c
                  /\ reader.kind = "string" =>
                       /\ v \in Seq(Byte) /\ c = Len(v) /\ Len(t) \in Nat
                       /\ Pos = wrote.at + Len(t)
                       /\ \A k \in 1..Len(v) : Bytes[Pos + k] = v[k]
<1> DEFINE kind == reader.kind
           v == wrote.value
           c == Number(kind, v)
           t == Varint[c]
           i == reader.i
           w == c \div Pow2[i]
           rest == Varint[w]
           u == c \div Pow2[i + Group]
           s == Code(kind, v)
<1>1. /\ reader \in [kind : Kinds, at : Nat, i : Nat, acc : Nat]
      /\ b = Bytes[Pos] /\ Pos \in Nat /\ Pos > reader.at
  BY ByteArrived
<1>2. /\ v \in Value(kind) /\ wrote.len = Len(s) /\ wrote.at \in Nat /\ kind \in Kinds
      /\ \A k \in 1..wrote.len : Bytes[wrote.at + k] = s[k]
  <2>1. Holding(Bytes, wrote)
    BY WrittenIs
  <2> QED BY <1>1, <2>1 DEF Holding
<1>3. /\ c \in Word
      /\ kind = "string" => /\ v \in Seq(Byte) /\ c = Len(v) /\ Len(s) = Len(t) + Len(v)
                            /\ \A k \in 1..Len(v) : s[Len(t) + k] = v[k]
  BY <1>2, CodeIs
<1>4. reader # Plain
  <2>1. Plain.kind \notin VarKinds
    BY DEF Plain, VarKinds
  <2> QED BY <2>1
<1>5. /\ reader.acc = c % Pow2[i]
      /\ \A k \in 1..Len(rest) : Bytes[Pos - 1 + k] = rest[k]
      /\ kind = "string" => Pos - 1 + Len(rest) + Len(v) = wrote.at + wrote.len
  BY <1>4 DEF Decoding
<1>6. i \in Nat
  BY <1>1
<1> HIDE DEF kind, v, i, s
<1>7. /\ w \in Nat
      /\ w >= More => /\ ~LastGroup(rest[1], i) /\ AddGroup(c % Pow2[i], rest[1], i) = c % Pow2[i + Group]
                      /\ u \in Nat /\ Len(rest) = 1 + Len(Varint[u])
                      /\ \A k \in 1..Len(Varint[u]) : rest[1 + k] = Varint[u][k]
      /\ w < More => LastGroup(rest[1], i) /\ AddGroup(c % Pow2[i], rest[1], i) = c /\ Len(rest) = 1
  <2> HIDE DEF c
  <2> QED BY <1>3, <1>6, VarintStep
<1> HIDE DEF c, w, u
<1>8. More \in Nat
  BY MoreFacts
<1>9. b = rest[1]
  <2>1. Len(rest) >= 1 /\ Len(rest) \in Nat
    BY <1>7, VarintType
  <2>2. 1 \in 1..Len(rest) /\ Pos - 1 + 1 = Pos
    BY <1>1, <2>1
  <2> QED BY <1>1, <1>5, <2>2
<1>10. acc = AddGroup(c % Pow2[i], rest[1], i)
  BY <1>5, <1>9 DEF i
<1> HIDE DEF rest
<1>11. ASSUME ~LastGroup(b, reader.i), NEW r, r.kind = reader.kind, r.at = reader.at,
              r.i = reader.i + Group, r.acc = acc
       PROVE  AtGroup(Bytes, Pos + 1, r, wrote)
  <2>1. w >= More
    BY <1>7, <1>8, <1>9, <1>11 DEF i
  <2>2. r.acc = c % Pow2[r.i] /\ c \div Pow2[r.i] = u
    BY <1>7, <1>10, <1>11, <2>1 DEF i, u
  <2>3. u \in Nat /\ Len(rest) = 1 + Len(Varint[u]) /\ Len(Varint[u]) \in Nat
        /\ \A k \in 1..Len(Varint[u]) : rest[1 + k] = Varint[u][k]
    <3>1. u \in Nat
      BY <1>7, <2>1
    <3>2. Len(Varint[u]) \in Nat
      BY <3>1, VarintType
    <3> QED BY <1>7, <2>1, <3>2
  <2>4. ASSUME NEW k \in 1..Len(Varint[u]) PROVE Bytes[(Pos + 1) - 1 + k] = Varint[u][k]
    <3>0. Pos \in Nat /\ Len(rest) = 1 + Len(Varint[u]) /\ Len(Varint[u]) \in Nat
      BY <1>1, <2>3
    <3>1. 1 + k \in 1..Len(rest) /\ Pos - 1 + (1 + k) = (Pos + 1) - 1 + k
      BY <3>0
    <3>2. Bytes[Pos - 1 + (1 + k)] = rest[1 + k]
      BY <1>5, <3>1
    <3> QED BY <2>3, <3>1, <3>2
  <2>5. kind = "string" => (Pos + 1) - 1 + Len(Varint[u]) + Len(v) = wrote.at + wrote.len
    <3>1. SUFFICES ASSUME kind = "string"
                   PROVE  (Pos + 1) - 1 + Len(Varint[u]) + Len(v) = wrote.at + wrote.len
      OBVIOUS
    <3>2. Len(v) \in Nat
      BY <1>3, <3>1
    <3>3. Pos - 1 + Len(rest) + Len(v) = wrote.at + wrote.len
      BY <1>5, <3>1
    <3> QED BY <1>1, <2>3, <3>2, <3>3
  <2>6. c = Number(wrote.kind, wrote.value) /\ v = wrote.value /\ r.kind = kind
    BY <1>11 DEF c, kind, v
  <2> QED BY <2>2, <2>4, <2>5, <2>6 DEF AtGroup
<1>12. ASSUME LastGroup(b, reader.i) PROVE acc = c /\ Len(rest) = 1
  <2>1. w < More
    BY <1>7, <1>8, <1>9, <1>12 DEF i
  <2> QED BY <1>7, <1>10, <2>1
<1>13. ASSUME LastGroup(b, reader.i), kind = "string"
       PROVE  /\ v \in Seq(Byte) /\ c = Len(v) /\ Len(t) \in Nat /\ Pos = wrote.at + Len(t)
              /\ \A k \in 1..Len(v) : Bytes[Pos + k] = v[k]
  <2>1. v \in Seq(Byte) /\ c = Len(v) /\ Len(v) \in Nat /\ Len(s) = Len(t) + Len(v)
        /\ \A k \in 1..Len(v) : s[Len(t) + k] = v[k]
    BY <1>3, <1>13
  <2>2. Len(t) \in Nat
    BY <2>1, VarintType
  <2> HIDE DEF t
  <2>3. Pos = wrote.at + Len(t)
    <3>1. Pos - 1 + 1 + Len(v) = wrote.at + wrote.len /\ wrote.len = Len(t) + Len(v)
      BY <1>2, <1>5, <1>12, <1>13, <2>1
    <3>2. Pos \in Nat /\ wrote.at \in Nat /\ Len(v) \in Nat
      BY <1>1, <1>2, <2>1
    <3> QED BY <2>2, <3>1, <3>2
  <2>4. ASSUME NEW k \in 1..Len(v) PROVE Bytes[Pos + k] = v[k]
    <3>1. Len(t) + k \in 1..wrote.len /\ wrote.at + (Len(t) + k) = Pos + k
      BY <1>2, <2>1, <2>2, <2>3
    <3>2. Bytes[wrote.at + (Len(t) + k)] = s[Len(t) + k]
      BY <1>2, <3>1
    <3> QED BY <2>1, <3>1, <3>2
  <2> QED BY <2>1, <2>2, <2>3, <2>4
<1> QED BY <1>2, <1>3, <1>11, <1>12, <1>13 DEF kind, v, c, t

\* A byte of a Varint: its group goes above the bits the reader has.
LEMMA VarintByteKeeps ==
  ASSUME IInv, VarintByte
  PROVE  IInv'
<1> DEFINE b == got[1]
           acc == AddGroup(reader.acc, b, reader.i)
           Match == wrote # None /\ wrote.at = reader.at /\ wrote.kind = reader.kind
           v == wrote.value
           c == Number(reader.kind, v)
<1>1. CursorExact /\ Locals /\ Readers /\ Written /\ Decoding /\ TypedExact
  BY DEF IInv
<1>2. /\ op = "next" /\ reader.kind \in VarKinds /\ wrote' = wrote
      /\ UNCHANGED <<store, m_endian, buf>>
  BY DEF VarintByte, VarKinds
<1>3. /\ reader \in [kind : Kinds, at : Nat, i : Nat, acc : Nat]
      /\ Pos \in Nat /\ Pos > reader.at /\ reader.i = Group * (Pos - reader.at - 1)
      /\ acc \in Nat
  BY <1>1, <1>2, ByteArrived
<1>4. ASSUME Match
      PROVE  /\ v \in Value(reader.kind) /\ c \in Word
             /\ ~LastGroup(b, reader.i) =>
                  \A r : /\ r.kind = reader.kind /\ r.at = reader.at
                         /\ r.i = reader.i + Group /\ r.acc = acc
                         => AtGroup(Bytes, Pos + 1, r, wrote)
             /\ LastGroup(b, reader.i) =>
                  /\ acc = c
                  /\ reader.kind = "string" => /\ v \in Seq(Byte) /\ c = Len(v)
                                               /\ \A k \in 1..Len(v) : Bytes[Pos + k] = v[k]
  BY <1>1, <1>2, <1>4, ByteOfValue
<1>5. CASE ~LastGroup(b, reader.i)
  <2> DEFINE r == [reader EXCEPT !.i = @ + Group, !.acc = acc]
  <2>1. EnterRead(1, r) /\ ret' = ret
    BY <1>5 DEF VarintByte
  <2>2. r.kind = reader.kind /\ r.at = reader.at /\ r.i = reader.i + Group /\ r.acc = acc
    BY <1>3
  <2>3. r \in [kind : Kinds, at : Nat, i : Nat, acc : Nat]
    <3>1. reader.i + Group \in Nat
      BY <1>3, MoreFacts
    <3> HIDE DEF acc
    <3> QED BY <1>3, <3>1
  <2> HIDE DEF r
  <2>4. /\ CursorExact' /\ Locals'
        /\ \/ op' = "idle" /\ reader' = None /\ Still
           \/ op' = "read" /\ reader' = r /\ Fetched(1)
    BY <1>1, <1>2, <2>1, EnterReadIs
  <2>5. Written' /\ TypedExact'
    BY <1>1, <1>2, <2>1, <2>4, SameWritten, SameReturned DEF Still, Fetched
  <2>6. Readers' /\ Decoding'
    <3>1. CASE op' = "idle" /\ reader' = None
      BY <3>1, NoReader
    <3>2. CASE op' = "read" /\ reader' = r /\ Fetched(1)
      <4>1. Pos >= r.at /\ r.i = Group * (Pos - r.at)
        <5> DEFINE d == Pos - reader.at - 1
        <5>1. d \in Nat /\ Pos - reader.at = d + 1 /\ Pos >= reader.at
          BY <1>3
        <5>2. Group * (d + 1) = Group * d + Group
          BY <5>1, MoreFacts
        <5>3. reader.i = Group * d
          BY <1>3
        <5> HIDE DEF d
        <5> QED BY <2>2, <5>1, <5>2, <5>3
      <4>2. r.kind \notin {"fixed", "fstring"} /\ r.kind # "body" /\ r.kind \in VarKinds
        BY <1>2, <2>2 DEF VarKinds
      <4>3. wrote # None /\ r.at = wrote.at /\ r.kind = wrote.kind =>
              AtGroup(Bytes, Pos + 1, r, wrote)
        BY <1>4, <1>5, <2>2
      <4> QED BY <1>1, <1>2, <2>3, <3>2, <4>1, <4>2, <4>3, ReaderStarts
    <3> QED BY <2>4, <3>1, <3>2
  <2> QED BY <2>4, <2>5, <2>6 DEF IInv
<1>6. CASE LastGroup(b, reader.i) /\ reader.kind = "string"
  <2>1. EnterBody(acc, "string", reader.at) /\ reader.at \in Nat
    BY <1>3, <1>6 DEF VarintByte
  <2>2. ASSUME wrote # None, wrote.at = reader.at, wrote.kind = "string"
        PROVE  /\ wrote.value \in Seq(Byte) /\ acc = Len(wrote.value)
               /\ \A k \in 1..acc : Bytes[Pos + k] = wrote.value[k]
    <3> HIDE DEF acc
    <3> QED BY <1>4, <1>6, <2>2
  <2> HIDE DEF acc
  <2> QED BY <1>2, <1>3, <2>1, <2>2, EnterBodyKeeps
<1>7. CASE LastGroup(b, reader.i) /\ reader.kind # "string"
  <2> DEFINE x == IF reader.kind = "signed" THEN DecodeZigzag(acc) ELSE acc
  <2>1. Return(x)
    BY <1>7 DEF VarintByte
  <2> HIDE DEF acc
  <2>2. /\ ret' = [kind |-> reader.kind, at |-> reader.at, value |-> x]
        /\ reader' = None /\ op' = "idle" /\ got' = <<>> /\ UNCHANGED <<npos, left>>
    BY <2>1 DEF Return
  <2>3. TypedExact'
    <3>1. SUFFICES ASSUME Match PROVE x = v
      BY <1>2, <2>2 DEF TypedExact
    <3>2. v \in Value(reader.kind) /\ acc = c
      BY <1>4, <1>7, <3>1
    <3>3. /\ reader.kind = "unsigned" => c = v
          /\ reader.kind = "signed" => DecodeZigzag(c) = v
      <4>1. reader.kind \in Kinds
        BY <1>3
      <4> QED BY <3>2, <4>1, CodeIs
    <3> QED BY <1>2, <1>7, <3>2, <3>3 DEF VarKinds
  <2> QED BY <1>1, <1>2, <2>2, <2>3, ReturnKeeps
<1> QED BY <1>5, <1>6, <1>7

-----------------------------------------------------------------------------
(***************************************************************************)
(* The buffers                                                             *)
(***************************************************************************)

FileLoops == Int \X Nat \X Int

\* How much an iteration of writeToFile writes
Chunk(size, pos) == Smaller(size, Base) - (pos % Base)

\* An iteration of writeToFile writes a whole number of bytes.
LEMMA ChunkType ==
  ASSUME NEW a \in Int, NEW p \in Int
  PROVE  p % Base \in 0..(Base - 1) /\ Chunk(a, p) \in Int
<1>1. p % Base \in 0..(Base - 1)
  BY BaseFacts
<1> QED BY <1>1, BaseFacts DEF Chunk, Smaller

\* The recursive definition of FileCells defines a function.
LEMMA FileCellsDef ==
  ASSUME Len(nodes) \in Nat, NEW n \in Int, NEW node \in Nat, NEW pos \in Int
  PROVE  FileCells[<<n, node, pos>>] =
           IF n <= 0 THEN <<>>
           ELSE IF node \notin 1..Len(nodes) THEN <<<<0, 0>>>>
           ELSE InNode(Chunk(n, pos), node, pos % Base)
                  \o FileCells[<<n - Chunk(n, pos), node + 1, pos + Chunk(n, pos)>>]
<1> DEFINE Part(d) == Chunk(d[1], d[3])
           Rest(d) == <<d[1] - Part(d), d[2] + 1, d[3] + Part(d)>>
           Here(d) == InNode(Part(d), d[2], d[3] % Base)
           len == Len(nodes)
           S == Seq(Nat \X Nat)
           null == <<<<0, 0>>>>
           more == {d \in FileLoops : ~(d[1] <= 0) /\ d[2] \in 1..len}
           rank == [d \in FileLoops |-> IF d[2] <= len THEN len + 1 - d[2] ELSE 0]
           next == [d \in more |-> Rest(d)]
           base == [d \in FileLoops |-> IF d[1] <= 0 THEN <<>> ELSE null]
           comb == [d \in FileLoops |-> [x \in S |-> Here(d) \o x]]
<1> HIDE DEF len
<1>0. len \in Nat
  BY DEF len
<1>1. \A d \in FileLoops : d[1] \in Int /\ d[2] \in Nat /\ d[3] \in Int
  BY DEF FileLoops
<1>2. rank \in [FileLoops -> Nat] /\ more \in SUBSET FileLoops
  BY <1>0, <1>1
<1>3. \A d \in FileLoops : Part(d) \in Int /\ d[3] % Base \in 0..(Base - 1)
  BY <1>1, ChunkType
<1>4. \A d \in more : Rest(d) \in FileLoops /\ Rest(d)[2] = d[2] + 1
  <2> HIDE DEF Part
  <2> QED BY <1>1, <1>3 DEF FileLoops
<1>5. next \in [more -> FileLoops] /\ \A d \in more : rank[next[d]] < rank[d]
  <2> HIDE DEF Rest
  <2>1. next \in [more -> FileLoops]
    BY <1>4
  <2>2. ASSUME NEW d \in more PROVE rank[next[d]] < rank[d]
    <3> DEFINE e == Rest(d)
    <3>1. d \in FileLoops /\ d[2] \in 1..len
      OBVIOUS
    <3>2. e \in FileLoops /\ e[2] = d[2] + 1
      BY <1>4
    <3>3. next[d] = e
      OBVIOUS
    <3> HIDE DEF more, e, next
    <3> QED BY <1>0, <3>1, <3>2, <3>3
  <2> QED BY <2>1, <2>2
<1>6. base \in [FileLoops -> S]
  <2>1. null \in S /\ <<>> \in S
    OBVIOUS
  <2> HIDE DEF S, null
  <2> QED BY <2>1
<1>7. \A d \in FileLoops : Here(d) \in S
  <2>1. \A d \in FileLoops : Part(d) \in Int /\ d[2] \in Nat /\ d[3] % Base \in Nat
    BY <1>1, <1>3
  <2> HIDE DEF Part
  <2> QED BY <2>1, InNodeType
<1>8. comb \in [FileLoops -> [S -> S]]
  <2> HIDE DEF Here
  <2>1. ASSUME NEW d \in FileLoops, NEW x \in S PROVE Here(d) \o x \in S
    BY <1>7, <2>1, ConcatProperties
  <2> HIDE DEF S
  <2> QED BY <2>1
<1> HIDE DEF S, more, rank, next, base, comb
<1>9. PICK f \in [FileLoops -> S] : Solves(f, FileLoops, more, next, base, comb)
  BY <1>2, <1>5, <1>6, <1>8, Recursion
<1>10. ASSUME NEW d \in FileLoops
       PROVE  f[d] = IF d[1] <= 0 THEN <<>> ELSE IF d[2] \notin 1..len THEN null
                     ELSE Here(d) \o f[Rest(d)]
  <2> HIDE DEF Rest, Here, null
  <2>1. f[d] = IF d \in more THEN comb[d][f[next[d]]] ELSE base[d]
    BY <1>9 DEF Solves
  <2>2. d \in more <=> ~(d[1] <= 0) /\ d[2] \in 1..len
    BY DEF more
  <2>3. d \in more => next[d] = Rest(d) /\ f[Rest(d)] \in S
    BY <1>4 DEF next
  <2>4. base[d] = IF d[1] <= 0 THEN <<>> ELSE null
    BY DEF base
  <2>5. \A x \in S : comb[d][x] = Here(d) \o x
    BY DEF comb
  <2> QED BY <2>1, <2>2, <2>3, <2>4, <2>5
<1>11. f = [d \in FileLoops |-> IF d[1] <= 0 THEN <<>> ELSE IF d[2] \notin 1..len THEN null
                                ELSE Here(d) \o f[Rest(d)]]
  <2> HIDE DEF Rest, Here, null
  <2> QED BY <1>10
<1>12. FileCells = [d \in FileLoops |->
                      IF d[1] <= 0 THEN <<>> ELSE IF d[2] \notin 1..len THEN null
                      ELSE Here(d) \o FileCells[Rest(d)]]
  BY <1>11 DEF FileCells, FileLoops, Chunk, len
<1>13. <<n, node, pos>> \in FileLoops
  BY DEF FileLoops
<1> QED BY <1>12, <1>13 DEF len

\* The cells of n bytes from position p on
Span(p, n) == [k \in 1..n |-> <<((p + k - 1) \div Base) + 1, (p + k - 1) % Base>>]

\* A span is a sequence of cells.
LEMMA SpanType ==
  ASSUME NEW p \in Nat, NEW n \in Nat
  PROVE  Span(p, n) \in Seq(Nat \X Nat) /\ Len(Span(p, n)) = n
<1>1. ASSUME NEW k \in 1..n
      PROVE  <<((p + k - 1) \div Base) + 1, (p + k - 1) % Base>> \in Nat \X Nat
  <2> DEFINE x == p + k - 1
  <2>1. x \in Nat
    OBVIOUS
  <2> HIDE DEF x
  <2>2. x \div Base \in Nat /\ x % Base \in Nat
    BY <2>1, InBase
  <2> QED BY <2>2 DEF x
<1>2. Span(p, n) \in [1..n -> Nat \X Nat]
  BY <1>1 DEF Span
<1> QED BY <1>2, AsSeq

\* Two spans, the second where the first ends, are one.
LEMMA SpanJoin ==
  ASSUME NEW p \in Nat, NEW a \in Nat, NEW b \in Nat
  PROVE  Span(p, a) \o Span(p + a, b) = Span(p, a + b)
<1> DEFINE s == Span(p, a)
           t == Span(p + a, b)
           u == Span(p, a + b)
           Q == Nat \X Nat
<1>1. /\ s \in Seq(Q) /\ Len(s) = a /\ t \in Seq(Q) /\ Len(t) = b
      /\ u \in Seq(Q) /\ Len(u) = a + b
  <2>1. p + a \in Nat /\ a + b \in Nat
    OBVIOUS
  <2>2. s \in Seq(Q) /\ Len(s) = a
    BY SpanType
  <2>3. t \in Seq(Q) /\ Len(t) = b
    BY <2>1, SpanType
  <2>4. u \in Seq(Q) /\ Len(u) = a + b
    BY <2>1, SpanType
  <2> QED BY <2>2, <2>3, <2>4
<1> HIDE DEF Q
<1>2. /\ s \o t \in Seq(Q) /\ Len(s \o t) = a + b
      /\ \A i \in 1..(a + b) : (s \o t)[i] = IF i <= a THEN s[i] ELSE t[i - a]
  <2> HIDE DEF s, t
  <2> QED BY <1>1, ConcatProperties
<1>3. ASSUME NEW i \in 1..(a + b) PROVE (s \o t)[i] = u[i]
  <2>1. u[i] = <<((p + i - 1) \div Base) + 1, (p + i - 1) % Base>>
    BY DEF Span
  <2>2. CASE i <= a
    <3>1. s[i] = <<((p + i - 1) \div Base) + 1, (p + i - 1) % Base>>
      BY <2>2 DEF Span
    <3> QED BY <1>2, <2>1, <2>2, <3>1
  <2>3. CASE ~(i <= a)
    <3> DEFINE j == i - a
    <3>1. j \in 1..b /\ (p + a) + j - 1 = p + i - 1
      BY <2>3
    <3>2. t[j] = <<(((p + a) + j - 1) \div Base) + 1, ((p + a) + j - 1) % Base>>
      BY <3>1 DEF Span
    <3>3. t[j] = u[i]
      BY <2>1, <3>1, <3>2
    <3> QED BY <1>2, <2>3, <3>3
  <2> QED BY <2>2, <2>3
<1> HIDE DEF s, t, u
<1>4. s \o t = u
  <2> DEFINE w == s \o t
  <2> HIDE DEF w
  <2>1. w \in Seq(Q) /\ Len(w) = Len(u) /\ \A i \in 1..Len(w) : w[i] = u[i]
    BY <1>1, <1>2, <1>3 DEF w
  <2> QED BY <1>1, <2>1, SeqEqual DEF w
<1> QED BY <1>4 DEF s, t, u

\* The cells of a node from a position on, up to its end, are a span.
LEMMA InNodeSpan ==
  ASSUME NEW p \in Nat, NEW m \in Nat, m <= Base - (p % Base)
  PROVE  InNode(m, (p \div Base) + 1, p % Base) = Span(p, m)
<1> DEFINE node == (p \div Base) + 1
           off == p % Base
<1>1. node \in Nat /\ off \in Nat /\ off \in 0..(Base - 1)
  BY InBase
<1>2. Cells[<<m, node, off>>] = Span(p, m)
  BY CellsFrom DEF Span
<1>3. Base - off >= m
  BY <1>1, BaseFacts
<1> HIDE DEF node, off
<1>4. Cells[<<m, node, off>>] = InNode(m, node, off)
  BY <1>1, <1>3, CellsDef
<1> QED BY <1>2, <1>4 DEF node, off

\* The start of the node after the one of p.
LEMMA NextStart ==
  ASSUME NEW p \in Nat
  PROVE  LET q == p + (Base - (p % Base))
         IN  q \in Nat /\ q > p /\ q \div Base = (p \div Base) + 1 /\ q % Base = 0
<1> DEFINE d == p \div Base
           r == p % Base
           q == p + (Base - r)
<1>1. d \in Nat /\ r \in 0..(Base - 1) /\ p = Base * d + r /\ Base \in Nat \ {0}
  BY InBase, BaseFacts
<1> HIDE DEF d, r
<1>2. q \in Nat /\ q > p
  BY <1>1
<1>3. q = Base * (d + 1)
  <2>1. Base * (d + 1) = Base * d + Base
    BY <1>1
  <2>2. Base * d \in Nat
    BY <1>1
  <2> QED BY <1>1, <2>1, <2>2
<1> HIDE DEF q
<1>4. d + 1 \in Nat
  BY <1>1
<1>5. q \div Base = d + 1 /\ q % Base = 0
  BY <1>1, <1>2, <1>3, <1>4, DivExact
<1> QED BY <1>2, <1>5 DEF q, d, r

\* One iteration of writeToFile: the rest of a node that is not the last one, or the
\* last bytes.
LEMMA FileStep ==
  ASSUME Len(nodes) \in Nat, NEW p \in Nat, NEW n \in Nat \ {0}, p + n <= Base * Len(nodes),
         p % Base = 0 \/ n > Base
  PROVE  FileCells[<<n, (p \div Base) + 1, p>>] =
           IF n > Base
             THEN Span(p, Base - (p % Base))
                    \o FileCells[<<n - (Base - (p % Base)),
                                   ((p + (Base - (p % Base))) \div Base) + 1,
                                   p + (Base - (p % Base))>>]
             ELSE Span(p, n)
<1> DEFINE d == p \div Base
           r == p % Base
           c == Chunk(n, p)
<1>1. d \in Nat /\ r \in 0..(Base - 1) /\ Base \in Nat \ {0}
  BY InBase, BaseFacts
<1>2. d + 1 \in 1..Len(nodes)
  <2>1. Base * Len(nodes) \in Nat
    BY <1>1
  <2>2. p < Base * Len(nodes)
    BY <2>1
  <2> QED BY <2>2, NodeIndex
<1>3. c = IF n > Base THEN Base - r ELSE n
  <2>1. c = (IF n < Base THEN n ELSE Base) - r
    BY DEF Chunk, Smaller
  <2> HIDE DEF c
  <2> QED BY <1>1, <2>1
<1>4. c \in Nat /\ c <= Base - r
  <2> HIDE DEF c
  <2>1. r = 0 \/ n > Base
    OBVIOUS
  <2> HIDE DEF r
  <2> QED BY <1>1, <1>3, <2>1
<1>5. InNode(c, d + 1, r) = Span(p, c)
  <2> HIDE DEF c
  <2> QED BY <1>4, InNodeSpan
<1>6. FileCells[<<n, d + 1, p>>] = InNode(c, d + 1, r) \o FileCells[<<n - c, d + 2, p + c>>]
  <2>1. d + 1 \in Nat /\ n \in Int /\ p \in Int /\ ~(n <= 0) /\ (d + 1) + 1 = d + 2
    BY <1>1
  <2> HIDE DEF d
  <2> DEFINE e == d + 1
  <2>2. e \in Nat /\ e \in 1..Len(nodes) /\ e + 1 = d + 2
    BY <1>2, <2>1
  <2> HIDE DEF e
  <2>3. FileCells[<<n, e, p>>] =
          IF n <= 0 THEN <<>>
          ELSE IF e \notin 1..Len(nodes) THEN <<<<0, 0>>>>
          ELSE InNode(c, e, r) \o FileCells[<<n - c, e + 1, p + c>>]
    BY <2>1, <2>2, FileCellsDef
  <2> HIDE DEF c, r
  <2>4. FileCells[<<n, e, p>>] = InNode(c, e, r) \o FileCells[<<n - c, d + 2, p + c>>]
    BY <2>1, <2>2, <2>3
  <2> QED BY <2>4 DEF e
<1>7. CASE n > Base
  <2>1. c = Base - r
    BY <1>3, <1>7
  <2>2. (p + (Base - r)) \div Base = d + 1
    BY NextStart
  <2>3. (d + 1) + 1 = d + 2
    BY <1>1
  <2> HIDE DEF c, d, r
  <2>4. FileCells[<<n, d + 1, p>>] =
          Span(p, Base - r) \o FileCells[<<n - (Base - r), ((p + (Base - r)) \div Base) + 1,
                                           p + (Base - r)>>]
    BY <1>5, <1>6, <2>1, <2>2, <2>3
  <2> QED BY <1>7, <2>4 DEF d, r
<1>8. CASE ~(n > Base)
  <2>1. c = n /\ n - c = 0
    BY <1>3, <1>8
  <2>2. FileCells[<<n - c, d + 2, p + c>>] = <<>>
    <3>1. d + 2 \in Nat /\ n - c \in Int /\ p + c \in Int /\ n - c <= 0
      <4> HIDE DEF c, d
      <4> QED BY <1>1, <2>1
    <3> HIDE DEF c, d
    <3> QED BY <3>1, FileCellsDef
  <2>3. Span(p, c) \in Seq(Nat \X Nat)
    <3> HIDE DEF c
    <3> QED BY <1>4, SpanType
  <2> HIDE DEF c, d, r
  <2>4. Span(p, c) \o <<>> = Span(p, c)
    BY <2>3, ConcatEmptySeq
  <2>5. FileCells[<<n, d + 1, p>>] = Span(p, n)
    BY <1>5, <1>6, <2>1, <2>2, <2>4
  <2> QED BY <1>8, <2>5 DEF d
<1> QED BY <1>7, <1>8

\* writeToFile goes over the nodes as the positions do.
LEMMA FileCellsAre ==
  ASSUME Len(nodes) \in Nat
  PROVE  \A n \in Nat : \A p \in Nat :
           p + n <= Base * Len(nodes) /\ (p % Base = 0 \/ n > Base) =>
             FileCells[<<n, (p \div Base) + 1, p>>] = Span(p, n)
<1> DEFINE T == {n \in Nat : \A p \in Nat :
                   p + n <= Base * Len(nodes) /\ (p % Base = 0 \/ n > Base) =>
                     FileCells[<<n, (p \div Base) + 1, p>>] = Span(p, n)}
<1>1. ASSUME NEW n \in Nat, \A m \in Nat : m < n => m \in T PROVE n \in T
  <2>1. SUFFICES ASSUME NEW p \in Nat, p + n <= Base * Len(nodes), p % Base = 0 \/ n > Base
                 PROVE  FileCells[<<n, (p \div Base) + 1, p>>] = Span(p, n)
    OBVIOUS
  <2>2. CASE n = 0
    <3> DEFINE e == (p \div Base) + 1
    <3> HIDE DEF T
    <3>1. p \div Base \in Nat
      BY InBase
    <3>2. e \in Nat
      BY <3>1
    <3> HIDE DEF e
    <3>3. n \in Int /\ p \in Int /\ n <= 0
      BY <2>2
    <3>4. FileCells[<<n, e, p>>] = <<>>
      BY <3>3, <3>2, FileCellsDef
    <3>5. Len(Span(p, n)) = 0 /\ Span(p, n) \in Seq(Nat \X Nat)
      BY <2>2, SpanType
    <3>6. Span(p, n) = <<>>
      BY <3>5, EmptySeq
    <3> QED BY <3>4, <3>6 DEF e
  <2>3. CASE n # 0 /\ ~(n > Base)
    <3>1. n \in Nat \ {0}
      BY <2>3
    <3> QED BY <2>1, <2>3, <3>1, FileStep
  <2>4. CASE n # 0 /\ n > Base
    <3> DEFINE r == p % Base
               c == Base - r
               q == p + c
               m == n - c
    <3>1. r \in 0..(Base - 1) /\ Base \in Nat \ {0}
      BY InBase, BaseFacts
    <3>2. c \in Nat /\ m \in Nat /\ m < n /\ q \in Nat /\ q + m = p + n /\ c + m = n
      <4> HIDE DEF r
      <4> QED BY <2>4, <3>1
    <3>3. q % Base = 0
      BY NextStart
    <3>4. FileCells[<<n, (p \div Base) + 1, p>>]
            = Span(p, c) \o FileCells[<<m, (q \div Base) + 1, q>>]
      <4>1. n \in Nat \ {0}
        BY <2>4
      <4> QED BY <2>1, <2>4, <4>1, FileStep
    <3> HIDE DEF q, m, c, r
    <3>5. q + m <= Base * Len(nodes)
      BY <2>1, <3>2
    <3>6. FileCells[<<m, (q \div Base) + 1, q>>] = Span(q, m)
      BY <1>1, <3>2, <3>3, <3>5
    <3>7. Span(p, c) \o Span(p + c, m) = Span(p, c + m)
      BY <3>2, SpanJoin
    <3> QED BY <3>2, <3>4, <3>6, <3>7 DEF q
  <2> QED BY <2>2, <2>3, <2>4
<1>2. T \in SUBSET Nat
  OBVIOUS
<1> HIDE DEF T
<1>3. T = Nat
  BY <1>1, <1>2, StrongInduction
<1> QED BY <1>3 DEF T

\* The cells of a span hold the bytes of the array.
LEMMA HoldsSpan ==
  ASSUME CursorExact, NEW p \in Nat, NEW n \in Nat, p + n <= m_size
  PROVE  Holds(Span(p, n), p, n)
<1>1. /\ m_size \in Nat /\ m_position \in Nat /\ Len(nodes) \in Nat
      /\ m_size <= Base * Len(nodes) /\ Base * Len(nodes) \in Nat
  <2>1. m_size \in Nat /\ m_position \in Nat /\ Len(nodes) \in Nat
    BY DEF CursorExact, TypeOK
  <2>2. m_size <= Base * Len(nodes)
    BY DEF CursorExact
  <2> QED BY <2>1, <2>2, BaseFacts
<1>2. Len(Span(p, n)) = n
  BY SpanType
<1>3. ASSUME NEW i \in 1..n
      PROVE  /\ Span(p, n)[i][1] \in 1..Len(nodes)
             /\ nodes[Span(p, n)[i][1]][Span(p, n)[i][2]] = Content[p + i]
  <2> DEFINE x == p + i - 1
             cell == Span(p, n)[i]
  <2>1. cell = <<(x \div Base) + 1, x % Base>>
    BY DEF Span
  <2>2. x \in Nat /\ x < Base * Len(nodes) /\ p + i \in 1..Larger(m_size, m_position)
    BY <1>1 DEF Larger
  <2>3. (p + i) - 1 = x
    OBVIOUS
  <2> HIDE DEF x, cell
  <2>4. cell[1] = (x \div Base) + 1 /\ cell[2] = x % Base
    BY <2>1
  <2>5. (x \div Base) + 1 \in 1..Len(nodes)
    BY <1>1, <2>2, NodeIndex
  <2>6. Content[p + i] = ByteAt(nodes, x)
    <3>1. \A k \in 1..Larger(m_size, m_position) : Content[k] = ByteAt(nodes, k - 1)
      BY ContentIs
    <3>2. Content[p + i] = ByteAt(nodes, (p + i) - 1)
      BY <2>2, <3>1
    <3> QED BY <2>3, <3>2
  <2>7. nodes[cell[1]][cell[2]] = ByteAt(nodes, x)
    BY <2>4 DEF ByteAt
  <2> QED BY <2>4, <2>5, <2>6, <2>7 DEF cell
<1> QED BY <1>2, <1>3 DEF Holds

\* The buffers that the loop of getReadBuffers makes, started in the node of a position.
LEMMA HoldsCells ==
  ASSUME CursorExact, NEW p \in Nat, NEW n \in Nat, p + n <= m_size
  PROVE  Holds(Cells[<<n, (p \div Base) + 1, p % Base>>], p, n)
<1>1. Cells[<<n, (p \div Base) + 1, p % Base>>] = Span(p, n)
  BY CellsFrom DEF Span
<1> QED BY <1>1, HoldsSpan

\* No cells hold no bytes.
LEMMA HoldsNone ==
  ASSUME NEW p \in Nat
  PROVE  Holds(<<>>, p, 0)
BY DEF Holds

\* A buffer, a string or a file holds the bytes it is for.
LEMMA BuffersAre ==
  ASSUME CursorExact, Locals
  PROVE  BuffersExact
<1> SUFFICES ASSUME op = "idle"
             PROVE  /\ \A n \in 0..getReadSize : Holds(getReadBuffers(n), m_position, n)
                    /\ Holds(toString, m_position, getReadSize)
                    /\ m_position % Base = 0 \/ getReadSize > Base =>
                         Holds(writeToFile, m_position, getReadSize)
                    /\ \A p \in 0..m_size :
                         /\ p \div Base + 1 = m_cur =>
                              \A n \in 0..(m_size - p) : Holds(readAt(n, p), p, n)
                         /\ p <= m_position =>
                              \A n \in 0..getReadSize : Holds(getReadBuffersAt(n, p), p, n)
  BY DEF BuffersExact
<1> DEFINE left_ == getReadSize
<1>1. /\ m_position \in Nat /\ m_size \in Nat /\ m_position <= m_size
      /\ Len(nodes) \in Nat /\ m_cur \in Nat /\ m_size <= m_capacity
      /\ m_capacity = Base * Len(nodes)
  BY DEF CursorExact, TypeOK, Locals
<1>2. left_ \in Nat /\ m_position + left_ = m_size
  BY <1>1 DEF getReadSize
<1>3. left_ > 0 => m_cur = (m_position \div Base) + 1
  <2>1. left_ > 0 => m_position # m_capacity
    BY <1>1, <1>2 DEF CursorExact, TypeOK
  <2> QED BY <2>1 DEF CursorExact
<1> HIDE DEF left_
<1>4. \A n \in 0..left_ : Smaller(n, left_) = n
  BY <1>2 DEF Smaller
<1>5. ASSUME NEW n \in 0..left_ PROVE Holds(getReadBuffers(n), m_position, n)
  <2>1. getReadBuffers(n) = IF n = 0 THEN <<>> ELSE Cells[<<n, m_cur, m_position % Base>>]
    BY <1>4 DEF getReadBuffers, left_
  <2>2. n \in Nat /\ m_position + n <= m_size
    BY <1>1, <1>2
  <2>3. CASE n = 0
    BY <1>1, <2>1, <2>3, HoldsNone
  <2>4. CASE n # 0
    <3>1. m_cur = (m_position \div Base) + 1
      BY <1>2, <1>3, <2>4
    <3> QED BY <1>1, <2>1, <2>2, <2>4, <3>1, HoldsCells
  <2> QED BY <2>3, <2>4
<1>6. Holds(toString, m_position, left_)
  <2>1. toString = IF left_ = 0 THEN <<>> ELSE Cells[<<left_, m_cur, m_position % Base>>]
    BY DEF toString, readAt, left_
  <2>2. CASE left_ = 0
    BY <1>1, <2>1, <2>2, HoldsNone
  <2>3. CASE left_ # 0
    <3>1. m_cur = (m_position \div Base) + 1 /\ m_position + left_ <= m_size
      BY <1>1, <1>2, <1>3, <2>3
    <3> QED BY <1>1, <1>2, <2>1, <2>3, <3>1, HoldsCells
  <2> QED BY <2>2, <2>3
<1>7. ASSUME m_position % Base = 0 \/ left_ > Base
      PROVE  Holds(writeToFile, m_position, left_)
  <2>1. writeToFile = FileCells[<<left_, m_cur, m_position>>]
    BY DEF writeToFile, left_
  <2>2. CASE left_ = 0
    <3>1. FileCells[<<left_, m_cur, m_position>>] = <<>>
      <4>1. left_ \in Int /\ m_position \in Int /\ left_ <= 0
        BY <1>1, <1>2, <2>2
      <4> QED BY <1>1, <4>1, FileCellsDef
    <3> QED BY <1>1, <2>1, <2>2, <3>1, HoldsNone
  <2>3. CASE left_ # 0
    <3>1. m_cur = (m_position \div Base) + 1
      BY <1>2, <1>3, <2>3
    <3>2. m_position + left_ <= Base * Len(nodes) /\ m_position + left_ <= m_size
      BY <1>1, <1>2
    <3>3. FileCells[<<left_, (m_position \div Base) + 1, m_position>>] = Span(m_position, left_)
      BY <1>1, <1>2, <1>7, <3>2, FileCellsAre
    <3>4. Holds(Span(m_position, left_), m_position, left_)
      BY <1>1, <1>2, <3>2, HoldsSpan
    <3> QED BY <2>1, <3>1, <3>3, <3>4
  <2> QED BY <2>2, <2>3
<1>8. ASSUME NEW p \in 0..m_size, (p \div Base) + 1 = m_cur, NEW n \in 0..(m_size - p)
      PROVE  Holds(readAt(n, p), p, n)
  <2>1. p \in Nat /\ n \in Nat /\ p + n <= m_size
    BY <1>1
  <2>2. readAt(n, p) = Cells[<<n, (p \div Base) + 1, p % Base>>]
    BY <1>8 DEF readAt
  <2> QED BY <2>1, <2>2, HoldsCells
<1>9. ASSUME NEW p \in 0..m_size, p <= m_position, NEW n \in 0..left_
      PROVE  Holds(getReadBuffersAt(n, p), p, n)
  <2>1. p \in Nat /\ n \in Nat /\ p + n <= m_size
    BY <1>1, <1>2, <1>9
  <2>2. getReadBuffersAt(n, p) = IF n = 0 THEN <<>> ELSE Cells[<<n, (p \div Base) + 1, p % Base>>]
    BY <1>4 DEF getReadBuffersAt, left_
  <2>3. CASE n = 0
    BY <2>1, <2>2, <2>3, HoldsNone
  <2>4. CASE n # 0
    BY <2>1, <2>2, <2>4, HoldsCells
  <2> QED BY <2>3, <2>4
<1> QED BY <1>5, <1>6, <1>7, <1>8, <1>9 DEF left_

-----------------------------------------------------------------------------
(***************************************************************************)
(* The invariant                                                           *)
(***************************************************************************)

\* A new array.
LEMMA InitKeeps == Init => IInv
<1> SUFFICES ASSUME Init PROVE IInv
  OBVIOUS
<1>1. /\ m_position = 0 /\ m_size = 0 /\ m_capacity = Base /\ m_endian = Int8(BIG_ENDIAN)
      /\ nodes = <<NewNode>> /\ m_cur = 1 /\ op = "idle" /\ npos = 0 /\ buf = <<>>
      /\ left = 0 /\ got = <<>> /\ reader = None /\ ret = None /\ wrote = None
  BY DEF Init
<1>2. NewNode \in Node
  BY ArrayConstants DEF NewNode, Node
<1>3. nodes \in Seq(Node) /\ Len(nodes) = 1 /\ nodes # <<>>
  <2>1. nodes = <<NewNode>>
    BY <1>1
  <2> HIDE DEF NewNode
  <2> QED BY <1>2, <2>1
<1>4. m_endian \in -128..127
  BY <1>1 DEF Int8, BIG_ENDIAN
<1>5. 0 \div Base = 0 /\ 0 < Base /\ Base \in Nat
  BY InBase, BaseFacts
<1>6. TypeOK
  BY <1>1, <1>3, <1>4, <1>5 DEF TypeOK, Node
<1>7. CursorExact
  BY <1>1, <1>3, <1>5, <1>6 DEF CursorExact
<1>8. Locals
  BY <1>1, <1>3 DEF Locals
<1>9. Readers /\ Decoding
  BY <1>1 DEF Readers, Decoding
<1>10. Written /\ TypedExact
  BY <1>1 DEF Written, TypedExact
<1> QED BY <1>7, <1>8, <1>9, <1>10 DEF IInv

\* read(buf, size, position): from a position in the node of m_position or a later one,
\* up to the end, the nodes from m_cur on hold the bytes.
LEMMA ReadAtKeeps ==
  ASSUME IInv, NEW n \in Nat, NEW p \in Nat, ReadAt(n, p)
  PROVE  IInv'
<1>1. CursorExact /\ Locals /\ Readers /\ Written /\ Decoding /\ TypedExact
  BY DEF IInv
<1>2. /\ op = "idle" /\ ~RefusedAt(n, p) /\ ret' = ret /\ wrote' = wrote
      /\ UNCHANGED <<m_position, m_capacity, m_size, nodes, m_cur, m_endian, npos, buf, left>>
      /\ \/ op' = "crashed" /\ reader' = [kind |-> "at", at |-> p] /\ got' = <<>>
            /\ (m_cur = 0 \/ (m_cur - 1) * Base + (p % Base) + n > Base * Len(nodes))
         \/ op' = op /\ reader' = reader /\ got' = got
  BY DEF ReadAt, store
<1>3. /\ m_position \in Nat /\ m_size \in Nat /\ m_capacity \in Nat /\ m_endian \in -128..127
      /\ m_position <= m_capacity /\ m_size <= m_capacity /\ npos \in 0..(Base - 1)
  BY <1>1, Members
<1>4. /\ nodes \in Seq(Node) /\ buf \in Seq(Byte) /\ got \in Seq(Byte) /\ left \in Nat
      /\ m_capacity = Base * Len(nodes) /\ Len(nodes) \in Nat
      /\ m_cur = CursorFor(m_position, Len(nodes))
  BY <1>1, Members
<1>5. left = 0 /\ m_position <= m_size /\ buf = <<>> /\ Out = got /\ nodes # <<>>
      /\ Pos = m_position
  BY <1>1, <1>2, QuietIs DEF Quiet, Locals
<1>6. CursorExact'
  <2>1. m_cur' = CursorFor(m_position', Len(nodes')) /\ m_capacity' = Base * Len(nodes')
    BY <1>2, <1>4
  <2>2. got' \in Seq(Byte) /\ op' \in {"idle", "write", "read", "next", "crashed"}
    <3>1. <<>> \in Seq(Byte)
      OBVIOUS
    <3> QED BY <1>2, <1>4, <3>1
  <2> QED BY <1>2, <1>3, <1>4, <2>1, <2>2, CursorNext
<1>7. ASSUME op' = "crashed"
      PROVE  m_position = m_capacity \/ p > m_size \/ p \div Base < m_position \div Base
  <2>1. SUFFICES ASSUME m_position # m_capacity, p <= m_size,
                        ~(p \div Base < m_position \div Base)
                 PROVE  FALSE
    BY <1>3
  <2>2. m_cur = m_position \div Base + 1 /\ m_position \div Base \in Nat
    BY <1>3, <1>4, <2>1, InBase DEF CursorFor
  <2>3. p + n <= m_size
    BY <1>2, <1>3, <2>1 DEF RefusedAt
  <2> DEFINE a == m_position \div Base
             b == p \div Base
             c == p % Base
             list == Base * Len(nodes)
  <2>4. a \in Nat /\ b \in Nat /\ a <= b /\ c \in Nat /\ p = Base * b + c /\ list \in Nat
    <3>1. b \in Nat /\ c \in 0..(Base - 1) /\ p = Base * b + c
      BY InBase
    <3>2. a \in Nat /\ a <= b
      BY <2>1, <2>2, <3>1
    <3>3. list \in Nat /\ c \in Nat
      BY <1>4, <3>1, BaseFacts
    <3> QED BY <3>1, <3>2, <3>3
  <2>5. m_cur - 1 = a /\ (m_cur - 1) * Base = a * Base /\ m_cur # 0
    BY <2>2
  <2>6. a * Base + c + n > list
    BY <1>2, <1>7, <2>5
  <2> HIDE DEF a, b, c, list
  <2>7. a * Base <= Base * b
    <3>1. a * Base \in Nat /\ Base * (b - a) >= 0 /\ Base * (b - a) = Base * b - a * Base
      BY <2>4, BaseFacts
    <3> QED BY <2>4, <3>1, BaseFacts
  <2>8. m_size <= list
    BY <1>3, <1>4 DEF list
  <2>9. a * Base \in Nat /\ Base * b \in Nat
    BY <2>4, BaseFacts
  <2> QED BY <1>3, <2>3, <2>4, <2>6, <2>7, <2>8, <2>9
<1>8. Locals'
  <2>1. CASE op' = "crashed"
    <3>1. reader'.kind = "at" /\ reader'.at = p
      BY <1>2, <2>1
    <3> QED BY <1>2, <1>5, <1>7, <2>1, <3>1 DEF Locals
  <2>2. CASE op' = "idle"
    BY <1>1, <1>2, <2>2 DEF Locals
  <2> QED BY <1>2, <2>1, <2>2
<1>9. Bytes' = Bytes
  BY <1>1, <1>2, <1>6, <1>8, BytesAre
<1>10. Written' /\ TypedExact'
  BY <1>1, <1>2, <1>6, <1>9, SameWritten, SameReturned
<1>11. Readers' /\ Decoding'
  <2>1. CASE op' = "crashed"
    BY <1>2, <2>1 DEF Readers, Decoding
  <2>2. CASE op' = "idle"
    <3>1. reader' = None
      BY <1>1, <1>2, <2>2 DEF Readers
    <3> QED BY <2>2, <3>1, NoReader
  <2> QED BY <1>2, <2>1, <2>2
<1> QED BY <1>6, <1>8, <1>10, <1>11 DEF IInv

\* Every step.
LEMMA NextKeeps == IInv /\ [Next]_vars => IInv'
<1> SUFFICES ASSUME IInv, [Next]_vars PROVE IInv'
  OBVIOUS
<1>1. ASSUME NEW data \in Raw, StartWrite(data, None) PROVE IInv'
  BY <1>1, RawWriteKeeps
<1>2. ASSUME NEW kind \in Kinds, NEW v \in Value(kind), WriteTyped(kind, v) PROVE IInv'
  BY <1>2, TypedWriteKeeps
<1>3. ASSUME NEW kind \in Kinds, ReadTyped(kind) PROVE IInv'
  BY <1>3, TypedReadKeeps
<1>4. CASE WriteLast \/ WriteNode
  BY <1>4, WriteKeeps
<1>5. CASE ReadLast \/ ReadNode
  BY <1>5, ReadKeeps
<1>6. CASE FixedRead
  BY <1>6, FixedReadKeeps
<1>7. CASE VarintByte
  BY <1>7, VarintByteKeeps
<1>8. CASE LengthRead \/ StringRead
  BY <1>8, LengthReadKeeps, StringReadKeeps
<1>9. ASSUME NEW n \in 0..MaxSize, Read(n) \/ \E p \in 0..m_capacity : ReadAt(n, p)
      PROVE  IInv'
  <2>1. n \in Nat
    BY ArrayConstants
  <2>2. \A p \in 0..m_capacity : p \in Nat
    BY DEF IInv, CursorExact, TypeOK
  <2> QED BY <1>9, <2>1, <2>2, PlainReadKeeps, ReadAtKeeps
<1>10. CASE \/ \E v \in 0..m_capacity : SetPosition(v)
            \/ Clear
            \/ \E b \in BOOLEAN : SetIsLittleEndian(b)
  BY <1>10, OtherKeeps
<1>11. ASSUME NEW n \in 1..MaxSize,
              \/ \E data \in Raw \cup {<<>>} : StreamRead(n, data)
              \/ \E k \in 1..Smaller(n, getReadSize) : StreamWrite(n, k)
       PROVE  IInv'
  <2>1. n \in Nat
    BY ArrayConstants
  <2> QED BY <1>11, <2>1, StreamKeeps
<1>12. CASE UNCHANGED vars
  <2>1. CursorExact' /\ Locals' /\ TypedExact'
    <3>1. CursorExact'
      BY <1>12 DEF IInv, CursorExact, TypeOK, vars, store, locals
    <3>2. Locals'
      BY <1>12 DEF IInv, Locals, vars, store, locals, typed
    <3>3. TypedExact'
      BY <1>12 DEF IInv, TypedExact, vars, typed
    <3> QED BY <3>1, <3>2, <3>3
  <2>2. Still /\ reader' = reader /\ wrote' = wrote /\ m_endian' = m_endian /\ op' = op
    BY <1>12 DEF vars, store, locals, typed, Still, Bytes, Pos, Out, Content, Flat
  <2>3. Written'
    BY <2>1, <2>2, SameWritten DEF IInv, Still
  <2>4. Readers'
    BY <2>2 DEF IInv, Readers, Still
  <2>5. Decoding'
    BY <2>2 DEF IInv, Decoding, Still
  <2> QED BY <2>1, <2>3, <2>4, <2>5 DEF IInv
<1> QED BY <1>1, <1>2, <1>3, <1>4, <1>5, <1>6, <1>7, <1>8, <1>9, <1>10, <1>11, <1>12 DEF Next

\* The inductive invariant of the array: the cursor, the locals of the loops, and the
\* typed value and its reader are what they should be between any two steps.
THEOREM ArrayAccounted == Spec => []IInv
<1>1. Init => IInv
  BY InitKeeps
<1>2. IInv /\ [Next]_vars => IInv'
  BY NextKeeps
<1> QED BY <1>1, <1>2, PTL DEF Spec

\* m_cur is always the node of m_position, and null exactly at the end of the capacity,
\* whatever write(), read(), setPosition(), clear() and the stream operations did.
THEOREM CursorIsExact == Spec => []CursorExact
<1>1. IInv => CursorExact
  BY DEF IInv
<1> QED BY <1>1, ArrayAccounted, PTL

\* read() dereferences a null m_cur only when it is called for no bytes at the end of
\* the capacity, and write() never does; a read at a position runs off the list only
\* there, or from a position behind the end or in a node before the one of m_position.
THEOREM CrashesOnlyAtEnd == Spec => []CrashOnlyAtEnd
<1>1. IInv => CrashOnlyAtEnd
  BY DEF IInv, Locals, CrashOnlyAtEnd
<1> QED BY <1>1, ArrayAccounted, PTL

\* getReadBuffers, toString, writeToFile and the reads at a position describe exactly
\* the bytes they are for, in lists and with borders of nodes of any number and size.
THEOREM BuffersAreExact == Spec => []BuffersExact
<1>1. IInv => BuffersExact
  BY BuffersAre DEF IInv
<1> QED BY <1>1, ArrayAccounted, PTL

\* readF*, readInt*, readUint* and the string readers give back what the writer of the
\* same type wrote where they start, for integers of any width, and strings of any
\* length that the fixed-size integer in front of them can hold.
THEOREM ValuesComeBack == Spec => []TypedExact
<1>1. IInv => TypedExact
  BY DEF IInv
<1> QED BY <1>1, ArrayAccounted, PTL

-----------------------------------------------------------------------------
(***************************************************************************)
(* The refinement: a call of the array is a step of the sequence when it   *)
(* starts, and its iterations change nothing of what the user sees         *)
(***************************************************************************)

\* The sequence of the user, before and after a step
LEMMA SeenTypes ==
  ASSUME CursorExact, Locals, CursorExact', Locals'
  PROVE  /\ Bytes \in Seq(Byte) /\ Pos \in Nat /\ Len(Bytes) \in Nat
         /\ Bytes' \in Seq(Byte) /\ Pos' \in Nat /\ Len(Bytes') \in Nat
<1>1. Bytes \in Seq(Byte) /\ Pos \in Nat
  BY SeenIs DEF SeenExact
<1>2. Bytes' \in Seq(Byte) /\ Pos' \in Nat
  BY SeenNext DEF SeenExact
<1> QED BY <1>1, <1>2, LenProperties

\* What a write does is a write of the sequence.
LEMMA WroteMaps ==
  ASSUME CursorExact, Locals, CursorExact', Locals',
         NEW d \in Seq(Byte), d # <<>>, Wrote(d)
  PROVE  Seen!SWrite
<1> DEFINE n == Len(d)
           p == Pos
           s == Bytes
           t == Bytes'
           w == SubSeq(t, p + 1, p + n)
<1>1. s \in Seq(Byte) /\ p \in Nat /\ Len(s) \in Nat /\ t \in Seq(Byte) /\ Len(t) \in Nat
  BY SeenTypes
<1>2. n \in Nat /\ n > 0
  BY EmptySeq
<1>3. /\ Pos' = p + n /\ Out' = <<>> /\ Len(t) = Larger(Len(s), p + n)
      /\ \A i \in 1..Len(t) : t[i] = IF i > p /\ i <= p + n THEN d[i - p] ELSE s[i]
  BY DEF Wrote
<1> HIDE DEF n, p, s, t
<1>4. Len(t) >= p + n /\ Len(t) = IF p + n > Len(s) THEN p + n ELSE Len(s)
  BY <1>1, <1>2, <1>3 DEF Larger
<1>5. Len(w) = n /\ w = [k \in 1..n |-> t[p + k]]
  BY <1>1, <1>2, <1>4, SubSeqIs
<1> HIDE DEF w
<1>6. t = [i \in 1..Len(t) |-> IF i > p /\ i <= p + n THEN w[i - p] ELSE s[i]]
  <2>1. \A i \in 1..Len(t) : t[i] = IF i > p /\ i <= p + n THEN w[i - p] ELSE s[i]
    <3> TAKE i \in 1..Len(t)
    <3>1. CASE i > p /\ i <= p + n
      <4>1. i - p \in 1..n /\ p + (i - p) = i
        BY <1>1, <1>2, <3>1
      <4> QED BY <1>5, <3>1, <4>1
    <3>2. CASE ~(i > p /\ i <= p + n)
      BY <1>3, <3>2
    <3> QED BY <3>1, <3>2
  <2>2. t = [i \in 1..Len(t) |-> t[i]]
    BY <1>1
  <2> QED BY <2>1, <2>2
<1>7. t = Seen!Overwrite(s, p, w)
  BY <1>4, <1>5, <1>6 DEF Seen!Overwrite
<1>8. /\ Pos' > Pos /\ Len(Bytes') >= Pos' /\ Out' = <<>>
      /\ Bytes' = Seen!Overwrite(Bytes, Pos, SubSeq(Bytes', Pos + 1, Pos'))
  BY <1>1, <1>2, <1>3, <1>4, <1>7 DEF n, p, s, t, w
<1> QED BY <1>8 DEF Seen!SWrite

\* What a read does is a read of the sequence.
LEMMA FetchedMaps ==
  ASSUME CursorExact, Locals, CursorExact', Locals', NEW n \in Nat, Fetched(n)
  PROVE  Seen!SRead
<1>1. Pos \in Nat /\ Len(Bytes) \in Nat
  BY SeenTypes
<1>2. /\ Bytes' = Bytes /\ Pos' = Pos + n /\ Pos + n <= Len(Bytes)
      /\ Out' = SubSeq(Bytes, Pos + 1, Pos + n)
  BY DEF Fetched
<1>3. Pos' \in Pos..Len(Bytes)
  BY <1>1, <1>2
<1> QED BY <1>2, <1>3 DEF Seen!SRead

\* A typed reader that returns is a read of no bytes.
LEMMA ReturnedMaps ==
  ASSUME CursorExact, Locals, CursorExact', Locals', op = "next", Returned
  PROVE  Seen!SRead
<1>1. Bytes \in Seq(Byte) /\ Pos \in Nat /\ Len(Bytes) \in Nat
  BY SeenTypes
<1>2. Pos <= Len(Bytes)
  <2>1. Pos = m_position /\ Len(Bytes) = m_size /\ m_position <= m_size
    BY QuietIs DEF Quiet
  <2> QED BY <2>1
<1>3. Fetched(0)
  <2>1. SubSeq(Bytes, Pos + 1, Pos + 0) = <<>>
    <3>1. Pos + 1 > Pos + 0 /\ Pos + 1 \in Int /\ Pos + 0 \in Int
      BY <1>1
    <3>2. Len(SubSeq(Bytes, Pos + 1, Pos + 0)) = 0
          /\ SubSeq(Bytes, Pos + 1, Pos + 0) \in Seq(Byte)
      BY <1>1, <1>2, SubSeqIs
    <3> QED BY <3>2, EmptySeq
  <2> QED BY <1>1, <1>2, <2>1 DEF Returned, Fetched
<1> QED BY <1>3, FetchedMaps

\* What setPosition does is a move of the sequence's position.
LEMMA MovedMaps ==
  ASSUME CursorExact, Locals, CursorExact', Locals', NEW v \in Nat, Moved(v)
  PROVE  Seen!SSetPosition
<1> DEFINE s == Bytes
           t == Bytes'
<1>1. s \in Seq(Byte) /\ Len(s) \in Nat /\ t \in Seq(Byte) /\ Len(t) \in Nat
  BY SeenTypes
<1>2. /\ Pos' = v /\ Out' = <<>> /\ Len(t) = Larger(Len(s), v)
      /\ \A i \in 1..Len(s) : t[i] = s[i]
  BY DEF Moved
<1> HIDE DEF s, t
<1>3. Len(t) = (IF v > Len(s) THEN v ELSE Len(s)) /\ Len(s) <= Len(t)
  BY <1>1, <1>2 DEF Larger
<1>4. SubSeq(t, 1, Len(s)) = s
  <2> DEFINE w == SubSeq(t, 0 + 1, 0 + Len(s))
  <2>1. w \in Seq(Byte) /\ Len(w) = Len(s) /\ w = [k \in 1..Len(s) |-> t[0 + k]]
    BY <1>1, <1>3, SubSeqIs
  <2>2. w = SubSeq(t, 1, Len(s))
    BY <1>1
  <2> HIDE DEF w
  <2>3. \A k \in 1..Len(s) : w[k] = s[k]
    BY <1>2, <2>1
  <2>4. w = s
    BY <1>1, <2>1, <2>3, SeqEqual
  <2> QED BY <2>2, <2>4
<1>5. /\ Pos' \in Nat /\ SubSeq(Bytes', 1, Len(Bytes)) = Bytes /\ Out' = <<>>
      /\ Len(Bytes') = (IF Pos' > Len(Bytes) THEN Pos' ELSE Len(Bytes))
  BY <1>2, <1>3, <1>4 DEF s, t
<1> QED BY <1>5 DEF Seen!SSetPosition

\* A new array is the empty sequence.
LEMMA InitMaps == Init => Seen!SInit
<1> SUFFICES ASSUME Init PROVE Seen!SInit
  OBVIOUS
<1>1. CursorExact /\ Locals
  BY InitKeeps DEF IInv
<1>2. op = "idle" /\ m_position = 0 /\ m_size = 0 /\ got = <<>>
  BY DEF Init
<1>3. Pos = 0 /\ Out = <<>> /\ Len(Bytes) = 0
  BY <1>1, <1>2, QuietIs DEF Quiet
<1>4. Bytes \in Seq(Byte)
  BY <1>1, SeenIs DEF SeenExact
<1>5. Bytes = <<>>
  BY <1>3, <1>4, EmptySeq
<1> QED BY <1>3, <1>5 DEF Seen!SInit

\* A read has its effect when it is entered.
LEMMA EnterMaps ==
  ASSUME CursorExact, Locals, op \in {"idle", "next"}, NEW size \in Nat, NEW r,
         EnterRead(size, r), UNCHANGED <<store, m_endian, buf>>
  PROVE  Still \/ Seen!SRead
<1>1. /\ CursorExact' /\ Locals'
      /\ Still \/ \E n \in Nat : Fetched(n)
  BY EnterReadIs
<1> QED BY <1>1, FetchedMaps

\* A byte of a Varint: the next one is read, or the string, or the value is returned.
LEMMA VarintMaps ==
  ASSUME IInv, VarintByte
  PROVE  Still \/ Seen!SRead
<1> DEFINE b == got[1]
           acc == AddGroup(reader.acc, b, reader.i)
<1>1. CursorExact /\ Locals /\ Readers
  BY DEF IInv
<1>2. op = "next" /\ reader.kind \in VarKinds /\ UNCHANGED <<store, m_endian, buf>>
  BY DEF VarintByte, VarKinds
<1>3. acc \in Nat
  BY <1>1, <1>2, ByteArrived
<1>4. CASE ~LastGroup(b, reader.i)
  <2>1. EnterRead(1, [reader EXCEPT !.i = @ + Group, !.acc = acc])
    BY <1>4 DEF VarintByte
  <2> QED BY <1>1, <1>2, <2>1, EnterMaps
<1>5. CASE LastGroup(b, reader.i) /\ reader.kind = "string"
  <2>1. EnterRead(acc, [kind |-> "body", at |-> reader.at, of |-> "string"])
    BY <1>5 DEF VarintByte, EnterBody
  <2> HIDE DEF acc
  <2> QED BY <1>1, <1>2, <1>3, <2>1, EnterMaps
<1>6. CASE LastGroup(b, reader.i) /\ reader.kind # "string"
  <2>1. op' = "idle" /\ got' = <<>> /\ UNCHANGED <<npos, left>>
    BY <1>6 DEF VarintByte, Return
  <2>2. UNCHANGED <<store, m_endian, buf, npos, left>>
    BY <1>2, <2>1
  <2>3. CursorExact' /\ Locals' /\ Returned
    BY <1>1, <1>2, <2>1, <2>2, ReturnIs
  <2> QED BY <1>1, <1>2, <2>3, ReturnedMaps
<1> QED BY <1>4, <1>5, <1>6

\* The length of a string has been read.
LEMMA LengthMaps ==
  ASSUME IInv, LengthRead
  PROVE  Still \/ Seen!SRead
<1> DEFINE n == FixedValue(got, m_endian)
           r == [kind |-> "body", at |-> reader.at, of |-> "fstring"]
<1>1. CursorExact /\ Locals /\ Readers
  BY DEF IInv
<1>2. op = "next" /\ reader.kind = "fstring" /\ EnterRead(n, r)
      /\ UNCHANGED <<store, m_endian, buf>>
  BY DEF LengthRead, EnterBody
<1>3. n \in Nat
  BY <1>1, <1>2, FixedArrived, FixedType
<1> HIDE DEF n, r
<1> QED BY <1>1, <1>2, <1>3, EnterMaps

\* A read at a position changes nothing, even when it runs off the list.
LEMMA ReadAtMaps ==
  ASSUME CursorExact, Locals, CursorExact', Locals', NEW n, NEW p, ReadAt(n, p)
  PROVE  Still \/ Seen!SRead
<1>1. /\ op = "idle"
      /\ UNCHANGED <<m_position, m_capacity, m_size, nodes, m_cur, m_endian, npos, buf, left>>
      /\ \/ op' = "crashed" /\ got' = <<>>
         \/ op' = op /\ got' = got
  BY DEF ReadAt, store
<1>2. Bytes' = Bytes
  BY <1>1, BytesAre
<1>3. Pos = m_position /\ Out = got /\ Len(Bytes) = m_size /\ m_position <= m_size
  BY <1>1, QuietIs DEF Quiet
<1>4. Pos' = m_position' /\ Out' = got'
  BY <1>1, QuietNext DEF Quiet
<1>5. CASE op' = op /\ got' = got
  BY <1>1, <1>2, <1>3, <1>4, <1>5 DEF Still
<1>6. CASE op' = "crashed" /\ got' = <<>>
  <2>1. Bytes \in Seq(Byte) /\ Pos \in Nat /\ Len(Bytes) \in Nat
    BY SeenTypes
  <2>2. SubSeq(Bytes, Pos + 1, Pos + 0) = <<>>
    <3>1. Len(SubSeq(Bytes, Pos + 1, Pos + 0)) = 0
          /\ SubSeq(Bytes, Pos + 1, Pos + 0) \in Seq(Byte)
      BY <1>3, <2>1, SubSeqIs
    <3> QED BY <3>1, EmptySeq
  <2>3. Fetched(0)
    BY <1>1, <1>2, <1>3, <1>4, <1>6, <2>1, <2>2 DEF Fetched
  <2> QED BY <2>3, FetchedMaps
<1> QED BY <1>1, <1>5, <1>6

\* Every step is one of the sequence, or none.
LEMMA NextMaps ==
  ASSUME IInv, IInv', Next
  PROVE  Still \/ Seen!SNext
<1>1. CursorExact /\ Locals /\ CursorExact' /\ Locals'
  BY DEF IInv
<1>2. ASSUME NEW data \in Raw, StartWrite(data, None) PROVE Seen!SNext
  <2>1. data \in Seq(Byte) /\ data # <<>>
    BY <1>2, ArrayConstants DEF StartWrite
  <2>2. Wrote(data)
    BY <1>1, <1>2, <2>1, StartWriteIs
  <2> QED BY <1>1, <2>1, <2>2, WroteMaps DEF Seen!SNext
<1>3. ASSUME NEW kind \in Kinds, NEW v \in Value(kind), WriteTyped(kind, v) PROVE Seen!SNext
  <2> DEFINE data == Encode(kind, v)
             value == [kind |-> kind, value |-> v, at |-> m_position, len |-> Len(data)]
  <2>1. StartWrite(data, value)
    BY <1>3 DEF WriteTyped
  <2> HIDE DEF value
  <2>2. data \in Seq(Byte)
    <3>1. data = Code(kind, v)
      BY <1>1, EndianIs DEF EndianKept
    <3>2. Code(kind, v) \in Seq(Byte)
      BY CodeIs
    <3> QED BY <3>1, <3>2
  <2> HIDE DEF data
  <2>3. data # <<>>
    BY <2>1 DEF StartWrite
  <2>4. Wrote(data)
    BY <1>1, <2>1, <2>2, StartWriteIs
  <2> QED BY <1>1, <2>2, <2>3, <2>4, WroteMaps DEF Seen!SNext
<1>4. ASSUME NEW kind \in Kinds, ReadTyped(kind) PROVE Still \/ Seen!SNext
  <2> DEFINE n == IF kind \in {"fixed", "fstring"} THEN FixBytes ELSE 1
             r == [kind |-> kind, at |-> m_position, i |-> 0, acc |-> 0]
  <2>1. op = "idle" /\ EnterRead(n, r) /\ UNCHANGED <<store, m_endian, buf>>
    BY <1>4 DEF ReadTyped
  <2>2. n \in Nat
    BY CodecConstants
  <2> HIDE DEF n, r
  <2> QED BY <1>1, <2>1, <2>2, EnterMaps DEF Seen!SNext
<1>5. CASE WriteLast \/ WriteNode
  BY <1>1, <1>5, WriteLastIs, WriteNodeIs
<1>6. CASE ReadLast \/ ReadNode
  BY <1>1, <1>6, ReadLastIs, ReadNodeIs
<1>7. CASE FixedRead \/ StringRead
  <2>1. /\ op = "next" /\ op' = "idle" /\ got' = <<>>
        /\ UNCHANGED <<store, m_endian, buf, npos, left>>
    BY <1>7 DEF FixedRead, StringRead, Return
  <2>2. Returned
    BY <1>1, <2>1, ReturnIs
  <2> QED BY <1>1, <2>1, <2>2, ReturnedMaps DEF Seen!SNext
<1>8. CASE VarintByte
  BY <1>8, VarintMaps DEF Seen!SNext
<1>15. CASE LengthRead
  BY <1>15, LengthMaps DEF Seen!SNext
<1>16. ASSUME NEW n \in 0..MaxSize, NEW p \in 0..m_capacity, ReadAt(n, p)
       PROVE  Still \/ Seen!SNext
  BY <1>1, <1>16, ReadAtMaps DEF Seen!SNext
<1>9. ASSUME NEW n \in 0..MaxSize, Read(n) PROVE Still \/ Seen!SNext
  <2>1. n \in Nat
    BY ArrayConstants
  <2>2. op = "idle" /\ EnterRead(n, Plain) /\ UNCHANGED <<store, m_endian, buf>>
    BY <1>9 DEF Read
  <2> QED BY <1>1, <2>1, <2>2, EnterMaps DEF Seen!SNext
<1>10. ASSUME NEW v \in 0..m_capacity, SetPosition(v) PROVE Seen!SNext
  <2>1. v \in Nat
    BY <1>1 DEF CursorExact, TypeOK
  <2>2. Moved(v)
    BY <1>1, <1>10, <2>1, SetPositionIs
  <2> QED BY <1>1, <2>1, <2>2, MovedMaps DEF Seen!SNext
<1>11. CASE Clear
  <2>1. Bytes' = <<>> /\ Pos' = 0 /\ Out' = <<>>
    BY <1>1, <1>11, ClearIs
  <2> QED BY <2>1 DEF Seen!SNext, Seen!SClear
<1>12. ASSUME NEW b \in BOOLEAN, SetIsLittleEndian(b) PROVE Still
  BY <1>1, <1>12, SetIsLittleEndianIs
<1>13. ASSUME NEW n \in 1..MaxSize, NEW data \in Raw \cup {<<>>}, StreamRead(n, data)
       PROVE  Still \/ Seen!SNext
  <2>1. n \in Nat /\ data \in Seq(Byte)
    <3>1. Raw \subseteq Seq(Byte) /\ MaxSize \in Nat
      BY ArrayConstants
    <3>2. <<>> \in Seq(Byte)
      OBVIOUS
    <3>3. n \in Nat
      BY <3>1
    <3> QED BY <3>1, <3>2, <3>3
  <2>2. Still \/ (data # <<>> /\ Wrote(data))
    BY <1>1, <1>13, <2>1, StreamReadIs
  <2> QED BY <1>1, <2>1, <2>2, WroteMaps DEF Seen!SNext
<1>14. ASSUME NEW n \in 1..MaxSize, NEW k \in 1..Smaller(n, getReadSize), StreamWrite(n, k)
       PROVE  Seen!SNext
  <2>1. n \in Nat /\ k \in Nat
    <3>1. getReadSize \in Int
      BY <1>1 DEF CursorExact, TypeOK, getReadSize
    <3> QED BY <3>1, ArrayConstants DEF Smaller
  <2>2. Fetched(k)
    BY <1>1, <1>14, <2>1, StreamWriteIs
  <2> QED BY <1>1, <2>1, <2>2, FetchedMaps DEF Seen!SNext
<1> QED BY <1>2, <1>3, <1>4, <1>5, <1>6, <1>7, <1>8, <1>9, <1>10, <1>11, <1>12, <1>13, <1>14,
            <1>15, <1>16 DEF Next

\* To its user the array is one sequence of bytes with a position: every call of
\* ByteArray and of SocketStream implements its operation of ByteSeq.
THEOREM ArrayIsByteSeq == Spec => ImplementsByteSeq
<1>1. Init => Seen!SInit
  BY InitMaps
<1>2. ASSUME IInv, IInv', [Next]_vars PROVE [Seen!SNext]_Seen!seqVars
  <2>1. CASE Next
    BY <1>2, <2>1, NextMaps DEF Still, Seen!seqVars
  <2>2. CASE UNCHANGED vars
    BY <2>2 DEF vars, store, locals, typed, Bytes, Pos, Out, Content, Flat, Seen!seqVars
  <2> QED BY <1>2, <2>1, <2>2
<1>3. IInv /\ IInv' /\ [Next]_vars => [Seen!SNext]_Seen!seqVars
  BY <1>2
<1>4. Init /\ []IInv /\ [][Next]_vars => Seen!SSpec
  BY <1>1, <1>3, PTL DEF Seen!SSpec
<1> QED BY <1>4, ArrayAccounted, PTL DEF Spec, ImplementsByteSeq
=============================================================================
