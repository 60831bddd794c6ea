--------------------------- MODULE PartitioningProofs --------------------------
(***************************************************************************)
(* The source blocks of an object divide its encoding symbols, for any     *)
(* length of the object, of a symbol and of a block.                       *)
(***************************************************************************)
EXTENDS Partitioning, WellFoundedInduction, TLAPS

-----------------------------------------------------------------------------
(* Induction, over sets of natural numbers *)

LEMMA LeastNatural ==
  ASSUME NEW S, S \subseteq Nat, S # {}
  PROVE  \E n \in S : \A m \in S : n <= m
<1> DEFINE Less == OpToRel(<, Nat)
<1>1. PICK n \in S : \A m \in S : ~(<<m, n>> \in Less)
  BY NatLessThanWellFounded, WFMin
<1>2. ASSUME NEW m \in S PROVE n <= m
  <2>1. m \in Nat /\ n \in Nat
    OBVIOUS
  <2>2. m < n => <<m, n>> \in Less
    BY <2>1 DEF OpToRel
  <2> HIDE DEF Less
  <2>3. ~(m < n)
    BY <1>1, <2>2
  <2> QED
    BY <2>1, <2>3
<1> QED
  BY <1>2

LEMMA SetInduction ==
  ASSUME NEW S, 0 \in S, \A n \in Nat : n \in S => n + 1 \in S
  PROVE  \A n \in Nat : n \in S
<1> SUFFICES ASSUME Nat \ S # {} PROVE FALSE
  OBVIOUS
<1>1. PICK n \in Nat \ S : \A m \in Nat \ S : n <= m
  BY LeastNatural
<1>2. n # 0 /\ n - 1 \in Nat
  BY <1>1
<1>3. n - 1 \in S
  BY <1>1, <1>2
<1> QED
  BY <1>1, <1>2, <1>3

-----------------------------------------------------------------------------
(* The formulas *)

LEMMA Division ==
  ASSUME NEW a \in Nat, NEW b \in Nat \ {0}
  PROVE  /\ a \div b \in Nat
         /\ b * (a \div b) <= a /\ a < b * (a \div b) + b
  OBVIOUS

LEMMA CeilDivision ==
  ASSUME NEW a \in Nat \ {0}, NEW b \in Nat \ {0}
  PROVE  /\ CeilDiv(a, b) \in Nat \ {0}
         /\ a <= b * CeilDiv(a, b) /\ b * CeilDiv(a, b) < a + b
<1> DEFINE q == (a + b - 1) \div b
<1>1. q \in Nat /\ b * q <= a + b - 1 /\ a + b - 1 < b * q + b
  BY Division
<1>2. CeilDiv(a, b) = q
  BY DEF CeilDiv
<1> HIDE DEF q
<1>3. q # 0
  BY <1>1
<1> QED
  BY <1>1, <1>2, <1>3

\* There are blocks, none of them empty; the large ones have one symbol more than the small
\* ones, and all together as many as the object.
LEMMA BlockLengths ==
  ASSUME NEW length \in Nat \ {0}
  PROVE  /\ NofSourceSymbols(length) \in Nat \ {0}
         /\ NofSourceBlocks(length) \in Nat \ {0}
         /\ SmallBlock(length) \in Nat \ {0}
         /\ LargeBlock(length) \in {SmallBlock(length), SmallBlock(length) + 1}
         /\ NofLargeBlocks(length) \in 0..(NofSourceBlocks(length) - 1)
         /\ NofLargeBlocks(length) > 0 => LargeBlock(length) = SmallBlock(length) + 1
         /\ NofSourceSymbols(length) =
              SmallBlock(length) * NofSourceBlocks(length) + NofLargeBlocks(length)
<1> DEFINE n == NofSourceSymbols(length)
           k == NofSourceBlocks(length)
           large == LargeBlock(length)
           small == SmallBlock(length)
           more == NofLargeBlocks(length)
<1>1. n \in Nat \ {0}
  BY CeilDivision, PartitioningAssumption DEF NofSourceSymbols
<1>2. k \in Nat \ {0} /\ k <= n
  <2>1. k = CeilDiv(n, MaxBlock) /\ MaxBlock \in Nat \ {0}
    BY PartitioningAssumption DEF NofSourceBlocks
  <2> HIDE DEF n, k
  <2>2. k \in Nat \ {0} /\ MaxBlock * k < n + MaxBlock
    BY <1>1, <2>1, CeilDivision
  <2>3. MaxBlock * k = MaxBlock * (k - 1) + MaxBlock
    BY <2>1, <2>2
  <2>4. k - 1 <= MaxBlock * (k - 1) /\ MaxBlock * (k - 1) \in Nat
    BY <2>1, <2>2
  <2> QED
    BY <1>1, <2>1, <2>2, <2>3, <2>4
<1>3. large = CeilDiv(n, k) /\ small = n \div k /\ more = n - small * k
  BY DEF LargeBlock, SmallBlock, NofLargeBlocks
<1> HIDE DEF n, k, large, small, more
<1>4. small \in Nat /\ k * small <= n /\ n < k * small + k
  BY <1>1, <1>2, <1>3, Division
<1>5. large \in Nat \ {0} /\ n <= k * large /\ k * large < n + k
  BY <1>1, <1>2, <1>3, CeilDivision
<1>6. k * small = small * k
  BY <1>2, <1>4
<1>7. small # 0
  <2> SUFFICES ASSUME small = 0 PROVE FALSE
    OBVIOUS
  <2>1. k * small = 0
    BY <1>2
  <2> QED
    BY <1>1, <1>2, <1>4, <2>1
<1>8. more \in 0..(k - 1) /\ n = small * k + more
  BY <1>1, <1>2, <1>3, <1>4, <1>6
<1>9. large >= small
  BY <1>1, <1>2, <1>4, <1>5
<1>10. large <= small + 1
  <2>1. k * large < k * (small + 2)
    BY <1>1, <1>2, <1>4, <1>5
  <2> QED
    BY <1>2, <1>4, <1>5, <2>1
<1>11. more > 0 => large # small
  BY <1>1, <1>2, <1>4, <1>5, <1>6, <1>8
<1> QED
  BY <1>1, <1>2, <1>4, <1>5, <1>7, <1>8, <1>9, <1>10, <1>11 DEF n, k, large, small, more

\* The blocks follow each other, from the first symbol to the last.
LEMMA BlocksFollow ==
  ASSUME NEW length \in Nat \ {0}
  PROVE  /\ SymbolsBefore(length, 0) = 0
         /\ SymbolsBefore(length, NofSourceBlocks(length)) = NofSourceSymbols(length)
         /\ \A b \in Blocks(length) :
              /\ BlockLength(length, b) \in Nat \ {0}
              /\ SymbolsBefore(length, b) \in Nat
              /\ SymbolsBefore(length, b + 1) = SymbolsBefore(length, b) + BlockLength(length, b)
<1> DEFINE n == NofSourceSymbols(length)
           k == NofSourceBlocks(length)
           large == LargeBlock(length)
           small == SmallBlock(length)
           more == NofLargeBlocks(length)
<1>1. /\ n \in Nat \ {0} /\ k \in Nat \ {0} /\ small \in Nat \ {0}
      /\ large \in {small, small + 1} /\ more \in 0..(k - 1)
      /\ more > 0 => large = small + 1
      /\ n = small * k + more
  BY BlockLengths
<1>2. \A b : /\ BlockLength(length, b) = IF b < more THEN large ELSE small
             /\ SymbolsBefore(length, b) = IF b <= more THEN b * large
                                           ELSE more * large + (b - more) * small
  BY DEF BlockLength, SymbolsBefore
<1>3. Blocks(length) = 0..(k - 1)
  BY DEF Blocks
<1> HIDE DEF n, k, large, small, more
<1>4. SymbolsBefore(length, 0) = 0
  BY <1>1, <1>2
<1>5. SymbolsBefore(length, k) = n
  <2>1. SymbolsBefore(length, k) = more * large + (k - more) * small
    BY <1>1, <1>2
  <2>2. more * large = more * small + more
    BY <1>1
  <2>3. (k - more) * small = small * k - more * small
    BY <1>1
  <2> QED
    BY <1>1, <2>1, <2>2, <2>3
<1>6. ASSUME NEW b \in 0..(k - 1)
      PROVE  /\ BlockLength(length, b) \in Nat \ {0}
             /\ SymbolsBefore(length, b) \in Nat
             /\ SymbolsBefore(length, b + 1) = SymbolsBefore(length, b) + BlockLength(length, b)
  <2> DEFINE d == b + 1
  <2>1. BlockLength(length, b) = IF b < more THEN large ELSE small
    BY <1>2
  <2>2. SymbolsBefore(length, b) = IF b <= more THEN b * large
                                   ELSE more * large + (b - more) * small
    BY <1>2
  <2>3. d = b + 1
    OBVIOUS
  <2> HIDE DEF d
  <2>4. SymbolsBefore(length, d) = IF d <= more THEN d * large
                                   ELSE more * large + (d - more) * small
    BY <1>2
  <2>5. CASE b < more
    <3>1. b * large \in Nat /\ (b + 1) * large = b * large + large
      <4>1. b \in Nat /\ large \in Nat
        BY <1>1
      <4> QED
        BY <4>1
    <3>2. SymbolsBefore(length, b) = b * large /\ BlockLength(length, b) = large
      BY <1>1, <2>1, <2>2, <2>5
    <3>3. SymbolsBefore(length, b + 1) = (b + 1) * large
      BY <1>1, <2>4, <2>5, <2>3
    <3> QED
      BY <1>1, <3>1, <3>2, <3>3
  <2>6. CASE b >= more
    <3>1. b - more \in Nat /\ large \in Nat /\ more \in Nat /\ small \in Nat
      BY <1>1, <2>6
    <3>2. /\ (b - more) * small \in Nat /\ more * large \in Nat
          /\ (b + 1 - more) * small = (b - more) * small + small
      BY <3>1
    <3>3. SymbolsBefore(length, b) = more * large + (b - more) * small
      <4>1. CASE b > more
        BY <1>1, <2>2, <4>1
      <4>2. CASE b = more
        <5>1. (b - more) * small = 0
          BY <3>1, <4>2
        <5> QED
          BY <2>2, <3>1, <3>2, <4>2, <5>1
      <4> QED
        BY <1>1, <2>6, <4>1, <4>2
    <3> QED
      BY <1>1, <2>1, <2>4, <2>6, <2>3, <3>1, <3>2, <3>3
  <2> QED
    BY <1>1, <2>5, <2>6
<1> QED
  BY <1>3, <1>4, <1>5, <1>6 DEF n, k

\* Of two blocks the first ends before the second begins.
LEMMA BlocksApart ==
  ASSUME NEW length \in Nat \ {0}, NEW b \in Blocks(length), NEW c \in Blocks(length), b < c
  PROVE  SymbolsBefore(length, b) + BlockLength(length, b) <= SymbolsBefore(length, c)
<1> DEFINE k == NofSourceBlocks(length)
           large == LargeBlock(length)
           small == SmallBlock(length)
           more == NofLargeBlocks(length)
           d == b + 1
<1>1. /\ small \in Nat /\ large \in Nat /\ more \in Nat /\ k \in Nat
      /\ b \in Nat /\ c \in Nat /\ d \in Nat /\ d <= c
  BY BlockLengths DEF Blocks
<1>2. SymbolsBefore(length, d) = IF d <= more THEN d * large
                                 ELSE more * large + (d - more) * small
  BY DEF SymbolsBefore
<1>3. SymbolsBefore(length, c) = IF c <= more THEN c * large
                                 ELSE more * large + (c - more) * small
  BY DEF SymbolsBefore
<1>4. SymbolsBefore(length, d) = SymbolsBefore(length, b) + BlockLength(length, b)
  BY BlocksFollow
<1> HIDE DEF k, large, small, more, d
<1>5. SymbolsBefore(length, d) <= SymbolsBefore(length, c)
  <2>1. CASE c <= more
    <3>1. d * large <= c * large
      BY <1>1
    <3> QED
      BY <1>1, <1>2, <1>3, <2>1, <3>1
  <2>2. CASE d <= more /\ more < c
    <3>1. d * large <= more * large
      BY <1>1, <2>2
    <3>2. c - more \in Nat
      BY <1>1, <2>2
    <3>3. (c - more) * small \in Nat /\ more * large \in Nat /\ d * large \in Nat
      BY <1>1, <3>2
    <3>4. SymbolsBefore(length, c) = more * large + (c - more) * small
      BY <1>1, <1>3, <2>2
    <3>5. SymbolsBefore(length, d) = d * large
      BY <1>2, <2>2
    <3> QED
      BY <3>1, <3>3, <3>4, <3>5
  <2>3. CASE more < d
    <3>1. c - more \in Nat /\ d - more \in Nat /\ d - more <= c - more
      BY <1>1, <2>3
    <3>2. /\ (d - more) * small <= (c - more) * small
          /\ (d - more) * small \in Nat /\ (c - more) * small \in Nat /\ more * large \in Nat
      BY <1>1, <3>1
    <3>3. SymbolsBefore(length, c) = more * large + (c - more) * small
      BY <1>1, <1>3, <2>3
    <3>4. SymbolsBefore(length, d) = more * large + (d - more) * small
      BY <1>1, <1>2, <2>3
    <3> QED
      BY <3>2, <3>3, <3>4
  <2> QED
    BY <1>1, <2>1, <2>2, <2>3
<1> QED
  BY <1>4, <1>5

\* Every symbol is in a block.
LEMMA InSomeBlock ==
  ASSUME NEW length \in Nat \ {0}, NEW i \in 1..NofSourceSymbols(length)
  PROVE  \E b \in Blocks(length) :
           /\ SymbolsBefore(length, b) < i
           /\ i <= SymbolsBefore(length, b) + BlockLength(length, b)
<1> DEFINE n == NofSourceSymbols(length)
           k == NofSourceBlocks(length)
           large == LargeBlock(length)
           small == SmallBlock(length)
           more == NofLargeBlocks(length)
<1>1. /\ n \in Nat \ {0} /\ k \in Nat \ {0} /\ small \in Nat \ {0}
      /\ large \in Nat \ {0} /\ more \in 0..(k - 1)
      /\ more > 0 => large = small + 1
      /\ n = small * k + more
      /\ i \in Nat /\ 1 <= i /\ i <= n
  BY BlockLengths
<1>2. \A b : /\ BlockLength(length, b) = IF b < more THEN large ELSE small
             /\ SymbolsBefore(length, b) = IF b <= more THEN b * large
                                           ELSE more * large + (b - more) * small
  BY DEF BlockLength, SymbolsBefore
<1>3. Blocks(length) = 0..(k - 1)
  BY DEF Blocks
<1> HIDE DEF n, k, large, small, more
<1>4. more \in Nat /\ more * large \in Nat
  <2>1. more \in Nat
    BY <1>1
  <2> QED
    BY <1>1, <2>1
<1>5. CASE i <= more * large
  <2> DEFINE b == (i - 1) \div large
  <2>1. b \in Nat /\ large * b <= i - 1 /\ i - 1 < large * b + large
    <3>1. i - 1 \in Nat
      BY <1>1
    <3> QED
      BY <1>1, <3>1, Division
  <2> HIDE DEF b
  <2>2. large * b = b * large /\ b * large \in Nat
    BY <1>1, <2>1
  <2>3. b < more
    <3> SUFFICES ASSUME more <= b PROVE FALSE
      BY <1>4, <2>1
    <3>1. more * large <= b * large
      BY <1>1, <1>4, <2>1
    <3> QED
      BY <1>1, <1>4, <1>5, <2>1, <2>2, <3>1
  <2>4. SymbolsBefore(length, b) = b * large
    <3>1. SymbolsBefore(length, b) = IF b <= more THEN b * large
                                     ELSE more * large + (b - more) * small
      BY <1>2
    <3> QED
      BY <1>4, <2>1, <2>3, <3>1
  <2>5. BlockLength(length, b) = large
    <3>1. BlockLength(length, b) = IF b < more THEN large ELSE small
      BY <1>2
    <3> QED
      BY <2>3, <3>1
  <2>6. b \in Blocks(length)
    BY <1>1, <1>3, <2>1, <2>3
  <2> QED
    BY <1>1, <2>1, <2>2, <2>4, <2>5, <2>6
<1>6. CASE more * large < i
  <2> DEFINE r == i - 1 - more * large
             q == r \div small
             b == more + q
  <2>1. r \in Nat
    BY <1>1, <1>4, <1>6
  <2>2. q \in Nat /\ small * q <= r /\ r < small * q + small
    <3> HIDE DEF r
    <3> QED
      BY <1>1, <2>1, Division
  <2> HIDE DEF q
  <2>3. q < k - more
    <3>1. more * large = more * small + more
      BY <1>1, <1>4
    <3>2. k - more \in Nat /\ small * (k - more) = small * k - more * small
      BY <1>1
    <3>3. small * k \in Nat /\ more * small \in Nat
      BY <1>1, <1>4
    <3>4. r < small * (k - more)
      BY <1>1, <1>4, <3>1, <3>2, <3>3
    <3> SUFFICES ASSUME k - more <= q PROVE FALSE
      BY <2>2, <3>2
    <3>5. small * (k - more) <= small * q
      BY <1>1, <2>2, <3>2
    <3>6. small * q \in Nat /\ small * (k - more) \in Nat
      BY <1>1, <2>2, <3>2
    <3> HIDE DEF r
    <3> QED
      BY <2>1, <2>2, <3>4, <3>5, <3>6
  <2>4. b \in Blocks(length) /\ b \in Nat /\ more <= b /\ b - more = q
    BY <1>1, <1>3, <1>4, <2>2, <2>3
  <2> HIDE DEF b
  <2>5. q * small = small * q /\ q * small \in Nat
    BY <1>1, <2>2
  <2>6. SymbolsBefore(length, b) = more * large + q * small
    <3>1. SymbolsBefore(length, b) = IF b <= more THEN b * large
                                     ELSE more * large + (b - more) * small
      BY <1>2
    <3>2. CASE b = more
      <4>1. q = 0 /\ q * small = 0
        BY <1>1, <1>4, <2>2, <2>4, <3>2
      <4> QED
        BY <1>4, <3>1, <3>2, <4>1
    <3>3. CASE b > more
      BY <1>4, <2>4, <3>1, <3>3
    <3> QED
      BY <1>4, <2>4, <3>2, <3>3
  <2>7. BlockLength(length, b) = small
    <3>1. BlockLength(length, b) = IF b < more THEN large ELSE small
      BY <1>2
    <3> QED
      BY <1>4, <2>4, <3>1
  <2> QED
    BY <1>1, <1>4, <2>1, <2>2, <2>4, <2>5, <2>6, <2>7
<1> QED
  BY <1>1, <1>4, <1>5, <1>6

-----------------------------------------------------------------------------
\* The block and the symbol id that BlockOf and SymbolsBefore give a symbol are those of a
\* symbol of the object.
LEMMA BlockOfIs ==
  ASSUME NEW length \in Nat \ {0}, NEW i \in 1..NofSourceSymbols(length)
  PROVE  /\ BlockOf(length, i) \in Blocks(length)
         /\ i - 1 - SymbolsBefore(length, BlockOf(length, i))
              \in 0..(BlockLength(length, BlockOf(length, i)) - 1)
<1> DEFINE b == BlockOf(length, i)
<1>1. /\ b \in Blocks(length) /\ SymbolsBefore(length, b) < i
      /\ i <= SymbolsBefore(length, b) + BlockLength(length, b)
  BY InSomeBlock DEF BlockOf
<1>2. BlockLength(length, b) \in Nat \ {0} /\ SymbolsBefore(length, b) \in Nat
  BY <1>1, BlocksFollow
<1>3. i \in Nat /\ 1 <= i
  BY BlockLengths
<1> HIDE DEF b
<1> QED
  BY <1>1, <1>2, <1>3 DEF b

\* What the wire's numbers name: each symbol of an object is one symbol of one of the blocks
\* that create_blocks makes, and each of those a symbol of the object, whatever the length
\* of the object and the FEC parameters.
THEOREM BlocksDivideSymbols ==
  ASSUME NEW length \in Nat \ {0}
  PROVE  /\ \A b \in Blocks(length) : \A e \in 0..(BlockLength(length, b) - 1) :
              SymbolNumber(length, b, e) \in 1..NofSourceSymbols(length)
         /\ \A i \in 1..NofSourceSymbols(length) :
              \E b \in Blocks(length) : \E e \in 0..(BlockLength(length, b) - 1) :
                SymbolNumber(length, b, e) = i
         /\ \A b, c \in Blocks(length) :
              \A e \in 0..(BlockLength(length, b) - 1), f \in 0..(BlockLength(length, c) - 1) :
                SymbolNumber(length, b, e) = SymbolNumber(length, c, f) => b = c /\ e = f
<1>1. \A b \in Blocks(length) : b \in Nat /\ BlockLength(length, b) \in Nat \ {0}
                                 /\ SymbolsBefore(length, b) \in Nat
  BY BlocksFollow, BlockLengths DEF Blocks
<1>2. ASSUME NEW b \in Blocks(length), NEW e \in 0..(BlockLength(length, b) - 1)
      PROVE  SymbolNumber(length, b, e) \in 1..NofSourceSymbols(length)
  <2> DEFINE k == NofSourceBlocks(length)
  <2>1. k \in Nat \ {0} /\ NofSourceSymbols(length) \in Nat
        /\ SymbolsBefore(length, k) = NofSourceSymbols(length)
    BY BlockLengths, BlocksFollow
  <2>2. SymbolsBefore(length, b) + BlockLength(length, b) <= NofSourceSymbols(length)
    <3>1. CASE b = k - 1
      <4>1. b + 1 = k
        BY <2>1, <3>1
      <4> QED
        BY <1>1, <2>1, <4>1, BlocksFollow
    <3>2. CASE b < k - 1
      <4>1. k - 1 \in Blocks(length) /\ k - 1 + 1 = k
        BY <2>1 DEF Blocks
      <4>2. SymbolsBefore(length, k) = SymbolsBefore(length, k - 1) + BlockLength(length, k - 1)
        BY <4>1, BlocksFollow
      <4>3. SymbolsBefore(length, b) + BlockLength(length, b) <= SymbolsBefore(length, k - 1)
        BY <3>2, <4>1, BlocksApart
      <4> QED
        BY <1>1, <2>1, <4>1, <4>2, <4>3
    <3> QED
      BY <1>1, <2>1, <3>1, <3>2 DEF Blocks
  <2> QED
    BY <1>1, <2>1, <2>2 DEF SymbolNumber
<1>3. ASSUME NEW i \in 1..NofSourceSymbols(length)
      PROVE  \E b \in Blocks(length) : \E e \in 0..(BlockLength(length, b) - 1) :
               SymbolNumber(length, b, e) = i
  <2> DEFINE b == BlockOf(length, i)
             e == i - 1 - SymbolsBefore(length, b)
  <2>1. b \in Blocks(length) /\ e \in 0..(BlockLength(length, b) - 1)
    BY BlockOfIs
  <2>2. SymbolNumber(length, b, e) = i
    <3>1. SymbolsBefore(length, b) \in Nat /\ i \in Nat
      BY <1>1, <2>1, BlockLengths
    <3> HIDE DEF b
    <3> QED
      BY <3>1 DEF SymbolNumber
  <2> QED
    BY <2>1, <2>2
<1>4. ASSUME NEW b \in Blocks(length), NEW c \in Blocks(length),
             NEW e \in 0..(BlockLength(length, b) - 1), NEW f \in 0..(BlockLength(length, c) - 1),
             SymbolNumber(length, b, e) = SymbolNumber(length, c, f)
      PROVE  b = c /\ e = f
  <2>1. SymbolsBefore(length, b) + e = SymbolsBefore(length, c) + f
    BY <1>1, <1>4 DEF SymbolNumber
  <2>2. ~(b < c)
    BY <1>1, <2>1, BlocksApart
  <2>3. ~(c < b)
    BY <1>1, <2>1, BlocksApart
  <2>4. b = c
    BY <1>1, <2>2, <2>3
  <2> QED
    BY <1>1, <2>1, <2>4
<1> QED
  BY <1>2, <1>3, <1>4

-----------------------------------------------------------------------------
(* The loops *)

\* The equation that defines Reached has a solution.
LEMMA ReachedIs ==
  ASSUME NEW length \in Nat
  PROVE  Reached(length) =
           [i \in 1..length |->
              IF i = 1 THEN [sbn |-> 0, esi |-> 0, left |-> length]
              ELSE AfterSymbol(length, Reached(length)[i - 1])]
<1> DEFINE start == [sbn |-> 0, esi |-> 0, left |-> length]
           Solves(f, n) == f = [i \in 1..n |-> IF i = 1 THEN start
                                               ELSE AfterSymbol(length, f[i - 1])]
           S == {n \in Nat : \E f : Solves(f, n)}
<1>1. 0 \in S
  <2>1. Solves([i \in 1..0 |-> start], 0)
    OBVIOUS
  <2> QED
    BY <2>1
<1>2. ASSUME NEW n \in Nat, n \in S
      PROVE  n + 1 \in S
  <2>1. PICK f : Solves(f, n)
    BY <1>2
  <2> DEFINE next == IF n = 0 THEN start ELSE AfterSymbol(length, f[n])
             g == [i \in 1..(n + 1) |-> IF i <= n THEN f[i] ELSE next]
  <2>2. ASSUME NEW i \in 1..(n + 1)
        PROVE  g[i] = IF i = 1 THEN start ELSE AfterSymbol(length, g[i - 1])
    <3> HIDE DEF start
    <3>1. CASE i <= n
      <4>1. g[i] = f[i] /\ (i # 1 => g[i - 1] = f[i - 1])
        BY <3>1
      <4>2. f[i] = IF i = 1 THEN start ELSE AfterSymbol(length, f[i - 1])
        BY <2>1, <3>1
      <4> HIDE DEF g
      <4> QED
        BY <4>1, <4>2
    <3>2. CASE i = n + 1
      <4>1. g[i] = next /\ (i # 1 => g[i - 1] = f[n] /\ n # 0)
        BY <3>2
      <4> HIDE DEF g
      <4> QED
        BY <3>2, <4>1
    <3> QED
      BY <3>1, <3>2
  <2>3. Solves(g, n + 1)
    <3> HIDE DEF start, next
    <3>1. DOMAIN g = 1..(n + 1) /\ g = [i \in 1..(n + 1) |-> g[i]]
      OBVIOUS
    <3> HIDE DEF g
    <3> QED
      BY <2>2, <3>1
  <2> HIDE DEF Solves
  <2> QED
    BY <2>3
<1>3. \A n \in Nat : n \in S
  <2> HIDE DEF S
  <2> QED
    BY <1>1, <1>2, SetInduction
<1>4. \E f : Solves(f, length)
  BY <1>3
<1>5. Reached(length) = CHOOSE f : Solves(f, length)
  BY DEF Reached
<1>6. Solves(Reached(length), length)
  <2> HIDE DEF Solves
  <2> QED
    BY <1>4, <1>5
<1> QED
  BY <1>6

\* The number of symbols: all but the last are full, and it is not empty.
LEMMA NofSymbols ==
  ASSUME NEW length \in Nat \ {0}
  PROVE  /\ NofSourceSymbols(length) \in 1..length
         /\ \A i \in Nat :
              /\ i < NofSourceSymbols(length) => i * SymbolBytes < length
              /\ i >= NofSourceSymbols(length) => length <= i * SymbolBytes
<1> DEFINE n == NofSourceSymbols(length)
<1>1. n \in Nat \ {0} /\ length <= SymbolBytes * n /\ SymbolBytes * n < length + SymbolBytes
  BY CeilDivision, PartitioningAssumption DEF NofSourceSymbols
<1>2. SymbolBytes \in Nat \ {0}
  BY PartitioningAssumption
<1> HIDE DEF n
<1>3. SymbolBytes * n = (n - 1) * SymbolBytes + SymbolBytes /\ SymbolBytes * n = n * SymbolBytes
  BY <1>1, <1>2
<1>4. (n - 1) * SymbolBytes < length /\ (n - 1) * SymbolBytes \in Nat
  BY <1>1, <1>2, <1>3
<1>5. n - 1 <= (n - 1) * SymbolBytes
  BY <1>1, <1>2
<1>6. ASSUME NEW i \in Nat, i < n
      PROVE  i * SymbolBytes < length
  <2>1. i * SymbolBytes <= (n - 1) * SymbolBytes /\ i * SymbolBytes \in Nat
    BY <1>1, <1>2, <1>6
  <2> QED
    BY <1>4, <2>1
<1>7. ASSUME NEW i \in Nat, i >= n
      PROVE  length <= i * SymbolBytes
  <2>1. n * SymbolBytes <= i * SymbolBytes /\ i * SymbolBytes \in Nat /\ n * SymbolBytes \in Nat
    BY <1>1, <1>2, <1>7
  <2> QED
    BY <1>1, <1>3, <2>1
<1>8. n \in 1..length
  BY <1>1, <1>4, <1>5
<1> QED
  BY <1>6, <1>7, <1>8 DEF n

\* The block and the id of a symbol are those that number it.
LEMMA Numbered ==
  ASSUME NEW length \in Nat \ {0}, NEW b \in Blocks(length),
         NEW e \in 0..(BlockLength(length, b) - 1), NEW i, i = SymbolNumber(length, b, e)
  PROVE  BlockOf(length, i) = b /\ i - 1 - SymbolsBefore(length, BlockOf(length, i)) = e
<1> DEFINE c == BlockOf(length, i)
           f == i - 1 - SymbolsBefore(length, c)
<1>1. i \in 1..NofSourceSymbols(length)
  BY BlocksDivideSymbols
<1>2. i \in Nat
  BY <1>1, BlockLengths
<1>3. c \in Blocks(length) /\ f \in 0..(BlockLength(length, c) - 1)
  BY <1>1, BlockOfIs
<1> HIDE DEF c
<1>4. SymbolsBefore(length, c) \in Nat
  BY <1>3, BlocksFollow
<1>5. SymbolNumber(length, c, f) = i
  BY <1>2, <1>4 DEF SymbolNumber
<1> HIDE DEF f
<1>6. SymbolNumber(length, c, f) = SymbolNumber(length, b, e)
  BY <1>5
<1>7. c = b /\ f = e
  BY <1>3, <1>6, BlocksDivideSymbols
<1> QED
  BY <1>7 DEF f, c

\* Where the loops are before the i-th symbol, and once there are no bytes left.
AtSymbol(length, i) ==
  IF i <= NofSourceSymbols(length)
  THEN Reached(length)[i] =
         [sbn |-> BlockOf(length, i), esi |-> i - 1 - SymbolsBefore(length, BlockOf(length, i)),
          left |-> length - (i - 1) * SymbolBytes]
  ELSE Reached(length)[i].left = 0

LEMMA AtSymbolNumbered ==
  ASSUME NEW length \in Nat \ {0}, NEW b \in Blocks(length),
         NEW e \in 0..(BlockLength(length, b) - 1), NEW i, i = SymbolNumber(length, b, e),
         i <= NofSourceSymbols(length),
         Reached(length)[i] = [sbn |-> b, esi |-> e, left |-> length - (i - 1) * SymbolBytes]
  PROVE  AtSymbol(length, i)
<1>1. BlockOf(length, i) = b /\ i - 1 - SymbolsBefore(length, BlockOf(length, i)) = e
  BY Numbered
<1> QED
  BY <1>1 DEF AtSymbol

LEMMA AtFirstSymbol ==
  ASSUME NEW length \in Nat \ {0}
  PROVE  AtSymbol(length, 1)
<1>1. Reached(length)[1] = [sbn |-> 0, esi |-> 0, left |-> length]
  BY ReachedIs
<1>2. 0 \in Blocks(length) /\ 0 \in 0..(BlockLength(length, 0) - 1)
  <2>1. 0 \in Blocks(length)
    BY BlockLengths DEF Blocks
  <2> QED
    BY <2>1, BlocksFollow
<1>3. SymbolNumber(length, 0, 0) = 1
  BY BlocksFollow DEF SymbolNumber
<1>4. 1 <= NofSourceSymbols(length) /\ length - (1 - 1) * SymbolBytes = length
  BY NofSymbols, PartitioningAssumption
<1> QED
  BY <1>1, <1>2, <1>3, <1>4, AtSymbolNumbered

LEMMA AtNextSymbol ==
  ASSUME NEW length \in Nat \ {0}, NEW i \in 1..length, i + 1 \in 1..length, AtSymbol(length, i)
  PROVE  AtSymbol(length, i + 1)
<1> DEFINE n == NofSourceSymbols(length)
           at == Reached(length)[i]
           next == Reached(length)[i + 1]
           left == at.left - Least(at.left, SymbolBytes)
           b == BlockOf(length, i)
           e == i - 1 - SymbolsBefore(length, b)
<1>1. next = AfterSymbol(length, at)
  <2>1. i + 1 # 1 /\ i + 1 - 1 = i
    OBVIOUS
  <2> QED
    BY <2>1, ReachedIs
<1>2. /\ next.left = left
      /\ at.esi + 1 < BlockLength(length, at.sbn) =>
           next = [sbn |-> at.sbn, esi |-> at.esi + 1, left |-> left]
      /\ ~(at.esi + 1 < BlockLength(length, at.sbn)) =>
           next = [sbn |-> at.sbn + 1, esi |-> 0, left |-> left]
  <2> HIDE DEF at, next, left
  <2>1. next = IF at.esi + 1 < BlockLength(length, at.sbn)
               THEN [sbn |-> at.sbn, esi |-> at.esi + 1, left |-> left]
               ELSE [sbn |-> at.sbn + 1, esi |-> 0, left |-> left]
    BY <1>1 DEF AfterSymbol, left
  <2> QED
    BY <2>1
<1>3. /\ n \in 1..length /\ SymbolBytes \in Nat \ {0}
      /\ (i < n => i * SymbolBytes < length) /\ (i >= n => length <= i * SymbolBytes)
  BY NofSymbols, PartitioningAssumption
<1>4. i * SymbolBytes \in Nat /\ (i - 1) * SymbolBytes = i * SymbolBytes - SymbolBytes
  BY <1>3
<1>5. i <= n => /\ at = [sbn |-> b, esi |-> e, left |-> length - (i - 1) * SymbolBytes]
                /\ b \in Blocks(length) /\ e \in 0..(BlockLength(length, b) - 1)
                /\ BlockLength(length, b) \in Nat /\ SymbolsBefore(length, b) \in Nat
  <2> SUFFICES ASSUME i <= n PROVE /\ at = [sbn |-> b, esi |-> e, left |-> length - (i - 1) * SymbolBytes]
                /\ b \in Blocks(length) /\ e \in 0..(BlockLength(length, b) - 1)
                /\ BlockLength(length, b) \in Nat /\ SymbolsBefore(length, b) \in Nat
    OBVIOUS
  <2>1. i \in 1..n
    BY <1>3
  <2>2. b \in Blocks(length) /\ e \in 0..(BlockLength(length, b) - 1)
    BY <2>1, BlockOfIs
  <2> HIDE DEF b
  <2> QED
    BY <2>2, BlocksFollow DEF AtSymbol, b
<1>6. i > n => at.left = 0
  BY <1>3 DEF AtSymbol
<1> HIDE DEF n, at, next, b
<1>7. CASE i >= n
  <2>1. left = 0
    <3>1. CASE i = n
      <4>1. at.left = length - (i - 1) * SymbolBytes
        BY <1>3, <1>5, <3>1
      <4>2. at.left \in Int /\ at.left <= SymbolBytes
        BY <1>3, <1>4, <3>1, <4>1
      <4> QED
        BY <1>3, <4>2 DEF Least
    <3>2. CASE i > n
      BY <1>3, <1>6, <3>2 DEF Least
    <3> QED
      BY <1>3, <1>7, <3>1, <3>2
  <2>2. ~(i + 1 <= n)
    BY <1>3, <1>7
  <2> QED
    BY <1>2, <2>1, <2>2 DEF AtSymbol, n, next
<1>8. CASE i < n
  <2>1. /\ at.sbn = b /\ at.esi = e /\ at.left = length - (i - 1) * SymbolBytes
        /\ b \in Blocks(length) /\ e \in 0..(BlockLength(length, b) - 1)
        /\ BlockLength(length, b) \in Nat /\ SymbolsBefore(length, b) \in Nat
    BY <1>3, <1>5, <1>8
  <2>2. left = length - i * SymbolBytes
    <3>1. at.left = length - i * SymbolBytes + SymbolBytes /\ i * SymbolBytes < length
      BY <1>3, <1>4, <1>8, <2>1
    <3> QED
      BY <1>3, <1>4, <3>1 DEF Least
  <2>3. i + 1 <= n /\ i + 1 - 1 = i /\ i + 1 \in Nat
    BY <1>3, <1>8
  <2> HIDE DEF left
  <2> SUFFICES ASSUME NEW c \in Blocks(length), NEW f \in 0..(BlockLength(length, c) - 1),
                      next = [sbn |-> c, esi |-> f, left |-> left],
                      SymbolNumber(length, c, f) = i + 1
               PROVE  AtSymbol(length, i + 1)
    <3>1. CASE e + 1 < BlockLength(length, b)
      <4>1. e + 1 \in 0..(BlockLength(length, b) - 1)
        BY <2>1, <3>1
      <4>2. SymbolNumber(length, b, e + 1) = i + 1
        BY <2>1 DEF SymbolNumber
      <4>3. next = [sbn |-> b, esi |-> e + 1, left |-> left]
        BY <1>2, <2>1, <3>1
      <4> HIDE DEF e
      <4> QED
        BY <2>1, <4>1, <4>2, <4>3
    <3>2. CASE ~(e + 1 < BlockLength(length, b))
      <4>1. b \in Nat /\ SymbolsBefore(length, b + 1) = i
        <5>1. e + 1 = BlockLength(length, b)
          BY <2>1, <3>2
        <5>2. SymbolsBefore(length, b + 1) = SymbolsBefore(length, b) + BlockLength(length, b)
              /\ b \in Nat
          BY <2>1, BlocksFollow, BlockLengths DEF Blocks
        <5> QED
          BY <2>1, <5>1, <5>2
      <4>2. b + 1 \in Blocks(length)
        <5>1. /\ NofSourceBlocks(length) \in Nat
              /\ SymbolsBefore(length, NofSourceBlocks(length)) = n
          BY BlockLengths, BlocksFollow DEF n
        <5>2. b + 1 # NofSourceBlocks(length)
          BY <1>3, <1>8, <4>1, <5>1
        <5> QED
          BY <2>1, <4>1, <5>1, <5>2 DEF Blocks
      <4>3. 0 \in 0..(BlockLength(length, b + 1) - 1)
        BY <4>2, BlocksFollow
      <4>4. SymbolNumber(length, b + 1, 0) = i + 1
        BY <4>1 DEF SymbolNumber
      <4>5. next = [sbn |-> b + 1, esi |-> 0, left |-> left]
        BY <1>2, <2>1, <3>2
      <4> QED
        BY <4>2, <4>3, <4>4, <4>5
    <3> QED
      BY <3>1, <3>2
  <2> DEFINE j == i + 1
  <2>4. j = SymbolNumber(length, c, f)
    OBVIOUS
  <2>5. j <= NofSourceSymbols(length)
    BY <2>3 DEF n
  <2>6. Reached(length)[j] = [sbn |-> c, esi |-> f, left |-> length - (j - 1) * SymbolBytes]
    BY <2>2, <2>3 DEF next
  <2> HIDE DEF j
  <2>7. AtSymbol(length, j)
    BY <2>4, <2>5, <2>6, AtSymbolNumbered
  <2> QED
    BY <2>7 DEF j
<1> QED
  BY <1>3, <1>7, <1>8

LEMMA AtEverySymbol ==
  ASSUME NEW length \in Nat \ {0}, NEW i \in 1..length
  PROVE  AtSymbol(length, i)
<1> DEFINE S == {m \in Nat : m + 1 \in 1..length => AtSymbol(length, m + 1)}
<1>1. 0 \in S
  BY AtFirstSymbol
<1>2. ASSUME NEW m \in Nat, m \in S
      PROVE  m + 1 \in S
  <2> SUFFICES ASSUME m + 1 + 1 \in 1..length PROVE AtSymbol(length, m + 1 + 1)
    OBVIOUS
  <2>1. m + 1 \in 1..length
    OBVIOUS
  <2> QED
    BY <1>2, <2>1, AtNextSymbol
<1>3. \A m \in Nat : m \in S
  <2> HIDE DEF S
  <2> QED
    BY <1>1, <1>2, SetInduction
<1>4. i - 1 \in Nat /\ i - 1 + 1 = i
  OBVIOUS
<1> QED
  BY <1>3, <1>4

\* What create_blocks makes: its loops end with the object, and the symbols they made are,
\* each with its block, its id and its length, those that the numbers on the wire are taken
\* to name, whatever the length of the object and the FEC parameters.
THEOREM CreatedSymbolsAreDivided ==
  \A length \in Nat : CreatedSymbols(length) = DividedSymbols(length)
<1> SUFFICES ASSUME NEW length \in Nat
             PROVE  CreatedSymbols(length) = DividedSymbols(length)
  OBVIOUS
<1> DEFINE At(i) == Reached(length)[i]
           made == {k \in 1..length : At(k).left > 0}
           n == NofSourceSymbols(length)
           Symbol(i, b, e) == [number |-> i, sbn |-> b, esi |-> e, size |-> SymbolSize(length, i)]
           Made(i) == [number |-> i, sbn |-> At(i).sbn, esi |-> At(i).esi,
                       size |-> Least(At(i).left, SymbolBytes)]
<1>1. CreatedSymbols(length) = {Made(i) : i \in made}
  BY DEF CreatedSymbols
<1>2. DividedSymbols(length) =
        UNION {{Symbol(SymbolNumber(length, b, e), b, e) : e \in 0..(BlockLength(length, b) - 1)} :
                 b \in Blocks(length)}
  BY DEF DividedSymbols
<1>3. CASE length = 0
  <2>1. NofSourceBlocks(length) = 0
    <3>1. ASSUME NEW m \in Nat \ {0}
          PROVE  CeilDiv(0, m) = 0
      <4> DEFINE q == (0 + m - 1) \div m
      <4>1. 0 + m - 1 \in Nat
        OBVIOUS
      <4>2. q \in Nat /\ m * q <= 0 + m - 1
        BY <4>1, Division
      <4> HIDE DEF q
      <4>3. q > 0 => m <= m * q
        BY <4>2
      <4>4. q = 0
        BY <4>2, <4>3
      <4> QED
        BY <4>4 DEF CeilDiv, q
    <3> QED
      BY <1>3, <3>1, PartitioningAssumption DEF NofSourceSymbols, NofSourceBlocks
  <2>2. made = {} /\ Blocks(length) = {}
    BY <1>3, <2>1 DEF Blocks
  <2> QED
    BY <1>1, <1>2, <2>2
<1>4. CASE length # 0
  <2>1. n \in 1..length /\ SymbolBytes \in Nat \ {0}
    BY <1>4, NofSymbols, PartitioningAssumption
  <2>2. ASSUME NEW i \in 1..n
        PROVE  /\ At(i).left > 0
               /\ Made(i) = Symbol(i, BlockOf(length, i), i - 1 - SymbolsBefore(length, BlockOf(length, i)))
    <3> DEFINE at == Reached(length)[i]
               b == BlockOf(length, i)
               e == i - 1 - SymbolsBefore(length, b)
               bytes == i * SymbolBytes
    <3>1. i \in 1..length /\ i <= n /\ i \in Nat /\ i - 1 \in Nat /\ i - 1 < n
      BY <2>1
    <3>2. at = [sbn |-> b, esi |-> e, left |-> length - (i - 1) * SymbolBytes]
      BY <1>4, <3>1, AtEverySymbol DEF AtSymbol
    <3>3. /\ (i - 1) * SymbolBytes < length
          /\ (i < n => bytes < length) /\ (i >= n => length <= bytes)
      BY <1>4, <3>1, NofSymbols
    <3>4. bytes \in Nat /\ (i - 1) * SymbolBytes = bytes - SymbolBytes
      BY <2>1, <3>1
    <3>5. SymbolSize(length, i) = IF i < n THEN SymbolBytes ELSE length - (i - 1) * SymbolBytes
      BY DEF SymbolSize
    <3> HIDE DEF at, b, e, bytes
    <3>6. at.left > 0 /\ Least(at.left, SymbolBytes) = SymbolSize(length, i)
      <4> HIDE DEF n
      <4>1. at.left = length - (i - 1) * SymbolBytes
        BY <3>2
      <4> QED
        BY <2>1, <3>1, <3>3, <3>4, <3>5, <4>1 DEF Least
    <3> QED
      BY <3>2, <3>6 DEF at, b, e
  <2>3. made = 1..n
    <3>1. ASSUME NEW i \in 1..length, i > n
          PROVE  ~(At(i).left > 0)
      <4>1. AtSymbol(length, i) /\ ~(i <= n)
        BY <1>4, <2>1, <3>1, AtEverySymbol
      <4>2. Reached(length)[i].left = 0
        BY <4>1 DEF AtSymbol
      <4> QED
        BY <4>2
    <3>2. ASSUME NEW i \in 1..n
          PROVE  i \in made
      <4>1. i \in 1..length
        <5> HIDE DEF n
        <5> QED
          BY <2>1
      <4> QED
        BY <2>2, <4>1
    <3>3. \A i \in made : i \in 1..n
      <4> HIDE DEF n
      <4> QED
        BY <2>1, <3>1
    <3> HIDE DEF made
    <3> QED
      BY <3>2, <3>3
  <2>4. ASSUME NEW i \in 1..n
        PROVE  Made(i) \in DividedSymbols(length)
    <3> DEFINE b == BlockOf(length, i)
               e == i - 1 - SymbolsBefore(length, b)
    <3>1. b \in Blocks(length) /\ e \in 0..(BlockLength(length, b) - 1)
      BY <1>4, BlockOfIs
    <3>2. SymbolNumber(length, b, e) = i
      <4>1. SymbolsBefore(length, b) \in Nat /\ i \in Nat
        BY <1>4, <3>1, BlocksFollow, BlockLengths
      <4> HIDE DEF b
      <4> QED
        BY <4>1 DEF SymbolNumber
    <3>3. Made(i) = Symbol(i, b, e)
      BY <2>2
    <3> HIDE DEF b, e, Symbol, Made
    <3> QED
      BY <1>2, <3>1, <3>2, <3>3
  <2>5. ASSUME NEW b \in Blocks(length), NEW e \in 0..(BlockLength(length, b) - 1)
        PROVE  Symbol(SymbolNumber(length, b, e), b, e) \in CreatedSymbols(length)
    <3> DEFINE i == SymbolNumber(length, b, e)
    <3>1. i \in 1..n
      BY <1>4, BlocksDivideSymbols
    <3>2. BlockOf(length, i) = b /\ i - 1 - SymbolsBefore(length, BlockOf(length, i)) = e
      BY <1>4, Numbered
    <3> HIDE DEF i, Symbol, Made
    <3>3. Made(i) = Symbol(i, b, e)
      BY <2>2, <3>1, <3>2
    <3>4. Made(i) \in CreatedSymbols(length)
      <4> HIDE DEF made, n
      <4> QED
        BY <1>1, <2>3, <3>1
    <3> QED
      BY <3>3, <3>4 DEF i
  <2> HIDE DEF Symbol, Made, made, n
  <2> QED
    BY <1>1, <1>2, <2>3, <2>4, <2>5
<1> HIDE DEF Symbol, Made, made
<1> QED
  BY <1>3, <1>4
================================================================================
