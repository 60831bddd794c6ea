------------------------------ MODULE SessionProofs ----------------------------
(***************************************************************************)
(* What a session promises, for any files, packets, losses, repetitions    *)
(* and restarts.                                                           *)
(***************************************************************************)
EXTENDS MCSession, PartitioningProofs, FiniteSetTheorems

-----------------------------------------------------------------------------
(* Maxima, sequences, sizes *)

LEMMA MaxOfTwo ==
  ASSUME NEW a \in Nat, NEW b \in Nat
  PROVE  Max({a, b}) \in {a, b} /\ a <= Max({a, b}) /\ b <= Max({a, b})
<1>1. \E x \in {a, b} : \A y \in {a, b} : x >= y
  OBVIOUS
<1> QED
  BY <1>1 DEF Max

LEMMA MinOfTwo ==
  ASSUME NEW a \in Nat, NEW b \in Nat
  PROVE  Min({a, b}) \in {a, b} /\ Min({a, b}) <= a /\ Min({a, b}) <= b
<1>1. \E x \in {a, b} : \A y \in {a, b} : x <= y
  OBVIOUS
<1> QED
  BY <1>1 DEF Min

LEMMA SeqOfCells ==
  ASSUME NEW S, NEW n \in Nat, NEW f \in [1..n -> S]
  PROVE  f \in Seq(S) /\ Len(f) = n
  OBVIOUS

LEMMA NewBlocksType ==
  ASSUME NEW length \in Nat \ {0}
  PROVE  /\ NewBlocks(length) \in Seq(Seq(Cell))
         /\ Len(NewBlocks(length)) = NofSourceBlocks(length)
         /\ \A b \in 1..NofSourceBlocks(length) :
              Len(NewBlocks(length)[b]) = BlockLength(length, b - 1)
<1> DEFINE k == NofSourceBlocks(length)
           row(b) == [e \in 1..BlockLength(length, b - 1) |-> Open]
<1>1. k \in Nat
  BY BlockLengths
<1>2. ASSUME NEW b \in 1..k
      PROVE  row(b) \in Seq(Cell) /\ Len(row(b)) = BlockLength(length, b - 1)
  <2>1. BlockLength(length, b - 1) \in Nat
    BY <1>1, BlocksFollow DEF Blocks
  <2>2. row(b) \in [1..BlockLength(length, b - 1) -> Cell]
    BY DEF Cell
  <2> HIDE DEF row
  <2> QED
    BY <2>1, <2>2, SeqOfCells
<1>3. \A b \in 1..k : NewBlocks(length)[b] = row(b)
  BY DEF NewBlocks
<1>4. \A b \in 1..k : Len(NewBlocks(length)[b]) = BlockLength(length, b - 1)
  <2> HIDE DEF row
  <2> QED
    BY <1>2, <1>3
<1>5. NewBlocks(length) \in [1..k -> Seq(Cell)]
  <2>1. NewBlocks(length) = [b \in 1..k |-> NewBlocks(length)[b]]
    BY DEF NewBlocks
  <2> HIDE DEF row
  <2> QED
    BY <1>2, <1>3, <2>1
<1> QED
  BY <1>1, <1>4, <1>5, SeqOfCells

\* A document has a length.
LEMMA DocumentLength ==
  ASSUME NEW entries \in SUBSET Entry
  PROVE  FdtLength(entries) \in Nat \ {0}
<1> DEFINE Triples == ((1..ToiMax) \X Data) \X Meta
           f == [p \in Triples |-> [toi |-> p[1][1], data |-> p[1][2], meta |-> p[2]]]
<1>1. IsFiniteSet(Triples)
  <2>1. IsFiniteSet(1..ToiMax)
    BY FS_Interval, TableAssumption
  <2>2. IsFiniteSet((1..ToiMax) \X Data)
    BY <2>1, FS_Product, TableAssumption
  <2> QED
    BY <2>2, FS_Product, TableAssumption
<1>2. f \in Surjection(Triples, Entry)
  <2>1. f \in [Triples -> Entry]
    BY DEF Entry
  <2>2. ASSUME NEW e \in Entry PROVE \E p \in Triples : f[p] = e
    <3> DEFINE q == <<<<e.toi, e.data>>, e.meta>>
    <3>1. q \in Triples
      BY DEF Entry
    <3>2. f[q] = e
      BY <3>1 DEF Entry
    <3> QED
      BY <3>1, <3>2
  <2> QED
    BY <2>1, <2>2 DEF Surjection
<1>3. IsFiniteSet(Entry)
  <2> HIDE DEF Triples, f
  <2> QED
    BY <1>1, <1>2, FS_Surjection
<1>4. Cardinality(entries) \in Nat
  BY <1>3, FS_Subset, FS_CardinalityType
<1> QED
  BY <1>4, ReceiverAssumption DEF FdtLength

-----------------------------------------------------------------------------
(* Symbols are put in their blocks *)

\* All symbols of a file have their cells.  There may be others, made for symbols of
\* packets that go past a block.
Roomy(file) ==
  /\ NofSourceBlocks(file.length) <= Len(file.blocks)
  /\ \A b \in 1..NofSourceBlocks(file.length) :
       BlockLength(file.length, b - 1) <= Len(file.blocks[b])

\* A file after symbols were put: of the same entry, with all the cells it had.
Grown(file, put) ==
  /\ put \in RFile
  /\ put.entry = file.entry /\ put.length = file.length
  /\ Len(file.blocks) <= Len(put.blocks)
  /\ \A b \in 1..Len(file.blocks) : Len(file.blocks[b]) <= Len(put.blocks[b])

LEMMA BlocksType ==
  ASSUME NEW file \in RFile
  PROVE  /\ file.blocks \in Seq(Seq(Cell)) /\ Len(file.blocks) \in Nat
         /\ \A b \in 1..Len(file.blocks) :
              file.blocks[b] \in Seq(Cell) /\ Len(file.blocks[b]) \in Nat
<1>1. file.blocks \in Seq(Seq(Cell)) /\ Len(file.blocks) \in Nat
  BY DEF RFile
<1>2. \A b \in 1..Len(file.blocks) : file.blocks[b] \in Seq(Cell)
  BY <1>1
<1> QED
  BY <1>1, <1>2

LEMMA GrownTwice ==
  ASSUME NEW file \in RFile, NEW half, NEW put, Grown(file, half), Grown(half, put)
  PROVE  Grown(file, put)
<1>1. half \in RFile /\ put \in RFile
  BY DEF Grown
<1>2. /\ Len(file.blocks) \in Nat /\ Len(half.blocks) \in Nat /\ Len(put.blocks) \in Nat
      /\ Len(file.blocks) <= Len(half.blocks) /\ Len(half.blocks) <= Len(put.blocks)
  BY <1>1, BlocksType DEF Grown
<1>3. ASSUME NEW b \in 1..Len(file.blocks) PROVE Len(file.blocks[b]) <= Len(put.blocks[b])
  <2>1. b \in 1..Len(half.blocks) /\ b \in 1..Len(put.blocks)
    BY <1>2
  <2>2. Len(file.blocks[b]) \in Nat /\ Len(half.blocks[b]) \in Nat /\ Len(put.blocks[b]) \in Nat
    BY <1>1, <2>1, BlocksType
  <2>3. Len(file.blocks[b]) <= Len(half.blocks[b])
    BY DEF Grown
  <2>4. Len(half.blocks[b]) <= Len(put.blocks[b])
    BY <2>1 DEF Grown
  <2> QED
    BY <2>2, <2>3, <2>4
<1> QED
  BY <1>1, <1>2, <1>3 DEF Grown

LEMMA NewFiles ==
  /\ \A entry \in Entry :
       /\ FileFor(entry) \in RFile /\ Roomy(FileFor(entry))
       /\ FileFor(entry).entry = entry /\ FileFor(entry).length = Length[entry.data]
  /\ \A length \in Nat \ {0} :
       /\ FdtFileOf(length) \in RFile
       /\ FdtFileOf(length).entry = None /\ FdtFileOf(length).length = length
<1>1. ASSUME NEW entry \in Entry
      PROVE  /\ FileFor(entry) \in RFile /\ Roomy(FileFor(entry))
             /\ FileFor(entry).entry = entry /\ FileFor(entry).length = Length[entry.data]
  <2> DEFINE length == Length[entry.data]
  <2>1. length \in Nat \ {0}
    BY ReceiverAssumption DEF Entry
  <2>2. FileFor(entry) = [entry |-> entry, length |-> length, blocks |-> NewBlocks(length)]
    BY DEF FileFor
  <2> HIDE DEF length
  <2>3. /\ NewBlocks(length) \in Seq(Seq(Cell)) /\ Len(NewBlocks(length)) = NofSourceBlocks(length)
        /\ \A b \in 1..NofSourceBlocks(length) :
             Len(NewBlocks(length)[b]) = BlockLength(length, b - 1)
    BY <2>1, NewBlocksType
  <2>4. \A b \in 1..NofSourceBlocks(length) : BlockLength(length, b - 1) \in Nat
    BY <2>1, BlockLengths, BlocksFollow DEF Blocks
  <2>5. NofSourceBlocks(length) \in Nat
    BY <2>1, BlockLengths
  <2>6. FileFor(entry) \in RFile
    BY <2>1, <2>2, <2>3 DEF RFile
  <2>7. Roomy(FileFor(entry))
    BY <2>2, <2>3, <2>4, <2>5 DEF Roomy
  <2> QED
    BY <2>2, <2>6, <2>7 DEF length
<1>2. ASSUME NEW length \in Nat \ {0}
      PROVE  /\ FdtFileOf(length) \in RFile
             /\ FdtFileOf(length).entry = None /\ FdtFileOf(length).length = length
  BY NewBlocksType DEF FdtFileOf, RFile
<1> QED
  BY <1>1, <1>2

\* Cells are opened again, none is lost.
LEMMA ReopenedIs ==
  ASSUME NEW file \in RFile
  PROVE  /\ Reopened(file) \in RFile
         /\ Reopened(file).entry = file.entry /\ Reopened(file).length = file.length
         /\ Len(Reopened(file).blocks) = Len(file.blocks)
         /\ \A b \in 1..Len(file.blocks) : Len(Reopened(file).blocks[b]) = Len(file.blocks[b])
<1> DEFINE k == Len(file.blocks)
           row(b) == [e \in DOMAIN file.blocks[b] |-> Open]
           new == [b \in DOMAIN file.blocks |-> row(b)]
<1>1. file.blocks \in Seq(Seq(Cell)) /\ k \in Nat /\ DOMAIN file.blocks = 1..k
  BY DEF RFile
<1>2. ASSUME NEW b \in 1..k
      PROVE  row(b) \in Seq(Cell) /\ Len(row(b)) = Len(file.blocks[b])
  <2>1. file.blocks[b] \in Seq(Cell)
    BY <1>1
  <2>2. Len(file.blocks[b]) \in Nat /\ DOMAIN file.blocks[b] = 1..Len(file.blocks[b])
    BY <2>1
  <2>3. row(b) \in [1..Len(file.blocks[b]) -> Cell]
    BY <2>2 DEF Cell
  <2> HIDE DEF row
  <2> QED
    BY <2>2, <2>3, SeqOfCells
<1>3. new = [b \in 1..k |-> row(b)] /\ \A b \in 1..k : new[b] = row(b)
  BY <1>1
<1>4. new \in [1..k -> Seq(Cell)] /\ \A b \in 1..k : Len(new[b]) = Len(file.blocks[b])
  BY <1>2, <1>3
<1>5. new \in Seq(Seq(Cell)) /\ Len(new) = k
  <2> HIDE DEF new, k
  <2> QED
    BY <1>1, <1>4, SeqOfCells
<1>6. Reopened(file) = [file EXCEPT !.blocks = new]
  BY DEF Reopened
<1> HIDE DEF new
<1> QED
  BY <1>1, <1>4, <1>5, <1>6 DEF RFile

\* The symbols i..j of a packet are put, when those before them were.
LEMMA PlacedIs ==
  ASSUME NEW file \in RFile, NEW packet \in Packet,
         NEW i \in Nat \ {0}, NEW j \in Nat, j <= Len(packet.payload),
         packet.sbn <= Len(file.blocks),
         packet.esi + i - 1 <= Len(TargetBlock(file, packet))
  PROVE  /\ Grown(file, Placed(file, packet, i, j))
         /\ packet.sbn < Len(Placed(file, packet, i, j).blocks)
         /\ packet.esi + j <= Len(TargetBlock(Placed(file, packet, i, j), packet))
<1> DEFINE old == TargetBlock(file, packet)
           len == Max({Len(old), packet.esi + j})
           cell(k) == IF k - packet.esi \in i..j /\ (k > Len(old) \/ old[k] = Open)
                      THEN Written(file, packet.sbn, k - 1, packet.payload, k - packet.esi)
                      ELSE old[k]
           new == [k \in 1..len |-> cell(k)]
           blocks == IF packet.sbn < Len(file.blocks)
                     THEN [file.blocks EXCEPT ![packet.sbn + 1] = new]
                     ELSE Append(file.blocks, new)
           placed == Placed(file, packet, i, j)
<1>1. /\ packet.sbn \in Nat /\ packet.esi \in Nat /\ packet.payload \in Seq(Piece)
      /\ file.blocks \in Seq(Seq(Cell)) /\ Len(file.blocks) \in Nat
  BY DEF Packet, RFile
<1>2. old \in Seq(Cell) /\ Len(old) \in Nat
  <2>1. CASE packet.sbn < Len(file.blocks)
    <3>1. packet.sbn + 1 \in 1..Len(file.blocks)
      BY <1>1, <2>1
    <3>2. file.blocks[packet.sbn + 1] \in Seq(Cell)
      BY <1>1, <3>1
    <3> QED
      BY <2>1, <3>2 DEF TargetBlock
  <2>2. CASE ~(packet.sbn < Len(file.blocks))
    <3>1. old = <<>>
      BY <2>2 DEF TargetBlock
    <3> QED
      BY <3>1
  <2> QED
    BY <2>1, <2>2
<1>3. placed = [file EXCEPT !.blocks = blocks]
  BY DEF Placed
<1> HIDE DEF old
<1>4. len \in Nat /\ Len(old) <= len /\ packet.esi + j <= len /\ len \in {Len(old), packet.esi + j}
  <2>1. packet.esi + j \in Nat
    BY <1>1
  <2> QED
    BY <1>2, <2>1, MaxOfTwo
<1> HIDE DEF len
<1>5. ASSUME NEW k \in 1..len PROVE cell(k) \in Cell
  <2>1. CASE k - packet.esi \in i..j
    <3>1. k - packet.esi \in 1..Len(packet.payload)
      BY <1>1, <2>1
    <3>2. packet.payload[k - packet.esi] \in Cell
      BY <1>1, <3>1 DEF Cell
    <3>3. Written(file, packet.sbn, k - 1, packet.payload, k - packet.esi) \in Cell
      BY <3>2 DEF Written, Cell
    <3>4. CASE k > Len(old) \/ old[k] = Open
      BY <2>1, <3>3, <3>4
    <3>5. CASE ~(k > Len(old) \/ old[k] = Open)
      <4>1. k \in 1..Len(old) /\ cell(k) = old[k]
        BY <1>2, <1>4, <3>5
      <4> QED
        BY <1>2, <4>1
    <3> QED
      BY <3>4, <3>5
  <2>2. CASE ~(k - packet.esi \in i..j)
    <3>1. k <= Len(old)
      <4> SUFFICES ASSUME Len(old) < k PROVE FALSE
        BY <1>2
      <4>1. k <= packet.esi + j
        BY <1>1, <1>2, <1>4
      <4>2. packet.esi + i - 1 < k
        BY <1>1, <1>2 DEF old
      <4> QED
        BY <1>1, <2>2, <4>1, <4>2
    <3> QED
      BY <1>2, <2>2, <3>1
  <2> QED
    BY <2>1, <2>2
<1>6. new \in Seq(Cell) /\ Len(new) = len
  <2>1. new \in [1..len -> Cell]
    <3> HIDE DEF cell
    <3> QED
      BY <1>5
  <2> HIDE DEF new
  <2> QED
    BY <1>4, <2>1, SeqOfCells
<1> HIDE DEF new
<1>7. /\ blocks \in Seq(Seq(Cell)) /\ packet.sbn < Len(blocks)
      /\ Len(file.blocks) <= Len(blocks)
      /\ \A b \in 1..Len(file.blocks) : Len(file.blocks[b]) <= Len(blocks[b])
      /\ blocks[packet.sbn + 1] = new
  <2>1. CASE packet.sbn < Len(file.blocks)
    <3>1. packet.sbn + 1 \in 1..Len(file.blocks)
      BY <1>1, <2>1
    <3>2. old = file.blocks[packet.sbn + 1]
      BY <2>1 DEF old, TargetBlock
    <3>3. blocks = [file.blocks EXCEPT ![packet.sbn + 1] = new]
      BY <2>1
    <3> HIDE DEF blocks
    <3>4. /\ blocks \in Seq(Seq(Cell)) /\ Len(blocks) = Len(file.blocks)
          /\ blocks[packet.sbn + 1] = new
          /\ \A b \in 1..Len(file.blocks) : b # packet.sbn + 1 => blocks[b] = file.blocks[b]
      BY <1>1, <1>6, <3>1, <3>3
    <3>5. \A b \in 1..Len(file.blocks) : Len(file.blocks[b]) <= Len(blocks[b])
      <4> SUFFICES ASSUME NEW b \in 1..Len(file.blocks)
                   PROVE  Len(file.blocks[b]) <= Len(blocks[b])
        OBVIOUS
      <4>1. Len(file.blocks[b]) \in Nat
        <5>1. file.blocks[b] \in Seq(Cell)
          BY <1>1
        <5> QED
          BY <5>1
      <4>2. CASE b = packet.sbn + 1
        BY <1>4, <1>6, <3>2, <3>4, <4>2
      <4>3. CASE b # packet.sbn + 1
        BY <3>4, <4>1, <4>3
      <4> QED
        BY <4>2, <4>3
    <3> QED
      BY <1>1, <2>1, <3>4, <3>5
  <2>2. CASE ~(packet.sbn < Len(file.blocks))
    <3>1. packet.sbn = Len(file.blocks)
      BY <1>1, <2>2
    <3>2. blocks = Append(file.blocks, new)
      BY <2>2
    <3> HIDE DEF blocks
    <3>3. /\ blocks \in Seq(Seq(Cell)) /\ Len(blocks) = Len(file.blocks) + 1
          /\ blocks[packet.sbn + 1] = new
          /\ \A b \in 1..Len(file.blocks) : blocks[b] = file.blocks[b]
      BY <1>1, <1>6, <3>1, <3>2
    <3>4. \A b \in 1..Len(file.blocks) : Len(file.blocks[b]) <= Len(blocks[b])
      <4> SUFFICES ASSUME NEW b \in 1..Len(file.blocks)
                   PROVE  Len(file.blocks[b]) <= Len(blocks[b])
        OBVIOUS
      <4>1. Len(file.blocks[b]) \in Nat
        BY BlocksType
      <4>2. blocks[b] = file.blocks[b]
        BY <3>3
      <4> QED
        BY <4>1, <4>2
    <3> QED
      BY <1>1, <3>1, <3>3, <3>4
  <2> QED
    BY <2>1, <2>2
<1> HIDE DEF blocks
<1>8. placed.blocks = blocks /\ placed.entry = file.entry /\ placed.length = file.length
      /\ placed \in RFile
  BY <1>3, <1>7 DEF RFile
<1>9. TargetBlock(placed, packet) = new
  BY <1>7, <1>8 DEF TargetBlock
<1> HIDE DEF placed
<1>10. Grown(file, placed)
  BY <1>7, <1>8 DEF Grown
<1> QED
  BY <1>4, <1>6, <1>7, <1>8, <1>9, <1>10 DEF placed

\* A packet that is not refused leaves a file of the same entry, with all its cells.
LEMMA PutSymbolsIs ==
  ASSUME NEW file \in RFile, NEW packet \in Packet, ~OutOfRange(file, packet)
  PROVE  Grown(file, PutSymbols(file, packet))
<1> DEFINE n == Len(packet.payload)
           after(j) == Placed(file, packet, 1, j)
           filling == {j \in 1..n : AllIn(after(j)) /\ ~AllIn(after(j - 1))}
           m == CHOOSE j \in filling : TRUE
           half == after(m)
           open == Reopened(half)
           all == Placed(open, packet, m + 1, n)
<1>1. /\ packet.sbn \in Nat /\ packet.esi \in Nat /\ n \in Nat
      /\ Len(file.blocks) \in Nat /\ Len(TargetBlock(file, packet)) \in Nat
  <2>1. packet.sbn \in Nat /\ packet.esi \in Nat /\ n \in Nat
    BY DEF Packet
  <2>2. Len(TargetBlock(file, packet)) \in Nat
    <3>1. CASE packet.sbn < Len(file.blocks)
      <4>1. packet.sbn + 1 \in 1..Len(file.blocks)
        BY <2>1, <3>1, BlocksType
      <4> QED
        BY <3>1, <4>1, BlocksType DEF TargetBlock
    <3>2. CASE ~(packet.sbn < Len(file.blocks))
      <4>1. TargetBlock(file, packet) = <<>>
        BY <3>2 DEF TargetBlock
      <4> QED
        BY <4>1
    <3> QED
      BY <3>1, <3>2
  <2> QED
    BY <2>1, <2>2, BlocksType
<1>2. packet.sbn <= Len(file.blocks) /\ packet.esi <= Len(TargetBlock(file, packet))
  BY <1>1 DEF OutOfRange
<1>3. ASSUME NEW j \in Nat, j <= n
      PROVE  /\ Grown(file, after(j)) /\ packet.sbn < Len(after(j).blocks)
             /\ packet.esi + j <= Len(TargetBlock(after(j), packet))
  <2>1. packet.esi + 1 - 1 = packet.esi /\ 1 \in Nat \ {0}
    BY <1>1
  <2> QED
    BY <1>2, <1>3, <2>1, PlacedIs
<1>4. CASE \A j \in filling : Verified(after(j))
  <2>1. PutSymbols(file, packet) = after(n)
    BY <1>4 DEF PutSymbols
  <2> QED
    BY <1>1, <1>3, <2>1
<1>5. CASE ~(\A j \in filling : Verified(after(j)))
  <2>1. m \in filling /\ m \in 1..n
    BY <1>5
  <2>2. PutSymbols(file, packet) = all
    BY <1>5 DEF PutSymbols
  <2> HIDE DEF m, filling
  <2>3. /\ Grown(file, half) /\ half \in RFile /\ packet.sbn < Len(half.blocks)
        /\ packet.esi + m <= Len(TargetBlock(half, packet))
    BY <1>1, <1>3, <2>1 DEF Grown
  <2> HIDE DEF half
  <2>4. /\ open \in RFile /\ Len(open.blocks) = Len(half.blocks)
        /\ \A b \in 1..Len(half.blocks) : Len(open.blocks[b]) = Len(half.blocks[b])
        /\ Grown(half, open)
    <3>1. /\ open \in RFile /\ Len(open.blocks) = Len(half.blocks)
          /\ \A b \in 1..Len(half.blocks) : Len(open.blocks[b]) = Len(half.blocks[b])
          /\ open.entry = half.entry /\ open.length = half.length
      BY <2>3, ReopenedIs
    <3> HIDE DEF open
    <3>2. Len(half.blocks) \in Nat /\ \A b \in 1..Len(half.blocks) : Len(half.blocks[b]) \in Nat
      BY <2>3, BlocksType
    <3> QED
      BY <3>1, <3>2 DEF Grown
  <2> HIDE DEF open
  <2>5. Len(half.blocks) \in Nat /\ packet.sbn + 1 \in 1..Len(half.blocks)
    <3>1. Len(half.blocks) \in Nat
      BY <2>3, BlocksType
    <3> QED
      BY <1>1, <2>3, <3>1
  <2>6. Len(TargetBlock(open, packet)) = Len(TargetBlock(half, packet))
    BY <2>3, <2>4, <2>5 DEF TargetBlock
  <2>7. /\ m + 1 \in Nat \ {0} /\ packet.sbn <= Len(open.blocks)
        /\ packet.esi + (m + 1) - 1 <= Len(TargetBlock(open, packet))
    <3>1. packet.esi + (m + 1) - 1 = packet.esi + m
      BY <1>1, <2>1
    <3> QED
      BY <1>1, <2>1, <2>3, <2>4, <2>5, <2>6, <3>1
  <2>8. Grown(open, all)
    <3>1. n <= n
      BY <1>1
    <3> QED
      BY <1>1, <2>4, <2>7, <3>1, PlacedIs
  <2> HIDE DEF all
  <2>9. Grown(half, all)
    BY <2>3, <2>4, <2>8, GrownTwice
  <2> QED
    BY <2>2, <2>3, <2>9, GrownTwice
<1> QED
  BY <1>4, <1>5

-----------------------------------------------------------------------------
(* The sender *)

\* What is in the table, and what objects were made of, some document listed.
SenderInv == SenderTypeOK /\ table \cup objects \subseteq Offered

\* A step of the sender offers one entry more, or none.
LEMMA SenderSteps ==
  ASSUME SenderInv, SenderNext
  PROVE  /\ SenderInv' /\ docs \subseteq docs'
         /\ Offered' = Offered \/ \E entry \in Entry : Offered' = Offered \cup {entry}
<1>1. /\ table \in SUBSET Entry /\ instance \in Nat /\ docs \subseteq Document /\ objects \subseteq Entry
      /\ table \subseteq Offered /\ objects \subseteq Offered
  BY DEF SenderInv, SenderTypeOK
<1>2. ASSUME NEW entries \in SUBSET Entry, Announce(entries)
      PROVE  /\ table' = entries /\ table' \in SUBSET Entry /\ instance' \in Nat
             /\ docs' \subseteq Document /\ docs \subseteq docs'
             /\ Offered' = Offered \cup entries
  <2>1. CASE entries = {}
    <3>1. table' = entries /\ instance' = instance /\ docs' = docs
      BY <1>2, <2>1 DEF Announce
    <3>2. Offered' = Offered
      BY <3>1 DEF Offered
    <3> QED
      BY <1>1, <2>1, <3>1, <3>2
  <2>2. CASE entries # {}
    <3> DEFINE d == [instance |-> instance + 1, entries |-> entries]
    <3>1. table' = entries /\ instance' = instance + 1 /\ docs' = docs \cup {d}
      BY <1>2, <2>2 DEF Announce
    <3>2. d \in Document /\ d.entries = entries
      BY <1>1 DEF Document
    <3> HIDE DEF d
    <3>3. Offered' = Offered \cup entries
      BY <3>1, <3>2 DEF Offered
    <3> QED
      BY <1>1, <3>1, <3>2, <3>3
  <2> QED
    BY <2>1, <2>2
<1>3. ASSUME NEW entry \in Entry, Offer(entry)
      PROVE  SenderInv' /\ docs \subseteq docs' /\ Offered' = Offered \cup {entry}
  <2>1. Announce(table \cup {entry}) /\ objects' \subseteq objects \cup {entry}
    BY <1>3 DEF Offer
  <2>2. table \cup {entry} \in SUBSET Entry
    BY <1>1
  <2>3. /\ table' = table \cup {entry} /\ table' \in SUBSET Entry /\ instance' \in Nat
        /\ docs' \subseteq Document /\ docs \subseteq docs'
        /\ Offered' = Offered \cup (table \cup {entry})
    BY <1>2, <2>1, <2>2
  <2> QED
    BY <1>1, <2>1, <2>3 DEF SenderInv, SenderTypeOK
<1>4. ASSUME NEW toi \in 1..ToiMax, Withdraw(toi)
      PROVE  SenderInv' /\ docs \subseteq docs' /\ Offered' = Offered
  <2>1. Announce(table \ Listing(toi)) /\ objects' = objects
    BY <1>4 DEF Withdraw
  <2>2. table \ Listing(toi) \in SUBSET Entry
    BY <1>1
  <2>3. /\ table' = table \ Listing(toi) /\ table' \in SUBSET Entry /\ instance' \in Nat
        /\ docs' \subseteq Document /\ docs \subseteq docs'
        /\ Offered' = Offered \cup (table \ Listing(toi))
    BY <1>2, <2>1, <2>2
  <2> QED
    BY <1>1, <2>1, <2>3 DEF SenderInv, SenderTypeOK
<1> QED
  BY <1>3, <1>4 DEF SenderNext

LEMMA RestartKeeps ==
  ASSUME SenderInv, Restart
  PROVE  SenderInv' /\ docs' = docs /\ Offered' = Offered
<1>1. Offered' = Offered
  BY DEF Restart, Offered
<1> QED
  BY <1>1 DEF SenderInv, SenderTypeOK, Restart

-----------------------------------------------------------------------------
(* Packets *)

\* A packet cut from c names symbols that c has.
CutFrom(packet, c) ==
  LET length == ContentLength(c)
  IN /\ packet \in Packet
     /\ packet.sbn \in Blocks(length)
     /\ packet.esi \in 0..(BlockLength(length, packet.sbn) - 1)

LEMMA ContentLengths ==
  /\ \A c \in Data : ContentLength(c) = Length[c] /\ Length[c] \in Nat \ {0}
  /\ \A d \in Document : ContentLength(d) = FdtLength(d.entries) /\ FdtLength(d.entries) \in Nat \ {0}
<1>1. \A d \in Document : d \notin Data /\ d.entries \in SUBSET Entry
  BY ReceiverAssumption DEF Document
<1>2. \A d \in Document : ContentLength(d) = FdtLength(d.entries)
  BY <1>1 DEF ContentLength
<1>3. \A d \in Document : FdtLength(d.entries) \in Nat \ {0}
  BY <1>1, DocumentLength
<1> QED
  BY <1>2, <1>3, ReceiverAssumption DEF ContentLength

LEMMA PacketIsCut ==
  ASSUME NEW toi \in Toi, NEW id \in Nat, NEW c \in Data \cup Document,
         NEW packet \in PacketsOf(toi, id, c)
  PROVE  /\ packet.toi = toi /\ packet.instance = id
         /\ packet.length = IF toi = 0 THEN ContentLength(c) ELSE 0
         /\ CutFrom(packet, c)
<1> DEFINE length == ContentLength(c)
<1>1. length \in Nat \ {0}
  BY ContentLengths
<1>2. PICK i \in 1..NofSourceSymbols(length) : packet = PacketAt(toi, id, c, i)
  BY DEF PacketsOf
<1> DEFINE sbn == BlockOf(length, i)
           last == Min({NofSourceSymbols(length), i + PerPacket - 1})
           payload == [j \in 1..(last - i + 1) |-> [of |-> c, at |-> i + j - 1]]
           esi == i - 1 - SymbolsBefore(length, sbn)
<1> HIDE DEF length
<1>3. NofSourceSymbols(length) \in Nat \ {0} /\ i \in Nat \ {0} /\ i <= NofSourceSymbols(length)
  BY <1>1, BlockLengths
<1>4. last \in Nat /\ i <= last
  <2>1. i + PerPacket - 1 \in Nat /\ i <= i + PerPacket - 1
    BY <1>3, SessionAssumption
  <2> QED
    BY <1>3, <2>1, MinOfTwo
<1>5. payload \in Seq(Piece)
  <2> HIDE DEF last
  <2>1. last - i + 1 \in Nat
    BY <1>3, <1>4
  <2>2. payload \in [1..(last - i + 1) -> Piece]
    BY <1>3, <1>4 DEF Piece
  <2> HIDE DEF payload
  <2> QED
    BY <2>1, <2>2, SeqOfCells
<1>6. sbn \in Blocks(length) /\ esi \in 0..(BlockLength(length, sbn) - 1)
  BY <1>1, BlockOfIs
<1>7. packet = [toi |-> toi, instance |-> id, length |-> IF toi = 0 THEN length ELSE 0,
                sbn |-> sbn, esi |-> esi, payload |-> payload]
  BY <1>2 DEF PacketAt, length
<1> HIDE DEF sbn, esi, payload
<1>8. sbn \in Nat /\ esi \in Nat
  <2>1. sbn \in Nat
    BY <1>1, <1>6, BlockLengths DEF Blocks
  <2> QED
    BY <1>1, <1>6, <2>1, BlocksFollow
<1>9. packet \in Packet
  BY <1>1, <1>5, <1>7, <1>8 DEF Packet
<1> QED
  BY <1>6, <1>7, <1>9 DEF CutFrom, length

\* Of a document that was made, or of an object.
LEMMA OnAirIs ==
  ASSUME SenderInv, NEW packet \in OnAir
  PROVE  \/ \E d \in docs :
              /\ packet \in PacketsOf(0, d.instance, d)
              /\ packet.toi = 0 /\ packet.instance = d.instance
              /\ packet.length = FdtLength(d.entries)
              /\ CutFrom(packet, d)
         \/ \E e \in objects :
              packet.toi = e.toi /\ CutFrom(packet, e.data)
<1>1. docs \subseteq Document /\ objects \subseteq Entry
  BY DEF SenderInv, SenderTypeOK
<1>2. \/ \E d \in docs : packet \in PacketsOf(0, d.instance, d)
      \/ \E e \in objects : packet \in PacketsOf(e.toi, 0, e.data)
  BY DEF OnAir
<1>3. ASSUME NEW d \in docs, packet \in PacketsOf(0, d.instance, d)
      PROVE  /\ packet.toi = 0 /\ packet.instance = d.instance
             /\ packet.length = FdtLength(d.entries)
             /\ CutFrom(packet, d)
  <2>1. 0 \in Toi /\ d.instance \in Nat /\ d \in Data \cup Document
    BY <1>1, TableAssumption DEF Toi, Document
  <2>2. ContentLength(d) = FdtLength(d.entries)
    BY <1>1, ContentLengths
  <2> QED
    BY <1>3, <2>1, <2>2, PacketIsCut
<1>4. ASSUME NEW e \in objects, packet \in PacketsOf(e.toi, 0, e.data)
      PROVE  packet.toi = e.toi /\ CutFrom(packet, e.data)
  <2>1. e.toi \in Toi /\ e.data \in Data \cup Document
    BY <1>1, TableAssumption DEF Toi, Entry
  <2> QED
    BY <1>4, <2>1, PacketIsCut
<1> QED
  BY <1>2, <1>3, <1>4

-----------------------------------------------------------------------------
(* The files of the receiver *)

\* A file as one of toi's: of an entry among E, with its length and all its cells.
WellMade(file, toi, E) ==
  /\ file.entry \in E /\ file.entry.toi = toi
  /\ file.length = Length[file.entry.data]
  /\ Roomy(file)

FilesOK(fs, E) ==
  /\ fs \in [Toi -> RFile \cup {None}]
  /\ \A toi \in 1..ToiMax : fs[toi] # None => WellMade(fs[toi], toi, E)

Usable(packet) ==
  /\ packet \in Packet
  /\ packet.toi = 0 => packet.length \in Nat \ {0}

LEMMA Tois == Toi = {0} \cup 1..ToiMax /\ 0 \notin 1..ToiMax
  BY TableAssumption DEF Toi

LEMMA GrownWellMade ==
  ASSUME NEW E \in SUBSET Entry, NEW toi, NEW file \in RFile, NEW put \in RFile,
         Grown(file, put), WellMade(file, toi, E)
  PROVE  WellMade(put, toi, E)
<1> DEFINE length == file.length
<1>1. length \in Nat \ {0} /\ put.length = length
  BY ReceiverAssumption DEF WellMade, Grown, Entry
<1>2. /\ Len(file.blocks) \in Nat /\ Len(put.blocks) \in Nat
      /\ \A b \in 1..Len(file.blocks) : Len(file.blocks[b]) \in Nat
      /\ \A b \in 1..Len(put.blocks) : Len(put.blocks[b]) \in Nat
  BY BlocksType
<1>3. /\ NofSourceBlocks(length) \in Nat
      /\ \A b \in 1..NofSourceBlocks(length) : BlockLength(length, b - 1) \in Nat
  BY <1>1, BlockLengths, BlocksFollow DEF Blocks
<1> HIDE DEF length
<1>4. /\ NofSourceBlocks(length) <= Len(file.blocks) /\ Len(file.blocks) <= Len(put.blocks)
      /\ \A b \in 1..NofSourceBlocks(length) : BlockLength(length, b - 1) <= Len(file.blocks[b])
      /\ \A b \in 1..Len(file.blocks) : Len(file.blocks[b]) <= Len(put.blocks[b])
  BY DEF WellMade, Roomy, Grown, length
<1>5. ASSUME NEW b \in 1..NofSourceBlocks(length)
      PROVE  BlockLength(length, b - 1) <= Len(put.blocks[b])
  <2>1. b \in 1..Len(file.blocks) /\ b \in 1..Len(put.blocks)
    BY <1>2, <1>3, <1>4
  <2>2. Len(file.blocks[b]) \in Nat /\ Len(put.blocks[b]) \in Nat
    BY <1>2, <2>1
  <2>3. BlockLength(length, b - 1) \in Nat
    BY <1>3
  <2>4. BlockLength(length, b - 1) <= Len(file.blocks[b])
    BY <1>4
  <2>5. Len(file.blocks[b]) <= Len(put.blocks[b])
    BY <1>4, <2>1
  <2> HIDE DEF length
  <2> QED
    BY <2>2, <2>3, <2>4, <2>5
<1>6. Roomy(put)
  BY <1>1, <1>2, <1>3, <1>4, <1>5 DEF Roomy
<1> QED
  BY <1>6 DEF WellMade, Grown

LEMMA FilesForOK ==
  ASSUME NEW E \in SUBSET Entry, FilesOK(rfiles, E), NEW packet, Usable(packet)
  PROVE  /\ FilesOK(FilesFor(packet), E)
         /\ \A toi \in 1..ToiMax : FilesFor(packet)[toi] = rfiles[toi]
<1>1. rfiles \in [Toi -> RFile \cup {None}]
  BY DEF FilesOK
<1>2. packet.toi = 0 => FdtFileOf(packet.length) \in RFile
  BY NewFiles DEF Usable
<1>3. FilesFor(packet) \in [Toi -> RFile \cup {None}]
  BY <1>1, <1>2 DEF FilesFor
<1>4. \A toi \in 1..ToiMax : FilesFor(packet)[toi] = rfiles[toi]
  BY <1>1, Tois DEF FilesFor
<1> QED
  BY <1>3, <1>4 DEF FilesOK

LEMMA FilesWithOK ==
  ASSUME NEW E \in SUBSET Entry, FilesOK(rfiles, E), NEW packet, Usable(packet),
         Wanted(packet), ~OutOfRange(FilesFor(packet)[packet.toi], packet)
  PROVE  /\ FilesOK(FilesWith(packet), E)
         /\ FilesWith(packet)[packet.toi] \in RFile
         /\ \A toi \in Toi : toi # packet.toi => FilesWith(packet)[toi] = FilesFor(packet)[toi]
         /\ FilesWith(packet)[packet.toi].entry = FilesFor(packet)[packet.toi].entry
         /\ packet.toi # 0 => WellMade(FilesWith(packet)[packet.toi], packet.toi, E)
<1> DEFINE fs == FilesFor(packet)
           file == fs[packet.toi]
           put == PutSymbols(file, packet)
<1>1. FilesOK(fs, E) /\ packet.toi \in Toi /\ packet \in Packet
  BY FilesForOK DEF Usable, Packet
<1>2. file \in RFile
  BY <1>1 DEF Wanted, FilesOK
<1>3. FilesWith(packet) = [fs EXCEPT ![packet.toi] = put]
  BY DEF FilesWith
<1>4. file # None
  BY DEF Wanted
<1> HIDE DEF fs
<1>5. Grown(file, put) /\ put \in RFile
  <2>1. ~OutOfRange(file, packet)
    BY DEF fs
  <2> HIDE DEF file
  <2>2. Grown(file, put)
    BY <1>1, <1>2, <2>1, PutSymbolsIs
  <2> QED
    BY <2>2 DEF Grown
<1> HIDE DEF put
<1>6. /\ fs \in [Toi -> RFile \cup {None}]
      /\ FilesWith(packet) \in [Toi -> RFile \cup {None}]
      /\ FilesWith(packet)[packet.toi] = put
      /\ \A toi \in Toi : toi # packet.toi => FilesWith(packet)[toi] = fs[toi]
  BY <1>1, <1>3, <1>5 DEF FilesOK
<1>7. packet.toi # 0 => WellMade(put, packet.toi, E)
  <2> SUFFICES ASSUME packet.toi # 0 PROVE WellMade(put, packet.toi, E)
    OBVIOUS
  <2>1. packet.toi \in 1..ToiMax
    BY <1>1, Tois
  <2>2. WellMade(file, packet.toi, E)
    BY <1>1, <1>4, <2>1 DEF FilesOK
  <2> HIDE DEF file
  <2> QED
    BY <1>2, <1>5, <2>2, GrownWellMade
<1>8. ASSUME NEW toi \in 1..ToiMax, FilesWith(packet)[toi] # None
      PROVE  WellMade(FilesWith(packet)[toi], toi, E)
  <2>1. CASE toi = packet.toi
    BY <1>6, <1>7, <2>1, Tois
  <2>2. CASE toi # packet.toi
    <3>1. toi \in Toi /\ FilesWith(packet)[toi] = fs[toi]
      BY <1>6, <2>2, Tois
    <3> QED
      BY <1>1, <1>8, <3>1 DEF FilesOK
  <2> QED
    BY <2>1, <2>2
<1>9. put.entry = FilesFor(packet)[packet.toi].entry
  BY <1>5 DEF Grown, fs
<1> QED
  BY <1>5, <1>6, <1>7, <1>8, <1>9 DEF FilesOK, fs

\* What is left once the files that a complete one replaces are dropped.
LEMMA FilesLeftOK ==
  ASSUME NEW E \in SUBSET Entry, FilesOK(rfiles, E), NEW packet, Usable(packet), Fills(packet)
  PROVE  /\ FilesOK(FilesLeft(packet), E)
         /\ FilesLeft(packet)[packet.toi] = FilesWith(packet)[packet.toi]
         /\ FilesLeft(packet)[packet.toi] \in RFile
         /\ packet.toi # 0 => WellMade(FilesLeft(packet)[packet.toi], packet.toi, E)
         /\ packet.toi # 0 => FilesLeft(packet)[0] \in {rfiles[0], None}
<1> DEFINE fs == FilesWith(packet)
<1>1. Wanted(packet) /\ ~OutOfRange(FilesFor(packet)[packet.toi], packet)
  BY DEF Fills
<1>2. /\ FilesOK(fs, E) /\ fs[packet.toi] \in RFile
      /\ \A toi \in Toi : toi # packet.toi => fs[toi] = FilesFor(packet)[toi]
      /\ packet.toi # 0 => WellMade(fs[packet.toi], packet.toi, E)
  BY <1>1, FilesWithOK
<1>3. packet.toi \in Toi /\ fs \in [Toi -> RFile \cup {None}]
  BY <1>2 DEF Usable, Packet, FilesOK
<1>4. FilesLeft(packet) = WithoutReplaced(fs, packet.toi)
  BY DEF FilesLeft
<1> HIDE DEF fs
<1>5. /\ FilesLeft(packet) \in [Toi -> RFile \cup {None}]
      /\ \A toi \in Toi : FilesLeft(packet)[toi] \in {fs[toi], None}
      /\ FilesLeft(packet)[packet.toi] = fs[packet.toi]
  BY <1>3, <1>4 DEF WithoutReplaced
<1>6. FilesOK(FilesLeft(packet), E)
  <2> SUFFICES ASSUME NEW toi \in 1..ToiMax, FilesLeft(packet)[toi] # None
               PROVE  WellMade(FilesLeft(packet)[toi], toi, E)
    BY <1>5 DEF FilesOK
  <2>1. FilesLeft(packet)[toi] = fs[toi]
    BY <1>5, Tois
  <2> QED
    BY <1>2, <2>1 DEF FilesOK
<1>7. packet.toi # 0 => FilesFor(packet) = rfiles
  BY DEF FilesFor
<1>8. packet.toi # 0 => FilesLeft(packet)[0] \in {rfiles[0], None}
  BY <1>2, <1>5, <1>7, Tois
<1> QED
  BY <1>2, <1>5, <1>6, <1>8 DEF fs

LEMMA WithStartedOK ==
  ASSUME NEW E \in SUBSET Entry, NEW fs, FilesOK(fs, E), NEW S \in SUBSET E
  PROVE  FilesOK(WithStarted(fs, S), E) /\ WithStarted(fs, S)[0] = fs[0]
<1> DEFINE started == WithStarted(fs, S)
           first(toi) == CHOOSE e \in S : e.toi = toi
<1>1. ASSUME NEW toi \in Toi
      PROVE  \/ started[toi] = fs[toi]
             \/ /\ \E e \in S : e.toi = toi
                /\ started[toi] = FileFor(first(toi))
  BY DEF WithStarted
<1>2. \A toi \in Toi : (\E e \in S : e.toi = toi) => first(toi) \in S /\ first(toi).toi = toi
  OBVIOUS
<1> HIDE DEF first
<1>3. ASSUME NEW toi \in Toi, \E e \in S : e.toi = toi
      PROVE  /\ FileFor(first(toi)) \in RFile
             /\ WellMade(FileFor(first(toi)), toi, E)
             /\ toi \in 1..ToiMax
  <2>1. first(toi) \in S /\ first(toi) \in E /\ first(toi) \in Entry /\ first(toi).toi = toi
    BY <1>2, <1>3
  <2>2. /\ FileFor(first(toi)) \in RFile /\ Roomy(FileFor(first(toi)))
        /\ FileFor(first(toi)).entry = first(toi)
        /\ FileFor(first(toi)).length = Length[first(toi).data]
    BY <2>1, NewFiles
  <2>3. toi \in 1..ToiMax
    BY <2>1 DEF Entry
  <2> QED
    BY <2>1, <2>2, <2>3 DEF WellMade
<1>4. fs \in [Toi -> RFile \cup {None}]
  BY DEF FilesOK
<1>5. started = [toi \in Toi |-> started[toi]]
  BY DEF WithStarted
<1> HIDE DEF started
<1>6. \A toi \in Toi : started[toi] \in RFile \cup {None}
  BY <1>1, <1>3, <1>4
<1>7. started \in [Toi -> RFile \cup {None}]
  BY <1>5, <1>6
<1>8. ASSUME NEW toi \in 1..ToiMax, started[toi] # None PROVE WellMade(started[toi], toi, E)
  <2>1. toi \in Toi
    BY Tois
  <2>2. CASE started[toi] = fs[toi]
    BY <1>8, <2>2 DEF FilesOK
  <2>3. CASE started[toi] # fs[toi]
    BY <1>1, <1>3, <2>1, <2>3
  <2> QED
    BY <2>2, <2>3
<1>9. started[0] = fs[0]
  BY <1>1, <1>3, Tois
<1> QED
  BY <1>7, <1>8, <1>9 DEF FilesOK, started

-----------------------------------------------------------------------------
(* Steps of the receiver *)

LEMMA DecodedIs ==
  ASSUME NEW file \in RFile
  PROVE  Grown(file, Decoded(file))
<1> DEFINE open == Reopened(file)
<1>1. Len(file.blocks) \in Nat /\ \A b \in 1..Len(file.blocks) : Len(file.blocks[b]) \in Nat
  BY BlocksType
<1>2. Grown(file, file)
  BY <1>1 DEF Grown
<1>3. /\ open \in RFile /\ Len(open.blocks) = Len(file.blocks)
      /\ \A b \in 1..Len(file.blocks) : Len(open.blocks[b]) = Len(file.blocks[b])
      /\ open.entry = file.entry /\ open.length = file.length
  BY ReopenedIs
<1>4. Decoded(file) \in {file, open}
  BY DEF Decoded
<1> HIDE DEF open
<1>5. Grown(file, open)
  BY <1>1, <1>3 DEF Grown
<1> QED
  BY <1>2, <1>4, <1>5

\* The FDTs that a buffer parses as list entries, of documents that were made or mixed.
LEMMA TablesAre ==
  ASSUME NEW file, NEW made \in SUBSET Document, NEW entries \in Tables(file, made),
         entries # None
  PROVE  entries \in SUBSET Entry
<1> DEFINE all == UNION {d.entries : d \in PiecesOf(file, made)}
           crossed == {[x EXCEPT !.data = y.data] : x \in all, y \in all}
<1>1. \A d \in made : d.entries \in SUBSET Entry
  BY DEF Document
<1>2. all \subseteq Entry
  BY <1>1 DEF PiecesOf
<1>3. \A x, y \in all : [x EXCEPT !.data = y.data] \in Entry
  <2> HIDE DEF all
  <2> QED
    BY <1>2 DEF Entry
<1>4. crossed \subseteq Entry
  <2> HIDE DEF all
  <2> QED
    BY <1>3
<1>5. Mixtures(file, made) \subseteq SUBSET crossed
  BY DEF Mixtures
<1> HIDE DEF crossed, all
<1>6. CASE entries \in Mixtures(file, made)
  BY <1>4, <1>5, <1>6
<1>7. CASE entries \notin Mixtures(file, made)
  <2>1. \E d \in made : entries = d.entries
    BY <1>7 DEF Tables
  <2> QED
    BY <1>1, <2>1
<1> QED
  BY <1>6, <1>7

\* The entries files are started of are among those of the FDT taken.
ListsOnly(packet, E) ==
  \A entries \in Tables(FilesLeft(packet)[0], docs) : entries # None => entries \in SUBSET E

\* Whatever a packet does to the files, each stays one of its TOI's.
LEMMA ReceiveKeepsFiles ==
  ASSUME NEW E \in SUBSET Entry, FilesOK(rfiles, E), NEW packet, Usable(packet),
         Receive(packet, docs), packet.toi = 0 => ListsOnly(packet, E)
  PROVE  FilesOK(rfiles', E)
<1>1. CASE Discard(packet)
  BY <1>1 DEF Discard, receiverVars
<1>2. CASE RefuseSymbols(packet)
  BY <1>2, FilesForOK DEF RefuseSymbols
<1>3. CASE KeepSymbols(packet)
  BY <1>3, FilesWithOK DEF KeepSymbols
<1>4. CASE FailDecode(packet)
  BY <1>4, FilesLeftOK DEF FailDecode
<1>5. CASE KeepComplete(packet)
  <2> DEFINE left == FilesLeft(packet)
             file == left[packet.toi]
  <2>1. packet.toi # 0 /\ Fills(packet) /\ rfiles' = [left EXCEPT ![packet.toi] = Decoded(file)]
    BY <1>5 DEF KeepComplete
  <2>2. FilesOK(left, E) /\ file \in RFile /\ WellMade(file, packet.toi, E)
    BY <2>1, FilesLeftOK
  <2>3. packet.toi \in 1..ToiMax
    BY <2>1, Tois DEF Usable, Packet
  <2> HIDE DEF file
  <2>4. Grown(file, Decoded(file))
    BY <2>2, DecodedIs
  <2>5. Decoded(file) \in RFile
    BY <2>4 DEF Grown
  <2>6. WellMade(Decoded(file), packet.toi, E)
    BY <2>2, <2>4, <2>5, GrownWellMade
  <2> HIDE DEF left
  <2> QED
    BY <2>1, <2>2, <2>3, <2>5, <2>6, Tois DEF FilesOK
<1>6. CASE HandOver(packet)
  <2>1. Fills(packet) /\ rfiles' = [FilesLeft(packet) EXCEPT ![packet.toi] = None]
    BY <1>6 DEF HandOver
  <2>2. FilesOK(FilesLeft(packet), E)
    BY <2>1, FilesLeftOK
  <2> QED
    BY <2>1, <2>2, Tois DEF FilesOK
<1>7. CASE TakeFdt(packet, docs)
  <2>1. packet.toi = 0 /\ Fills(packet)
    BY <1>7 DEF TakeFdt
  <2>2. FilesOK(FilesLeft(packet), E)
    BY <2>1, FilesLeftOK
  <2>3. PICK entries \in Tables(FilesLeft(packet)[0], docs) :
          IF entries = None
          THEN rfiles' = FilesLeft(packet)
          ELSE \E S \in FirstEntries(entries) :
                 rfiles' = WithStarted([FilesLeft(packet) EXCEPT ![0] = None], S)
    BY <1>7 DEF TakeFdt
  <2>4. CASE entries = None
    BY <2>2, <2>3, <2>4
  <2>5. CASE entries # None
    <3>1. PICK S \in FirstEntries(entries) :
            rfiles' = WithStarted([FilesLeft(packet) EXCEPT ![0] = None], S)
      BY <2>3, <2>5
    <3>2. S \in SUBSET E
      BY <2>1, <2>5, <3>1 DEF FirstEntries, ListsOnly
    <3> DEFINE fs == [FilesLeft(packet) EXCEPT ![0] = None]
    <3>3. FilesOK(fs, E)
      BY <2>2, Tois DEF FilesOK
    <3> HIDE DEF fs
    <3>4. FilesOK(WithStarted(fs, S), E)
      BY <3>2, <3>3, WithStartedOK
    <3> QED
      BY <3>1, <3>4 DEF fs
  <2> QED
    BY <2>4, <2>5
<1> QED
  BY <1>1, <1>2, <1>3, <1>4, <1>5, <1>6, <1>7 DEF Receive

\* Calls only let go of files.
LEMMA CallsKeepFiles ==
  ASSUME NEW E \in SUBSET Entry, FilesOK(rfiles, E), ReceiverCalls
  PROVE  /\ FilesOK(rfiles', E) /\ rfiles'[0] \in {rfiles[0], None}
         /\ UNCHANGED <<rfdt, status, delivered>>
         /\ running' \in {running, FALSE} /\ callback' \in {callback, TRUE}
<1>1. ASSUME NEW tois
      PROVE  /\ FilesOK(Without(tois), E) /\ Without(tois)[0] \in {rfiles[0], None}
  <2>1. rfiles \in [Toi -> RFile \cup {None}]
    BY DEF FilesOK
  <2>2. /\ Without(tois) \in [Toi -> RFile \cup {None}]
        /\ \A toi \in Toi : Without(tois)[toi] \in {rfiles[toi], None}
    BY <2>1 DEF Without
  <2> QED
    BY <2>1, <2>2, Tois DEF FilesOK
<1>2. CASE RegisterCallback \/ Stop
  BY <1>2 DEF RegisterCallback, Stop
<1>3. CASE \E tois \in SUBSET Toi : RemoveExpired(tois)
  BY <1>1, <1>3 DEF RemoveExpired
<1>4. CASE \E meta \in Meta : RemoveLocation(Location[meta])
  BY <1>1, <1>4 DEF RemoveLocation
<1> QED
  BY <1>2, <1>3, <1>4 DEF ReceiverCalls

LEMMA OnAirUsable ==
  ASSUME SenderInv, NEW packet \in OnAir
  PROVE  Usable(packet)
<1>1. docs \subseteq Document /\ objects \subseteq Entry
  BY DEF SenderInv, SenderTypeOK
<1>2. CASE \E d \in docs : packet.length = FdtLength(d.entries) /\ CutFrom(packet, d)
  BY <1>1, <1>2, ContentLengths DEF Usable, CutFrom
<1>3. CASE \E e \in objects : packet.toi = e.toi /\ CutFrom(packet, e.data)
  <2>1. packet.toi \in 1..ToiMax /\ packet \in Packet
    BY <1>1, <1>3 DEF CutFrom, Entry
  <2> QED
    BY <2>1, Tois DEF Usable
<1> QED
  BY <1>2, <1>3, OnAirIs

-----------------------------------------------------------------------------
(* The variables keep their types *)

SessionTypeInv == SenderInv /\ ReceiverTypeOK /\ FilesOK(rfiles, Entry)

LEMMA SessionTypeInit == SessionInit => SessionTypeInv
<1> SUFFICES ASSUME SessionInit PROVE SessionTypeInv
  OBVIOUS
<1>1. SenderInv
  BY DEF SessionInit, SenderInit, SenderInv, SenderTypeOK, Offered
<1>2. rfiles \in [Toi -> RFile \cup {None}] /\ \A toi \in 1..ToiMax : rfiles[toi] = None
  BY Tois DEF SessionInit, ReceiverInit
<1>3. ReceiverTypeOK /\ FilesOK(rfiles, Entry)
  BY <1>2 DEF SessionInit, ReceiverInit, ReceiverTypeOK, FilesOK
<1> QED
  BY <1>1, <1>3 DEF SessionTypeInv

LEMMA ReceiveKeepsTypes ==
  ASSUME SessionTypeInv, NEW packet \in OnAir, Receive(packet, docs)
  PROVE  ReceiverTypeOK' /\ FilesOK(rfiles', Entry)
<1>1. docs \subseteq Document /\ SenderInv /\ FilesOK(rfiles, Entry) /\ ReceiverTypeOK
  BY DEF SessionTypeInv, SenderInv, SenderTypeOK
<1>2. Usable(packet)
  BY <1>1, OnAirUsable
<1>3. packet.instance \in Nat /\ packet.toi \in Toi
  BY <1>2 DEF Usable, Packet
<1>4. ListsOnly(packet, Entry)
  BY <1>1, TablesAre DEF ListsOnly
<1>5. FilesOK(rfiles', Entry)
  BY <1>1, <1>2, <1>4, ReceiveKeepsFiles
<1>6. rfiles' \in [Toi -> RFile \cup {None}]
  BY <1>5 DEF FilesOK
<1>7. rfdt' \in Document \cup {None}
  <2>1. CASE TakeFdt(packet, docs)
    <3>1. PICK entries \in Tables(FilesLeft(packet)[0], docs) :
            rfdt' = IF entries = None THEN rfdt
                    ELSE [instance |-> packet.instance, entries |-> entries]
      BY <2>1 DEF TakeFdt
    <3>2. entries # None => entries \in SUBSET Entry
      BY <1>4 DEF ListsOnly
    <3> QED
      BY <1>1, <1>3, <3>1, <3>2 DEF ReceiverTypeOK, Document
  <2>2. CASE ~TakeFdt(packet, docs)
    <3>1. rfdt' = rfdt
      BY <2>2 DEF Receive, Discard, RefuseSymbols, KeepSymbols, FailDecode, KeepComplete,
         HandOver, Throw, receiverVars
    <3> QED
      BY <1>1, <3>1 DEF ReceiverTypeOK
  <2> QED
    BY <2>1, <2>2
<1>8. /\ running' = running /\ callback' = callback
      /\ status' \in {status, "threw"}
  BY DEF Receive, Discard, RefuseSymbols, KeepSymbols, FailDecode, KeepComplete,
     HandOver, TakeFdt, Throw, receiverVars
<1>9. delivered' \subseteq [entry : Entry, data : Data \cup {None}]
  <2>1. CASE HandOver(packet)
    <3> DEFINE file == FilesLeft(packet)[packet.toi]
    <3>1. /\ packet.toi # 0 /\ Fills(packet)
          /\ delivered' = delivered \cup {[entry |-> file.entry, data |-> Contents(file)]}
      BY <2>1 DEF HandOver
    <3>2. WellMade(file, packet.toi, Entry)
      BY <1>1, <1>2, <3>1, FilesLeftOK
    <3> HIDE DEF file
    <3>3. file.entry \in Entry /\ Contents(file) \in Data \cup {None}
      BY <3>2 DEF WellMade, Contents, ContentsIn
    <3> QED
      BY <1>1, <3>1, <3>3 DEF ReceiverTypeOK
  <2>2. CASE ~HandOver(packet)
    <3>1. delivered' = delivered
      BY <2>2 DEF Receive, Discard, RefuseSymbols, KeepSymbols, FailDecode, KeepComplete,
         TakeFdt, Throw, receiverVars
    <3> QED
      BY <1>1, <3>1 DEF ReceiverTypeOK
  <2> QED
    BY <2>1, <2>2
<1> QED
  BY <1>1, <1>5, <1>6, <1>7, <1>8, <1>9 DEF ReceiverTypeOK

\* A step that leaves the sender alone.
LEMMA SenderAlone ==
  ASSUME SenderInv, UNCHANGED senderVars
  PROVE  SenderInv' /\ docs' = docs /\ Offered' = Offered
  BY DEF SenderInv, SenderTypeOK, Offered, senderVars

LEMMA SessionTypeNext == SessionTypeInv /\ [SessionNext]_sessionVars => SessionTypeInv'
<1> SUFFICES ASSUME SessionTypeInv, [SessionNext]_sessionVars PROVE SessionTypeInv'
  OBVIOUS
<1>1. SenderInv /\ ReceiverTypeOK /\ FilesOK(rfiles, Entry)
  BY DEF SessionTypeInv
<1>2. ASSUME UNCHANGED receiverVars PROVE ReceiverTypeOK' /\ FilesOK(rfiles', Entry)
  <2>1. rfiles' = rfiles /\ UNCHANGED <<rfdt, running, status, callback, delivered>>
    BY <1>2 DEF receiverVars
  <2> QED
    BY <1>1, <2>1 DEF ReceiverTypeOK
<1>3. CASE Sends
  BY <1>1, <1>2, <1>3, SenderSteps DEF Sends, SessionTypeInv
<1>4. CASE Restart
  <2>1. UNCHANGED receiverVars
    BY <1>4 DEF Restart
  <2> QED
    BY <1>1, <1>2, <1>4, <2>1, RestartKeeps DEF SessionTypeInv
<1>5. CASE Receives
  <2>1. SenderInv'
    BY <1>1, <1>5, SenderAlone DEF Receives
  <2>2. CASE \E packet \in OnAir : Receive(packet, docs)
    BY <2>1, <2>2, ReceiveKeepsTypes DEF SessionTypeInv
  <2>3. CASE ReceiveAfterStop \/ ReceiveFails
    <3>1. ReceiverTypeOK' /\ rfiles' = rfiles
      BY <1>1, <2>3 DEF ReceiveAfterStop, ReceiveFails, ReceiverTypeOK
    <3> QED
      BY <1>1, <2>1, <3>1 DEF SessionTypeInv
  <2> QED
    BY <1>5, <2>2, <2>3 DEF Receives
<1>6. CASE Calls
  <2>1. SenderInv'
    BY <1>1, <1>6, SenderAlone DEF Calls
  <2>2. /\ FilesOK(rfiles', Entry) /\ UNCHANGED <<rfdt, status, delivered>>
        /\ running' \in {running, FALSE} /\ callback' \in {callback, TRUE}
    BY <1>1, <1>6, CallsKeepFiles DEF Calls
  <2>3. ReceiverTypeOK'
    BY <1>1, <2>2 DEF ReceiverTypeOK, FilesOK
  <2> QED
    BY <2>1, <2>2, <2>3 DEF SessionTypeInv
<1>7. CASE UNCHANGED sessionVars
  <2>1. UNCHANGED senderVars /\ UNCHANGED receiverVars
    BY <1>7 DEF sessionVars
  <2> QED
    BY <1>1, <1>2, <2>1, SenderAlone DEF SessionTypeInv
<1> QED
  BY <1>3, <1>4, <1>5, <1>6, <1>7 DEF SessionNext

LEMMA SessionTypeInvariant == SessionSpec => []SessionTypeInv
  BY SessionTypeInit, SessionTypeNext, PTL DEF SessionSpec

\* The variables of the receiver keep their types, whatever arrives: handle_receive_from,
\* put_symbol and the calls never leave a file without its entry or its cells.
THEOREM ReceiverTypeCorrect == SessionSpec => []ReceiverTypeOK
<1>1. SessionTypeInv => ReceiverTypeOK
  BY DEF SessionTypeInv
<1> QED
  BY <1>1, SessionTypeInvariant, PTL

-----------------------------------------------------------------------------
(* FDT documents of one symbol *)

\* Every FDT document fits one encoding symbol.
OneSymbolFdts == \A entries \in SUBSET Entry : FdtLength(entries) <= SymbolBytes

LEMMA OneSymbol ==
  ASSUME NEW length \in Nat \ {0}, length <= SymbolBytes
  PROVE  /\ NofSourceSymbols(length) = 1 /\ NofSourceBlocks(length) = 1
         /\ Blocks(length) = {0} /\ BlockLength(length, 0) = 1
         /\ SymbolsBefore(length, 0) = 0 /\ SymbolNumber(length, 0, 0) = 1
         /\ SymbolSize(length, 1) = length
<1>1. SymbolBytes \in Nat \ {0} /\ MaxBlock \in Nat \ {0}
  BY PartitioningAssumption
<1>2. NofSourceSymbols(length) = 1
  <2> DEFINE n == NofSourceSymbols(length)
  <2>1. n \in Nat \ {0} /\ SymbolBytes * n < length + SymbolBytes
    BY <1>1, CeilDivision DEF NofSourceSymbols
  <2> HIDE DEF n
  <2> SUFFICES ASSUME 2 <= n PROVE FALSE
    BY <2>1 DEF n
  <2>2. SymbolBytes * 2 <= SymbolBytes * n
    BY <1>1, <2>1
  <2> QED
    BY <1>1, <2>1, <2>2
<1>3. NofSourceBlocks(length) = 1
  <2> DEFINE n == NofSourceBlocks(length)
  <2>1. n \in Nat \ {0} /\ MaxBlock * n < 1 + MaxBlock
    <3>1. CeilDiv(1, MaxBlock) \in Nat \ {0} /\ MaxBlock * CeilDiv(1, MaxBlock) < 1 + MaxBlock
      BY <1>1, CeilDivision
    <3> QED
      BY <1>2, <3>1 DEF NofSourceBlocks
  <2> HIDE DEF n
  <2> SUFFICES ASSUME 2 <= n PROVE FALSE
    BY <2>1 DEF n
  <2>2. MaxBlock * 2 <= MaxBlock * n
    BY <1>1, <2>1
  <2> QED
    BY <1>1, <2>1, <2>2
<1>4. SmallBlock(length) \in Nat \ {0} /\ NofLargeBlocks(length) = 0
      /\ 1 = SmallBlock(length) * 1 + NofLargeBlocks(length)
  BY <1>2, <1>3, BlockLengths
<1>5. BlockLength(length, 0) = 1
  BY <1>4 DEF BlockLength
<1>6. SymbolsBefore(length, 0) = 0
  BY BlocksFollow
<1>7. SymbolSize(length, 1) = length
  BY <1>1, <1>2 DEF SymbolSize
<1> QED
  BY <1>2, <1>3, <1>5, <1>6, <1>7 DEF Blocks, SymbolNumber

PieceOf(d) == [of |-> d, at |-> 1]

\* Such a document travels in packets of one symbol.
LEMMA DocumentPacket ==
  ASSUME OneSymbolFdts, NEW d \in Document, NEW packet \in PacketsOf(0, d.instance, d)
  PROVE  packet.sbn = 0 /\ packet.esi = 0 /\ packet.payload = <<PieceOf(d)>>
<1> DEFINE length == ContentLength(d)
<1>1. length \in Nat \ {0} /\ length <= SymbolBytes
  BY ContentLengths DEF Document, OneSymbolFdts
<1> HIDE DEF length
<1>2. /\ NofSourceSymbols(length) = 1
      /\ Blocks(length) = {0} /\ SymbolsBefore(length, 0) = 0
  BY <1>1, OneSymbol
<1>3. packet = PacketAt(0, d.instance, d, 1)
  BY <1>2 DEF PacketsOf, length
<1>4. BlockOf(length, 1) = 0
  BY <1>1, <1>2, BlockOfIs
<1>5. Min({1, 1 + PerPacket - 1}) = 1
  <2>1. 1 + PerPacket - 1 \in Nat /\ 1 <= 1 + PerPacket - 1
    BY SessionAssumption
  <2> QED
    BY <2>1, MinOfTwo
<1>6. packet.sbn = 0 /\ packet.esi = 1 - 1 - 0
  BY <1>2, <1>3, <1>4 DEF PacketAt, length
<1>7. packet.payload = [j \in 1..(1 - 1 + 1) |-> [of |-> d, at |-> 1 + j - 1]]
  BY <1>2, <1>3, <1>5 DEF PacketAt, length
<1> QED
  BY <1>6, <1>7 DEF PieceOf

\* One of them fills the file made for it, whose buffer parses as that document.
LEMMA DocumentCompletes ==
  ASSUME OneSymbolFdts, NEW d \in Document, NEW packet \in Packet,
         packet.sbn = 0, packet.esi = 0, packet.payload = <<PieceOf(d)>>,
         NEW file, file = FdtFileOf(FdtLength(d.entries))
  PROVE  /\ ~Complete(file) /\ ~OutOfRange(file, packet)
         /\ Complete(PutSymbols(file, packet))
         /\ \A made \in SUBSET Document :
              d \in made => Tables(PutSymbols(file, packet), made) = {d.entries}
<1> DEFINE length == FdtLength(d.entries)
           piece == PieceOf(d)
           put == Placed(file, packet, 1, 1)
<1>1. length \in Nat \ {0} /\ length <= SymbolBytes /\ ContentLength(d) = length
  BY ContentLengths DEF Document, OneSymbolFdts
<1>2. /\ NofSourceBlocks(length) = 1 /\ Blocks(length) = {0} /\ BlockLength(length, 0) = 1
      /\ SymbolNumber(length, 0, 0) = 1 /\ SymbolSize(length, 1) = length
  BY <1>1, OneSymbol
<1>3. /\ file \in RFile /\ file.entry = None /\ file.length = length
      /\ file.blocks = <<<<Open>>>>
  <2>1. FdtFileOf(length) \in RFile
    BY <1>1, NewFiles
  <2>2. NewBlocks(length) = [b \in 1..1 |-> [e \in 1..BlockLength(length, b - 1) |-> Open]]
    BY <1>2 DEF NewBlocks
  <2>3. NewBlocks(length) = [b \in 1..1 |-> [e \in 1..1 |-> Open]]
    BY <1>2, <2>2
  <2>4. NewBlocks(length) = <<<<Open>>>>
    BY <2>3
  <2> QED
    BY <2>1, <2>4 DEF FdtFileOf
<1> HIDE DEF length
<1>4. Len(file.blocks) = 1 /\ TargetBlock(file, packet) = <<Open>>
  BY <1>3 DEF TargetBlock
<1>5. ~AllIn(file) /\ ~OutOfRange(file, packet)
  BY <1>3, <1>4 DEF AllIn, OutOfRange
<1>6. put = [file EXCEPT !.blocks = <<<<piece>>>>]
  <2>1. Max({1, 0 + 1}) = 1
    BY MaxOfTwo
  <2>2. Written(file, 0, 0, packet.payload, 1) = piece
    <3>1. ReceivedSize(packet.payload) = length
      BY <1>1, <1>2 DEF ReceivedSize, PieceOf
    <3>2. Room(file, 0, 0) = length
      BY <1>2, <1>3 DEF Room, IsCell
    <3> QED
      BY <1>1, <3>1, <3>2 DEF Written
  <2> DEFINE new == [k \in 1..1 |-> IF k - 0 \in 1..1 /\ (k > 1 \/ <<Open>>[k] = Open)
                                    THEN Written(file, 0, k - 1, packet.payload, k - 0)
                                    ELSE <<Open>>[k]]
  <2>3. put = [file EXCEPT !.blocks = [@ EXCEPT ![1] = new]]
    BY <1>3, <1>4, <2>1 DEF Placed
  <2>4. new = <<piece>>
    <3>1. new[1] = Written(file, 0, 0, packet.payload, 1)
      OBVIOUS
    <3>2. new = [k \in 1..1 |-> new[k]]
      OBVIOUS
    <3> HIDE DEF new, piece
    <3>3. new = [k \in 1..1 |-> piece]
      BY <2>2, <3>1, <3>2
    <3> QED
      BY <3>3
  <2> HIDE DEF new
  <2> QED
    BY <1>3, <2>3, <2>4
<1>7. /\ put.entry = None /\ put.length = length /\ put.blocks = <<<<piece>>>>
  BY <1>3, <1>6 DEF RFile
<1>8. piece # Open
  BY <1>1, CellAssumption DEF PieceOf, Piece
<1> HIDE DEF put, piece
<1>9. AllIn(put) /\ Verified(put) /\ Complete(put)
  BY <1>7, <1>8 DEF AllIn, Verified, Complete
<1>10. PutSymbols(file, packet) = put
  <2>1. Len(packet.payload) = 1
    OBVIOUS
  <2>2. \A j \in 1..1 : Placed(file, packet, 1, j) = put
    BY DEF put
  <2> QED
    BY <1>9, <2>1, <2>2 DEF PutSymbols
<1>11. ASSUME NEW made \in SUBSET Document, d \in made
       PROVE  Tables(put, made) = {d.entries}
  <2>1. put.blocks[1][1] = PieceOf(d)
    BY <1>7 DEF piece
  <2>2. ASSUME NEW c \in made PROVE Holds(put, c) <=> c = d
    <3>1. 0..(BlockLength(length, 0) - 1) = {0} /\ 0 + 1 = 1
      BY <1>2
    <3> DEFINE in(b, e) == put.blocks[b + 1][e + 1] = [of |-> c, at |-> SymbolNumber(length, b, e)]
    <3>3. Holds(put, c) <=> \A b \in Blocks(length) : \A e \in 0..(BlockLength(length, b) - 1) : in(b, e)
      BY <1>7 DEF Holds
    <3>4. in(0, 0) <=> put.blocks[1][1] = [of |-> c, at |-> SymbolNumber(length, 0, 0)]
      BY <3>1
    <3> HIDE DEF in
    <3>2. Holds(put, c) <=> put.blocks[1][1] = [of |-> c, at |-> SymbolNumber(length, 0, 0)]
      BY <1>2, <3>1, <3>3, <3>4
    <3> QED
      BY <1>2, <2>1, <3>2 DEF PieceOf
  <2>3. {c \in made : Holds(put, c) /\ FdtLength(c.entries) = put.length} = {d}
    BY <1>7, <1>11, <2>2 DEF length
  <2> QED
    BY <2>3 DEF Tables
<1> QED
  BY <1>5, <1>9, <1>10, <1>11 DEF Complete

-----------------------------------------------------------------------------
(* What holds of every session whose documents have one symbol *)

\* No document is ever half received, so the FDTs taken are ones that were made, and the
\* files are started of what those list.
FdtInv ==
  /\ SessionTypeInv
  /\ FilesOK(rfiles, Offered)
  /\ rfiles[0] = None
  /\ FdtInUseWasSent

LEMMA FdtInvInit == SessionInit => FdtInv
<1> SUFFICES ASSUME SessionInit PROVE FdtInv
  OBVIOUS
<1>1. rfiles \in [Toi -> RFile \cup {None}] /\ \A toi \in Toi : rfiles[toi] = None
  BY DEF SessionInit, ReceiverInit
<1>2. rfdt = None
  BY DEF SessionInit, ReceiverInit
<1> QED
  BY <1>1, <1>2, Tois, SessionTypeInit DEF FdtInv, FilesOK, FdtInUseWasSent

\* What files and FDTs were of, they are of when more is offered.
LEMMA MoreOffered ==
  ASSUME FdtInv, docs \subseteq docs', Offered \subseteq Offered'
  PROVE  /\ FilesOK(rfiles, Offered')
         /\ rfdt # None => rfdt \in docs'
         /\ TwoFilesOneToi => TwoFilesOneToi'
<1>1. TwoFilesOneToi => TwoFilesOneToi'
  BY DEF TwoFilesOneToi
<1>2. FilesOK(rfiles, Offered) => FilesOK(rfiles, Offered')
  BY DEF FilesOK, WellMade
<1> QED
  BY <1>1, <1>2 DEF FdtInv, FdtInUseWasSent

\* Only one contents fits a buffer.
LEMMA OneContents ==
  ASSUME NEW file, file.length \in Nat \ {0}, NEW c \in Data, Holds(file, c)
  PROVE  Contents(file) = c
<1> DEFINE length == file.length
           cell(b, e) == file.blocks[b + 1][e + 1]
           own(x, b, e) == [of |-> x, at |-> SymbolNumber(length, b, e)]
<1>1. 0 \in Blocks(length)
  BY BlockLengths DEF Blocks
<1>2. 0 \in 0..(BlockLength(length, 0) - 1)
  BY <1>1, BlocksFollow
<1>3. ASSUME NEW x, Holds(file, x) PROVE cell(0, 0) = own(x, 0, 0)
  <2>1. \A b \in Blocks(length) : \A e \in 0..(BlockLength(length, b) - 1) : cell(b, e) = own(x, b, e)
    BY <1>3 DEF Holds
  <2> HIDE DEF cell, own
  <2> QED
    BY <1>1, <1>2, <2>1
<1>4. ASSUME NEW x \in Data, Holds(file, x) PROVE x = c
  <2>1. own(x, 0, 0) = own(c, 0, 0)
    BY <1>3, <1>4
  <2>2. own(x, 0, 0).of = x /\ own(c, 0, 0).of = c
    OBVIOUS
  <2> QED
    BY <2>1, <2>2
<1>5. ContentsIn(file) = {c}
  BY <1>4 DEF ContentsIn
<1> QED
  BY <1>5 DEF Contents

\* The document d becomes the FDT in use, which was of another instance.
TakesDocument(packet, d) ==
  /\ Fills(packet)
  /\ Tables(FilesLeft(packet)[0], docs) = {d.entries}
  /\ rfdt = None \/ rfdt.instance # d.instance
  /\ rfdt' = d
  /\ \E S \in FirstEntries(d.entries) :
       rfiles' = WithStarted([FilesLeft(packet) EXCEPT ![0] = None], S)
  /\ UNCHANGED <<running, status, callback, delivered>>

\* A packet of the FDT is passed over, or is a document that becomes the FDT in use.
LEMMA FdtPacket ==
  ASSUME OneSymbolFdts, FdtInv, NEW d \in docs, NEW packet \in PacketsOf(0, d.instance, d),
         Usable(packet), packet.toi = 0, packet.instance = d.instance,
         packet.length = FdtLength(d.entries), Receive(packet, docs)
  PROVE  UNCHANGED receiverVars \/ TakesDocument(packet, d)
<1> DEFINE file == FdtFileOf(FdtLength(d.entries))
<1>1. docs \subseteq Document /\ FilesOK(rfiles, Entry) /\ rfiles[0] = None
  BY DEF FdtInv, SessionTypeInv, SenderInv, SenderTypeOK
<1>2. rfiles \in [Toi -> RFile \cup {None}] /\ 0 \in Toi /\ packet \in Packet
  BY <1>1, Tois DEF FilesOK, Usable
<1>3. CASE rfdt # None /\ rfdt.instance = packet.instance
  <2>1. FilesFor(packet) = rfiles
    BY <1>3 DEF FilesFor
  <2>2. ~Wanted(packet)
    BY <1>1, <2>1 DEF Wanted
  <2>3. Discard(packet)
    BY <2>2 DEF Receive, RefuseSymbols, KeepSymbols, FailDecode, KeepComplete, HandOver, TakeFdt, Fills
  <2> QED
    BY <2>3 DEF Discard
<1>4. CASE ~(rfdt # None /\ rfdt.instance = packet.instance)
  <2>1. FilesFor(packet) = [rfiles EXCEPT ![0] = file]
    BY <1>1, <1>4 DEF FilesFor
  <2>2. FilesFor(packet)[packet.toi] = file
    BY <1>2, <2>1
  <2> HIDE DEF file
  <2>3. packet.sbn = 0 /\ packet.esi = 0 /\ packet.payload = <<PieceOf(d)>>
    BY <1>1, DocumentPacket
  <2>4. /\ ~Complete(file) /\ ~OutOfRange(file, packet)
        /\ Complete(PutSymbols(file, packet))
        /\ Tables(PutSymbols(file, packet), docs) = {d.entries}
    <3>1. d \in Document /\ docs \in SUBSET Document
      BY <1>1
    <3>2. file = FdtFileOf(FdtLength(d.entries))
      BY DEF file
    <3>3. /\ ~Complete(file) /\ ~OutOfRange(file, packet)
          /\ Complete(PutSymbols(file, packet))
          /\ \A made \in SUBSET Document :
               d \in made => Tables(PutSymbols(file, packet), made) = {d.entries}
      BY <1>2, <2>3, <3>1, <3>2, DocumentCompletes
    <3> QED
      BY <3>1, <3>3
  <2>5. CASE file = None
    <3>1. ~Wanted(packet)
      BY <2>2, <2>5 DEF Wanted
    <3>2. Discard(packet)
      BY <3>1 DEF Receive, RefuseSymbols, KeepSymbols, FailDecode, KeepComplete, HandOver,
         TakeFdt, Fills
    <3> QED
      BY <3>2 DEF Discard
  <2>6. CASE file # None
    <3>1. FilesWith(packet)[0] = PutSymbols(file, packet)
      <4>1. FilesWith(packet) =
              [FilesFor(packet) EXCEPT ![0] = PutSymbols(FilesFor(packet)[0], packet)]
        BY DEF FilesWith
      <4>2. FilesFor(packet) = [toi \in Toi |-> FilesFor(packet)[toi]]
        BY <1>2, <2>1
      <4> QED
        BY <1>2, <2>2, <4>1, <4>2
    <3>2. /\ Wanted(packet) /\ ~OutOfRange(FilesFor(packet)[packet.toi], packet)
          /\ Completes(packet)
      BY <2>2, <2>4, <2>6, <3>1 DEF Wanted, Completes
    <3>3. TakeFdt(packet, docs) /\ Fills(packet)
      BY <3>2 DEF Receive, Discard, RefuseSymbols, KeepSymbols, FailDecode, KeepComplete,
         HandOver, TakeFdt
    <3>4. FilesLeft(packet)[0] = PutSymbols(file, packet)
      BY <1>1, <3>1, <3>3, FilesLeftOK
    <3>5. Tables(FilesLeft(packet)[0], docs) = {d.entries} /\ d.entries # None
      BY <1>1, <2>4, <3>4, ReceiverAssumption DEF Document
    <3>6. /\ rfdt' = [instance |-> packet.instance, entries |-> d.entries]
          /\ \E S \in FirstEntries(d.entries) :
               rfiles' = WithStarted([FilesLeft(packet) EXCEPT ![0] = None], S)
          /\ UNCHANGED <<running, status, callback, delivered>>
      BY <3>3, <3>5 DEF TakeFdt
    <3>7. rfdt' = d
      BY <1>1, <3>6 DEF Document
    <3> QED
      BY <1>4, <3>3, <3>5, <3>6, <3>7 DEF TakesDocument
  <2> QED
    BY <2>5, <2>6
<1> QED
  BY <1>3, <1>4

LEMMA FilePacketKeeps ==
  ASSUME FdtInv, NEW packet, Usable(packet), packet.toi # 0, Receive(packet, docs)
  PROVE  FilesOK(rfiles', Offered) /\ rfiles'[0] = None /\ rfdt' = rfdt
<1>1. /\ FilesOK(rfiles, Offered) /\ rfiles[0] = None /\ Offered \in SUBSET Entry
      /\ packet.toi \in Toi /\ packet.toi \in 1..ToiMax /\ 0 \in Toi
  <2>1. SenderInv /\ FilesOK(rfiles, Offered) /\ rfiles[0] = None
    BY DEF FdtInv, SessionTypeInv
  <2>2. Offered \in SUBSET Entry
    BY <2>1 DEF SenderInv, SenderTypeOK, Offered, Document
  <2> QED
    BY <2>1, <2>2, Tois DEF Usable, Packet
<1>2. FilesOK(rfiles', Offered)
  BY <1>1, ReceiveKeepsFiles
<1>3. FilesFor(packet) = rfiles
  BY DEF FilesFor
<1>4. CASE Discard(packet) \/ RefuseSymbols(packet)
  BY <1>1, <1>2, <1>3, <1>4 DEF Discard, RefuseSymbols, Throw, receiverVars
<1>5. CASE KeepSymbols(packet)
  <2>1. rfiles' = FilesWith(packet) /\ rfdt' = rfdt
    BY <1>5 DEF KeepSymbols
  <2>2. FilesWith(packet)[0] = FilesFor(packet)[0]
    BY <1>1, <1>5, FilesWithOK DEF KeepSymbols
  <2> QED
    BY <1>1, <1>2, <1>3, <2>1, <2>2
<1>6. CASE FailDecode(packet) \/ KeepComplete(packet) \/ HandOver(packet)
  <2>1. Fills(packet) /\ rfdt' = rfdt
    BY <1>6 DEF FailDecode, KeepComplete, HandOver, Throw
  <2>2. FilesLeft(packet)[0] = None /\ FilesLeft(packet) \in [Toi -> RFile \cup {None}]
    BY <1>1, <2>1, FilesLeftOK DEF FilesOK
  <2>3. \E new : rfiles' = FilesLeft(packet) \/ rfiles' = [FilesLeft(packet) EXCEPT ![packet.toi] = new]
    BY <1>6 DEF FailDecode, KeepComplete, HandOver
  <2> QED
    BY <1>1, <1>2, <2>1, <2>2, <2>3
<1> QED
  BY <1>4, <1>5, <1>6 DEF Receive, TakeFdt

LEMMA ReceiveKeepsFdt ==
  ASSUME OneSymbolFdts, FdtInv, NEW packet \in OnAir, Receive(packet, docs)
  PROVE  /\ FilesOK(rfiles', Offered) /\ rfiles'[0] = None
         /\ rfdt' # None => rfdt' \in docs
         /\ packet.toi = 0 => UNCHANGED <<status, delivered>>
<1>1. SenderInv /\ FilesOK(rfiles, Offered) /\ rfiles[0] = None /\ FdtInUseWasSent
  BY DEF FdtInv, SessionTypeInv
<1>2. Usable(packet) /\ docs \subseteq Document /\ Offered \in SUBSET Entry
  BY <1>1, OnAirUsable DEF SenderInv, SenderTypeOK, Offered, Document
<1>3. CASE \E d \in docs :
             /\ packet \in PacketsOf(0, d.instance, d)
             /\ packet.toi = 0 /\ packet.instance = d.instance
             /\ packet.length = FdtLength(d.entries)
  <2>1. PICK d \in docs :
          /\ packet \in PacketsOf(0, d.instance, d)
          /\ packet.toi = 0 /\ packet.instance = d.instance
          /\ packet.length = FdtLength(d.entries)
    BY <1>3
  <2>2. CASE UNCHANGED receiverVars
    BY <1>1, <2>2 DEF receiverVars, FdtInUseWasSent
  <2>3. CASE TakesDocument(packet, d)
    <3>1. d.entries \in SUBSET Offered
      BY DEF Offered
    <3>2. ListsOnly(packet, Offered)
      BY <2>3, <3>1 DEF ListsOnly, TakesDocument
    <3>3. FilesOK(rfiles', Offered)
      BY <1>1, <1>2, <3>2, ReceiveKeepsFiles
    <3>4. PICK S \in SUBSET d.entries :
            rfiles' = WithStarted([FilesLeft(packet) EXCEPT ![0] = None], S)
      BY <2>3 DEF TakesDocument, FirstEntries
    <3> DEFINE fs == [FilesLeft(packet) EXCEPT ![0] = None]
    <3>5. FilesOK(FilesLeft(packet), Offered)
      BY <1>1, <1>2, <2>3, FilesLeftOK DEF TakesDocument
    <3>6. FilesOK(fs, Offered) /\ fs[0] = None
      BY <3>5, Tois DEF FilesOK
    <3> HIDE DEF fs
    <3>7. WithStarted(fs, S)[0] = None
      BY <1>2, <3>1, <3>6, WithStartedOK
    <3>8. rfiles'[0] = None
      BY <3>4, <3>7 DEF fs
    <3> QED
      BY <1>1, <2>3, <3>3, <3>8 DEF TakesDocument
  <2> QED
    BY <1>2, <2>1, <2>2, <2>3, FdtPacket
<1>4. CASE \E e \in objects : packet.toi = e.toi /\ CutFrom(packet, e.data)
  <2>1. packet.toi # 0
    BY <1>1, <1>4, Tois DEF SenderInv, SenderTypeOK, Entry
  <2>2. FilesOK(rfiles', Offered) /\ rfiles'[0] = None /\ rfdt' = rfdt
    BY <1>2, <2>1, FilePacketKeeps
  <2> QED
    BY <1>1, <2>1, <2>2 DEF FdtInUseWasSent
<1> QED
  BY <1>1, <1>3, <1>4, OnAirIs

\* What a step may do to the sender's records.
LEMMA RecordsGrow ==
  ASSUME SenderInv, [SessionNext]_sessionVars
  PROVE  /\ docs \subseteq docs'
         /\ Offered' = Offered \/ \E f \in Entry : Offered' = Offered \cup {f}
<1>1. CASE Sends
  BY <1>1, SenderSteps DEF Sends
<1>2. CASE Restart
  BY <1>2, RestartKeeps
<1>3. CASE Receives \/ Calls \/ UNCHANGED sessionVars
  BY <1>3, SenderAlone DEF Receives, Calls, sessionVars
<1> QED
  BY <1>1, <1>2, <1>3 DEF SessionNext

LEMMA FdtInvNext ==
  ASSUME OneSymbolFdts, FdtInv, [SessionNext]_sessionVars
  PROVE  FdtInv'
<1>1. SenderInv /\ SessionTypeInv' /\ Offered \in SUBSET Entry /\ FilesOK(rfiles, Offered)
  BY SessionTypeNext DEF FdtInv, SessionTypeInv, SenderInv, SenderTypeOK, Offered, Document
<1>2. docs \subseteq docs' /\ Offered \subseteq Offered'
  BY <1>1, RecordsGrow
<1>3. /\ FilesOK(rfiles, Offered') /\ rfiles[0] = None
      /\ rfdt # None => rfdt \in docs'
  BY <1>2, MoreOffered DEF FdtInv
<1>4. CASE UNCHANGED <<rfiles, rfdt>>
  BY <1>1, <1>3, <1>4 DEF FdtInv, FdtInUseWasSent
<1>5. CASE Sends \/ Restart \/ UNCHANGED sessionVars
  BY <1>4, <1>5 DEF Sends, Restart, sessionVars, receiverVars
<1>6. CASE Receives
  <2>1. docs' = docs /\ Offered' = Offered
    BY <1>1, <1>6, SenderAlone DEF Receives
  <2>2. CASE \E packet \in OnAir : Receive(packet, docs)
    BY <1>1, <2>1, <2>2, ReceiveKeepsFdt DEF FdtInv, FdtInUseWasSent
  <2>3. CASE ReceiveAfterStop \/ ReceiveFails
    BY <1>4, <2>3 DEF ReceiveAfterStop, ReceiveFails
  <2> QED
    BY <1>6, <2>2, <2>3 DEF Receives
<1>7. CASE Calls
  <2>1. docs' = docs /\ Offered' = Offered
    BY <1>1, <1>7, SenderAlone DEF Calls
  <2>2. /\ FilesOK(rfiles', Offered) /\ rfiles'[0] \in {rfiles[0], None} /\ rfdt' = rfdt
    BY <1>1, <1>7, CallsKeepFiles DEF Calls
  <2> QED
    BY <1>1, <1>3, <2>1, <2>2 DEF FdtInv, FdtInUseWasSent
<1> QED
  BY <1>5, <1>6, <1>7 DEF SessionNext

LEMMA FdtInvariant ==
  ASSUME OneSymbolFdts
  PROVE  SessionSpec => []FdtInv
<1>1. SessionInit => FdtInv
  BY FdtInvInit
<1>2. FdtInv /\ [SessionNext]_sessionVars => FdtInv'
  BY FdtInvNext
<1> QED
  BY <1>1, <1>2, PTL DEF SessionSpec

\* However packets are lost, repeated and put out of order, and whatever instance ids the
\* sender uses again after a restart, the FDT in use is one it made, when each fits one
\* symbol: nothing of two documents is put together.
THEOREM FdtsInUseWereSent ==
  ASSUME OneSymbolFdts
  PROVE  SessionSpec => []FdtInUseWasSent
<1>1. SessionSpec => []FdtInv
  BY FdtInvariant
<1>2. FdtInv => FdtInUseWasSent
  BY DEF FdtInv
<1> QED
  BY <1>1, <1>2, PTL

-----------------------------------------------------------------------------
(* What becomes of the files *)

\* No step but the taking of an FDT starts a file, and none changes whose it is.
FilesGoOn ==
  \A toi \in 1..ToiMax :
    rfiles'[toi] # None => rfiles[toi] # None /\ rfiles'[toi].entry = rfiles[toi].entry

\* A file is dropped for one that is complete and has its location.
LEMMA FilesReplaced ==
  ASSUME NEW E \in SUBSET Entry, FilesOK(rfiles, E), NEW packet, Usable(packet), packet.toi # 0,
         Fills(packet)
  PROVE  /\ packet.toi \in 1..ToiMax /\ rfiles[packet.toi] # None
         /\ FilesLeft(packet)[packet.toi] # None
         /\ \A toi \in 1..ToiMax :
              /\ FilesLeft(packet)[toi] # None =>
                   rfiles[toi] # None /\ FilesLeft(packet)[toi].entry = rfiles[toi].entry
              /\ rfiles[toi] # None /\ FilesLeft(packet)[toi] = None =>
                   LocationOf(rfiles[toi]) = LocationOf(rfiles[packet.toi])
<1> DEFINE fs == FilesWith(packet)
           left == FilesLeft(packet)
           own == packet.toi
<1>1. FilesFor(packet) = rfiles /\ own \in 1..ToiMax /\ 1..ToiMax \subseteq Toi
  BY Tois DEF FilesFor, Usable, Packet
<1>2. Wanted(packet) /\ ~OutOfRange(FilesFor(packet)[own], packet)
  BY DEF Fills
<1>3. rfiles[own] # None
  BY <1>1, <1>2 DEF Wanted
<1>4. /\ fs[own] \in RFile /\ fs[own].entry = rfiles[own].entry
      /\ \A toi \in Toi : toi # own => fs[toi] = rfiles[toi]
  BY <1>1, <1>2, FilesWithOK
<1>5. fs[own] # None
  BY <1>4, NoneAssumption
<1>6. left = WithoutReplaced(fs, own)
  BY DEF FilesLeft
<1> HIDE DEF fs, left, own
<1>7. \A toi \in 1..ToiMax : fs[toi] # None <=> rfiles[toi] # None
  BY <1>1, <1>3, <1>4, <1>5
<1>8. \A toi \in 1..ToiMax : fs[toi].entry = rfiles[toi].entry
  BY <1>1, <1>4
<1>9. \A toi \in 1..ToiMax : LocationOf(fs[toi]) = LocationOf(rfiles[toi])
  BY <1>8 DEF LocationOf
<1>10. \A toi \in 1..ToiMax :
         \/ left[toi] = fs[toi]
         \/ left[toi] = None /\ toi # own /\ LocationOf(fs[toi]) = LocationOf(fs[own])
  BY <1>1, <1>6 DEF WithoutReplaced
<1> QED
  BY <1>1, <1>3, <1>5, <1>7, <1>8, <1>9, <1>10 DEF left, own

\* The files that a packet of a file leaves, unless its own is handed over.
LEMMA FilePacketFiles ==
  ASSUME NEW E \in SUBSET Entry, FilesOK(rfiles, E), NEW packet, Usable(packet), packet.toi # 0,
         \/ Discard(packet) \/ RefuseSymbols(packet) \/ KeepSymbols(packet)
         \/ FailDecode(packet) \/ KeepComplete(packet)
  PROVE  /\ FilesGoOn
         /\ \A toi \in 1..ToiMax : rfiles[toi] # None /\ rfiles'[toi] = None =>
              \E t \in 1..ToiMax : rfiles'[t] # None /\ LocationOf(rfiles'[t]) = LocationOf(rfiles[toi])
<1>1. FilesFor(packet) = rfiles /\ packet.toi \in 1..ToiMax /\ 1..ToiMax \subseteq Toi
  BY Tois DEF FilesFor, Usable, Packet
<1>2. CASE Discard(packet) \/ RefuseSymbols(packet)
  BY <1>1, <1>2 DEF Discard, RefuseSymbols, receiverVars, FilesGoOn
<1>3. CASE KeepSymbols(packet)
  <2>1. Wanted(packet) /\ ~OutOfRange(FilesFor(packet)[packet.toi], packet) /\ rfiles' = FilesWith(packet)
    BY <1>3 DEF KeepSymbols
  <2>2. /\ rfiles'[packet.toi] \in RFile /\ rfiles'[packet.toi].entry = rfiles[packet.toi].entry
        /\ \A toi \in Toi : toi # packet.toi => rfiles'[toi] = rfiles[toi]
    BY <1>1, <2>1, FilesWithOK
  <2>3. rfiles'[packet.toi] # None /\ rfiles[packet.toi] # None
    BY <1>1, <2>1, <2>2, NoneAssumption DEF Wanted
  <2> QED
    BY <1>1, <2>2, <2>3 DEF FilesGoOn
<1>4. CASE FailDecode(packet) \/ KeepComplete(packet)
  <2> DEFINE left == FilesLeft(packet)
             own == packet.toi
             file == left[own]
  <2>1. Fills(packet) /\ \E new \in {file, Decoded(file)} : rfiles' = [left EXCEPT ![own] = new]
    <3>1. CASE FailDecode(packet)
      <4>1. Fills(packet) /\ rfiles' = left
        BY <3>1 DEF FailDecode
      <4>2. left \in [Toi -> RFile \cup {None}]
        BY <4>1, FilesLeftOK DEF FilesOK
      <4> HIDE DEF left
      <4>3. left = [left EXCEPT ![own] = file]
        BY <4>2
      <4> QED
        BY <4>1, <4>3
    <3>2. CASE KeepComplete(packet)
      BY <3>2 DEF KeepComplete
    <3> QED
      BY <1>4, <3>1, <3>2
  <2>2. PICK new \in {file, Decoded(file)} : rfiles' = [left EXCEPT ![own] = new]
    BY <2>1
  <2>3. file \in RFile /\ left \in [Toi -> RFile \cup {None}]
    BY <2>1, FilesLeftOK DEF FilesOK
  <2>4. new \in RFile /\ new.entry = file.entry
    <3> HIDE DEF file
    <3>1. Grown(file, Decoded(file))
      BY <2>3, DecodedIs
    <3> QED
      BY <2>2, <2>3, <3>1 DEF Grown
  <2>5. new # None
    BY <2>4, NoneAssumption
  <2>6. /\ rfiles[own] # None
        /\ \A toi \in 1..ToiMax :
             /\ left[toi] # None => rfiles[toi] # None /\ left[toi].entry = rfiles[toi].entry
             /\ rfiles[toi] # None /\ left[toi] = None =>
                  LocationOf(rfiles[toi]) = LocationOf(rfiles[own])
        /\ file # None
    BY <2>1, FilesReplaced
  <2>7. own \in 1..ToiMax /\ own \in Toi /\ file = left[own]
    BY <1>1
  <2> HIDE DEF left, own, file
  <2>8. rfiles'[own] = new /\ \A toi \in 1..ToiMax : toi # own => rfiles'[toi] = left[toi]
    BY <1>1, <2>2, <2>3, <2>7
  <2>9. new.entry = rfiles[own].entry
    BY <2>4, <2>6, <2>7
  <2>10. LocationOf(rfiles'[own]) = LocationOf(rfiles[own])
    BY <2>8, <2>9 DEF LocationOf
  <2>11. FilesGoOn
    BY <2>6, <2>8, <2>9 DEF FilesGoOn
  <2> QED
    BY <2>5, <2>6, <2>7, <2>8, <2>10, <2>11
<1> QED
  BY <1>2, <1>3, <1>4

\* The file of the packet is handed over.
LEMMA HandOverFiles ==
  ASSUME NEW E \in SUBSET Entry, FilesOK(rfiles, E), NEW packet, Usable(packet), HandOver(packet)
  PROVE  /\ FilesGoOn
         /\ packet.toi \in 1..ToiMax /\ rfiles[packet.toi] # None /\ rfiles'[packet.toi] = None
         /\ FilesLeft(packet)[packet.toi].entry = rfiles[packet.toi].entry
         /\ \A toi \in 1..ToiMax : rfiles[toi] # None /\ rfiles'[toi] = None =>
              LocationOf(rfiles[toi]) = LocationOf(rfiles[packet.toi])
<1> DEFINE left == FilesLeft(packet)
           own == packet.toi
<1>1. own # 0 /\ Fills(packet) /\ rfiles' = [left EXCEPT ![own] = None]
  BY DEF HandOver
<1>2. /\ own \in 1..ToiMax /\ rfiles[own] # None /\ left[own] # None
      /\ \A toi \in 1..ToiMax :
           /\ left[toi] # None => rfiles[toi] # None /\ left[toi].entry = rfiles[toi].entry
           /\ rfiles[toi] # None /\ left[toi] = None =>
                LocationOf(rfiles[toi]) = LocationOf(rfiles[own])
  BY <1>1, FilesReplaced
<1>3. left \in [Toi -> RFile \cup {None}] /\ 1..ToiMax \subseteq Toi
  BY <1>1, FilesLeftOK, Tois DEF FilesOK
<1> HIDE DEF left, own
<1>4. rfiles'[own] = None /\ \A toi \in 1..ToiMax : toi # own => rfiles'[toi] = left[toi]
  BY <1>1, <1>2, <1>3
<1> QED
  BY <1>2, <1>4 DEF FilesGoOn, left, own

\* What the application removes is recorded.
LEMMA CallsFiles ==
  ASSUME NEW E \in SUBSET Entry, FilesOK(rfiles, E), ReceiverCalls
  PROVE  FilesGoOn
<1>1. rfiles \in [Toi -> RFile \cup {None}] /\ 1..ToiMax \subseteq Toi
  BY Tois DEF FilesOK
<1>2. ASSUME NEW tois, rfiles' = Without(tois)
      PROVE  FilesGoOn
  BY <1>1, <1>2 DEF Without, FilesGoOn
<1>3. CASE RegisterCallback \/ Stop
  BY <1>3 DEF RegisterCallback, Stop, FilesGoOn
<1>4. CASE \E tois \in SUBSET Toi : RemoveExpired(tois)
  BY <1>2, <1>4 DEF RemoveExpired
<1>5. CASE \E meta \in Meta : RemoveLocation(Location[meta])
  BY <1>2, <1>5 DEF RemoveLocation
<1> QED
  BY <1>3, <1>4, <1>5 DEF ReceiverCalls

-----------------------------------------------------------------------------
(* Files and records, step by step *)

\* An FDT is taken, of another instance.
StartsOver ==
  /\ handed' = [e \in Entry |-> 0]
  /\ rfdt' # None /\ \A e \in rfdt'.entries : rfiles'[e.toi] # None

\* toi's file is handed over.
HandsOverFile(toi) ==
  /\ rfdt' = rfdt /\ removed' = removed /\ FilesGoOn
  /\ rfiles[toi] # None /\ rfiles'[toi] = None
  /\ handed' = [handed EXCEPT ![rfiles[toi].entry] = @ + 1]
  /\ \A t \in 1..ToiMax : rfiles[t] # None /\ rfiles'[t] = None =>
       LocationOf(rfiles[t]) = LocationOf(rfiles[toi])

\* Files go on, are removed by the application, or give way to another.
GoesOn ==
  /\ rfdt' = rfdt /\ handed' = handed /\ removed \subseteq removed' /\ FilesGoOn
  /\ \A toi \in 1..ToiMax : rfiles[toi] # None /\ rfiles'[toi] = None =>
       \/ rfiles[toi].entry \in removed'
       \/ \E t \in 1..ToiMax : rfiles'[t] # None /\ LocationOf(rfiles'[t]) = LocationOf(rfiles[toi])

LEMMA SessionSteps == [MCNext]_mcVars => [SessionNext]_sessionVars
<1>1. \A packet : \/ Takes(packet) \/ HandsOver(packet) \/ OtherwiseReceives(packet)
                  \/ Discards(packet)
                  => Receive(packet, docs)
  BY DEF Takes, HandsOver, OtherwiseReceives, Discards, Receive
<1>2. MCReceives => Receives
  BY <1>1 DEF MCReceives, Receives
<1> QED
  BY <1>2 DEF MCNext, MCSends, MCCalls, SessionNext, mcVars

LEMMA TakesStartsOver ==
  ASSUME OneSymbolFdts, FdtInv, NEW packet \in OnAir, Takes(packet)
  PROVE  StartsOver \/ (UNCHANGED receiverVars /\ GoesOn)
<1>1. /\ TakeFdt(packet, docs) /\ Receive(packet, docs) /\ packet.toi = 0
      /\ IF NewInstance THEN handed' = [e \in Entry |-> 0] /\ removed' = {}
                        ELSE UNCHANGED <<handed, removed>>
  BY DEF Takes, Receive, TakeFdt
<1>2. SenderInv /\ docs \subseteq Document /\ Usable(packet) /\ FilesOK(rfiles, Offered)
  BY OnAirUsable DEF FdtInv, SessionTypeInv, SenderInv, SenderTypeOK
<1>3. PICK d \in docs :
        /\ packet \in PacketsOf(0, d.instance, d)
        /\ packet.instance = d.instance /\ packet.length = FdtLength(d.entries)
  BY <1>1, <1>2, OnAirIs, Tois DEF SenderInv, SenderTypeOK, Entry
<1>4. CASE UNCHANGED receiverVars
  BY <1>1, <1>4 DEF receiverVars, NewInstance, GoesOn, FilesGoOn
<1>5. CASE TakesDocument(packet, d)
  <2>1. d \in Document /\ d.entries \in SUBSET Entry /\ d # None
    BY <1>2, NoneAssumption DEF Document
  <2>2. NewInstance
    BY <1>5, <2>1 DEF TakesDocument, NewInstance
  <2>3. PICK S \in FirstEntries(d.entries) :
          rfiles' = WithStarted([FilesLeft(packet) EXCEPT ![0] = None], S)
    BY <1>5 DEF TakesDocument
  <2> DEFINE fs == [FilesLeft(packet) EXCEPT ![0] = None]
             file(toi) == FileFor(CHOOSE e \in S : e.toi = toi)
  <2>4. ASSUME NEW e \in d.entries
        PROVE  rfiles'[e.toi] # None
    <3>1. \E first \in S : first.toi = e.toi
      BY <2>3 DEF FirstEntries
    <3>2. (CHOOSE f \in S : f.toi = e.toi) \in Entry
      BY <2>1, <2>3, <3>1 DEF FirstEntries
    <3>3. file(e.toi) # None
      BY <3>2, NewFiles, NoneAssumption
    <3>4. e.toi \in Toi
      BY <2>1, Tois DEF Entry
    <3> HIDE DEF fs
    <3> QED
      BY <2>3, <3>1, <3>3, <3>4 DEF WithStarted, fs
  <2> QED
    BY <1>1, <1>5, <2>1, <2>2, <2>4 DEF StartsOver, TakesDocument
<1> QED
  BY <1>1, <1>2, <1>3, <1>4, <1>5, FdtPacket

\* A packet of the FDT that is not taken changes nothing.
LEMMA OtherwisePasses ==
  ASSUME OneSymbolFdts, FdtInv, NEW packet \in OnAir,
         packet.toi = 0, OtherwiseReceives(packet)
  PROVE  UNCHANGED receiverVars
<1>1. Receive(packet, docs) /\ rfdt' = rfdt
  BY DEF OtherwiseReceives, Receive, RefuseSymbols, KeepSymbols, FailDecode, KeepComplete, Throw
<1>2. SenderInv /\ docs \subseteq Document /\ Usable(packet)
  BY OnAirUsable DEF FdtInv, SessionTypeInv, SenderInv, SenderTypeOK
<1>3. PICK d \in docs :
        /\ packet \in PacketsOf(0, d.instance, d)
        /\ packet.instance = d.instance /\ packet.length = FdtLength(d.entries)
  BY <1>2, OnAirIs, Tois DEF SenderInv, SenderTypeOK, Entry
<1>4. d # None
  BY <1>2, NoneAssumption
<1> QED
  BY <1>1, <1>2, <1>3, <1>4, FdtPacket DEF TakesDocument

LEMMA StepKinds ==
  ASSUME OneSymbolFdts, FdtInv, [MCNext]_mcVars
  PROVE  StartsOver \/ (\E toi \in 1..ToiMax : HandsOverFile(toi)) \/ GoesOn
<1>1. SenderInv /\ FilesOK(rfiles, Offered) /\ Offered \in SUBSET Entry
  BY DEF FdtInv, SessionTypeInv, SenderInv, SenderTypeOK, Offered, Document
<1>2. CASE UNCHANGED receiverVars /\ UNCHANGED <<handed, removed>>
  BY <1>2 DEF receiverVars, GoesOn, FilesGoOn
<1>3. CASE MCSends \/ UNCHANGED mcVars
  BY <1>2, <1>3 DEF MCSends, Sends, Restart, mcVars, sessionVars
<1>4. CASE MCCalls
  <2>1. FilesGoOn /\ rfdt' = rfdt
    BY <1>1, <1>4, CallsFiles, CallsKeepFiles DEF MCCalls, Calls
  <2>2. /\ handed' = handed
        /\ removed' = removed \cup
             {rfiles[toi].entry : toi \in {t \in 1..ToiMax : rfiles[t] # None /\ rfiles'[t] = None}}
    BY <1>4 DEF MCCalls
  <2> QED
    BY <2>1, <2>2 DEF GoesOn
<1>5. ASSUME NEW packet \in OnAir, Takes(packet)
      PROVE  StartsOver \/ GoesOn
  BY <1>5, TakesStartsOver
<1>6. ASSUME NEW packet \in OnAir, HandsOver(packet)
      PROVE  \E toi \in 1..ToiMax : HandsOverFile(toi)
  <2>1. Usable(packet) /\ HandOver(packet) /\ rfdt' = rfdt /\ removed' = removed
    BY <1>1, <1>6, OnAirUsable DEF HandsOver, HandOver
  <2>2. handed' = [handed EXCEPT ![FilesLeft(packet)[packet.toi].entry] = @ + 1]
    BY <1>6 DEF HandsOver
  <2> QED
    BY <1>1, <2>1, <2>2, HandOverFiles DEF HandsOverFile
<1>7. ASSUME NEW packet \in OnAir, OtherwiseReceives(packet) \/ Discards(packet)
      PROVE  GoesOn
  <2>1. /\ Usable(packet) /\ UNCHANGED <<handed, removed>>
        /\ \/ Discard(packet) \/ RefuseSymbols(packet) \/ KeepSymbols(packet)
           \/ FailDecode(packet) \/ KeepComplete(packet)
    BY <1>1, <1>7, OnAirUsable DEF OtherwiseReceives, Discards
  <2>2. rfdt' = rfdt
    BY <2>1 DEF Discard, RefuseSymbols, KeepSymbols, FailDecode, KeepComplete, Throw, receiverVars
  <2>3. CASE packet.toi = 0
    <3>1. UNCHANGED receiverVars
      BY <1>7, <2>3, OtherwisePasses DEF Discards, Discard
    <3> QED
      BY <2>1, <3>1 DEF receiverVars, GoesOn, FilesGoOn
  <2>4. CASE packet.toi # 0
    BY <1>1, <2>1, <2>2, <2>4, FilePacketFiles DEF GoesOn
  <2> QED
    BY <2>3, <2>4
<1>8. CASE MCReceives
  <2>1. CASE \E packet \in OnAir : Takes(packet) \/ HandsOver(packet)
                                   \/ OtherwiseReceives(packet) \/ Discards(packet)
    BY <1>5, <1>6, <1>7, <2>1
  <2>2. CASE (ReceiveAfterStop \/ ReceiveFails) /\ UNCHANGED <<handed, removed, arrived>>
    BY <2>2 DEF ReceiveAfterStop, ReceiveFails, GoesOn, FilesGoOn
  <2> QED
    BY <1>8, <2>1, <2>2 DEF MCReceives
<1> QED
  BY <1>3, <1>4, <1>8 DEF MCNext

-----------------------------------------------------------------------------
(* One FDT instance, one file *)

\* A file that was handed over is not being received.
OnceInv ==
  /\ handed \in [Entry -> Nat]
  /\ \A e \in HandedOver : handed[e] = 1 /\ rfiles[e.toi] = None
  /\ \A e, f \in HandedOver : e.toi = f.toi => e = f

LEMMA StepOnce ==
  ASSUME OneSymbolFdts, FdtInv, OnceInv, [MCNext]_mcVars
  PROVE  OnceInv'
<1>1. FilesOK(rfiles, Offered) /\ Offered \subseteq Entry
  BY DEF FdtInv, SessionTypeInv, SenderInv, SenderTypeOK, Offered, Document
<1>2. \A e \in Entry : e.toi \in 1..ToiMax
  BY DEF Entry
<1>3. CASE StartsOver
  BY <1>3 DEF StartsOver, OnceInv, HandedOver
<1>4. CASE GoesOn
  BY <1>2, <1>4 DEF GoesOn, FilesGoOn, OnceInv, HandedOver
<1>5. ASSUME NEW toi \in 1..ToiMax, HandsOverFile(toi)
      PROVE  OnceInv'
  <2> DEFINE x == rfiles[toi].entry
  <2>1. x \in Entry /\ x.toi = toi
    BY <1>1, <1>5 DEF HandsOverFile, FilesOK, WellMade
  <2>2. /\ rfiles[toi] # None /\ rfiles'[toi] = None /\ FilesGoOn
        /\ handed' = [handed EXCEPT ![x] = @ + 1]
    BY <1>5 DEF HandsOverFile
  <2> HIDE DEF x
  <2>3. handed \in [Entry -> Nat] /\ \A e \in HandedOver : e.toi # toi
    BY <2>2 DEF OnceInv
  <2>4. x \notin HandedOver /\ handed[x] = 0
    BY <2>1, <2>3 DEF HandedOver
  <2>5. /\ handed' \in [Entry -> Nat] /\ handed'[x] = 1
        /\ \A e \in Entry : e # x => handed'[e] = handed[e]
    BY <2>1, <2>2, <2>3, <2>4
  <2>6. HandedOver' = HandedOver \cup {x}
    BY <2>1, <2>5 DEF HandedOver
  <2>7. \A e \in HandedOver : e \in Entry /\ e # x /\ rfiles'[e.toi] = None /\ handed'[e] = 1
    BY <1>2, <2>2, <2>4, <2>5 DEF OnceInv, FilesGoOn, HandedOver
  <2> QED
    BY <2>1, <2>2, <2>3, <2>5, <2>6, <2>7 DEF OnceInv
<1> QED
  BY <1>3, <1>4, <1>5, StepKinds

\* However often the sender repeats the FDT and its files, and whatever the packets do on
\* the way, no file is handed over twice while an FDT instance is in use: the files that
\* are handed over leave _files, and only an FDT of another instance starts them again.
THEOREM FilesHandedOverOnce ==
  ASSUME OneSymbolFdts
  PROVE  MCSpec => []HandedOverOncePerInstance
<1>1. MCInit => FdtInv /\ OnceInv
  BY FdtInvInit DEF MCInit, OnceInv, HandedOver
<1>2. FdtInv /\ OnceInv /\ [MCNext]_mcVars => FdtInv' /\ OnceInv'
  BY SessionSteps, FdtInvNext, StepOnce
<1>3. OnceInv => HandedOverOncePerInstance
  BY DEF OnceInv, HandedOverOncePerInstance
<1> QED
  BY <1>1, <1>2, <1>3, PTL DEF MCSpec

-----------------------------------------------------------------------------
(* No listed file is forgotten *)

\* What ListedFileIsServed asks for an entry.
IsServed(e, fs, served) ==
  \/ fs[e.toi] # None
  \/ \E x \in served : x.toi = e.toi \/ Location[x.meta] = Location[e.meta]
  \/ \E toi \in 1..ToiMax : fs[toi] # None /\ LocationOf(fs[toi]) = Location[e.meta]

LEMMA ServedMeaning ==
  ListedFileIsServed <=>
    (rfdt # None /\ ~TwoFilesOneToi => \A e \in rfdt.entries : IsServed(e, rfiles, Served))
  BY DEF ListedFileIsServed, IsServed

\* A step that leaves the FDT in use, forgets no service, and lets go of a file only for
\* another of its location or one that was served.
LEMMA ServedStays ==
  ASSUME FilesOK(rfiles, Offered), Offered \subseteq Entry, ~TwoFilesOneToi,
         NEW e \in Offered, IsServed(e, rfiles, Served), FilesGoOn, Served \subseteq Served',
         \A toi \in 1..ToiMax : rfiles[toi] # None /\ rfiles'[toi] = None =>
           \/ \E x \in Served' : Location[x.meta] = LocationOf(rfiles[toi])
           \/ \E t \in 1..ToiMax : rfiles'[t] # None /\ LocationOf(rfiles'[t]) = LocationOf(rfiles[toi])
  PROVE  IsServed(e, rfiles', Served')
<1>1. ASSUME NEW toi \in 1..ToiMax, rfiles[toi] # None, LocationOf(rfiles[toi]) = Location[e.meta]
      PROVE  IsServed(e, rfiles', Served')
  <2>1. CASE rfiles'[toi] # None
    <3>1. rfiles'[toi].entry = rfiles[toi].entry
      BY <2>1 DEF FilesGoOn
    <3>2. LocationOf(rfiles'[toi]) = Location[e.meta]
      BY <1>1, <3>1 DEF LocationOf
    <3> QED
      BY <2>1, <3>2 DEF IsServed
  <2>2. CASE rfiles'[toi] = None
    BY <1>1, <2>2 DEF IsServed
  <2> QED
    BY <2>1, <2>2
<1>2. CASE rfiles[e.toi] # None
  <2>1. e \in Entry /\ e.toi \in 1..ToiMax /\ e # None
    BY ReceiverAssumption DEF Entry
  <2>2. rfiles[e.toi].entry = e
    BY <1>2, <2>1 DEF FilesOK, WellMade, TwoFilesOneToi
  <2>3. LocationOf(rfiles[e.toi]) = Location[e.meta]
    BY <2>1, <2>2 DEF LocationOf
  <2> QED
    BY <1>1, <1>2, <2>1, <2>3
<1>3. CASE \E x \in Served : x.toi = e.toi \/ Location[x.meta] = Location[e.meta]
  BY <1>3 DEF IsServed
<1> QED
  BY <1>1, <1>2, <1>3 DEF IsServed

LEMMA StepServed ==
  ASSUME OneSymbolFdts, FdtInv, OnceInv, ListedFileIsServed, [MCNext]_mcVars
  PROVE  ListedFileIsServed'
<1>1. /\ SenderInv /\ FilesOK(rfiles, Offered) /\ Offered \subseteq Entry
      /\ rfdt # None => rfdt.entries \subseteq Offered
  BY DEF FdtInv, FdtInUseWasSent, SessionTypeInv, SenderInv, SenderTypeOK, Offered, Document
<1>2. TwoFilesOneToi => TwoFilesOneToi'
  <2>1. Offered \subseteq Offered'
    BY <1>1, SessionSteps, RecordsGrow
  <2> QED
    BY <2>1 DEF TwoFilesOneToi
<1>3. \A toi \in 1..ToiMax : rfiles[toi] # None =>
        /\ rfiles[toi].entry \in Entry
        /\ Location[rfiles[toi].entry.meta] = LocationOf(rfiles[toi])
  BY <1>1, ReceiverAssumption DEF FilesOK, WellMade, LocationOf
<1>4. CASE StartsOver
  BY <1>4 DEF StartsOver, ListedFileIsServed
<1>5. ASSUME rfdt' = rfdt,
             rfdt # None /\ ~TwoFilesOneToi =>
               \A e \in rfdt.entries : IsServed(e, rfiles', Served')
      PROVE  ListedFileIsServed'
  BY <1>2, <1>5 DEF ListedFileIsServed, IsServed
<1>6. CASE GoesOn
  <2>1. rfdt' = rfdt /\ handed' = handed /\ removed \subseteq removed' /\ FilesGoOn
    BY <1>6 DEF GoesOn
  <2>2. Served \subseteq Served' /\ removed' \subseteq Served'
    BY <2>1 DEF Served, HandedOver
  <2>3. \A toi \in 1..ToiMax : rfiles[toi] # None /\ rfiles'[toi] = None =>
          \/ \E x \in Served' : Location[x.meta] = LocationOf(rfiles[toi])
          \/ \E t \in 1..ToiMax : rfiles'[t] # None /\ LocationOf(rfiles'[t]) = LocationOf(rfiles[toi])
    BY <1>3, <1>6, <2>2 DEF GoesOn
  <2> QED
    BY <1>1, <1>5, <2>1, <2>2, <2>3, ServedMeaning, ServedStays
<1>7. ASSUME NEW toi \in 1..ToiMax, HandsOverFile(toi)
      PROVE  ListedFileIsServed'
  <2> DEFINE x == rfiles[toi].entry
  <2>1. /\ rfdt' = rfdt /\ removed' = removed /\ FilesGoOn
        /\ handed' = [handed EXCEPT ![x] = @ + 1]
        /\ x \in Entry /\ Location[x.meta] = LocationOf(rfiles[toi])
    BY <1>3, <1>7 DEF HandsOverFile
  <2>2. \A t \in 1..ToiMax : rfiles[t] # None /\ rfiles'[t] = None =>
          Location[x.meta] = LocationOf(rfiles[t])
    BY <1>7, <2>1 DEF HandsOverFile
  <2> HIDE DEF x
  <2>3. x \in HandedOver' /\ HandedOver \subseteq HandedOver'
    BY <2>1 DEF OnceInv, HandedOver
  <2>4. Served \subseteq Served' /\ x \in Served'
    BY <2>1, <2>3 DEF Served
  <2>5. \A t \in 1..ToiMax : rfiles[t] # None /\ rfiles'[t] = None =>
          \E y \in Served' : Location[y.meta] = LocationOf(rfiles[t])
    BY <2>2, <2>4
  <2> QED
    BY <1>1, <1>5, <2>1, <2>4, <2>5, ServedMeaning, ServedStays
<1> QED
  BY <1>4, <1>6, <1>7, StepKinds

\* A file of the FDT in use is being received, was handed over, or went for a reason: the
\* application removed it, or one of its location came.  No loss, repetition, throw or
\* other file's packet loses it, nor does an FDT that comes while others are received.
THEOREM ListedFilesServed ==
  ASSUME OneSymbolFdts
  PROVE  MCSpec => []ListedFileIsServed
<1>1. MCInit => FdtInv /\ OnceInv /\ ListedFileIsServed
  BY FdtInvInit DEF MCInit, OnceInv, HandedOver, SessionInit, ReceiverInit, ListedFileIsServed
<1>2. FdtInv /\ OnceInv /\ ListedFileIsServed /\ [MCNext]_mcVars
        => FdtInv' /\ OnceInv' /\ ListedFileIsServed'
  BY SessionSteps, FdtInvNext, StepOnce, StepServed
<1> QED
  BY <1>1, <1>2, PTL DEF MCSpec

-----------------------------------------------------------------------------
(* Which cells of a file are filled *)

\* The symbols of a packet.
Ats(packet) == {packet.payload[j].at : j \in DOMAIN packet.payload}

\* The packet starts with the symbol i of c.
CutAt(packet, c, i) ==
  LET length == ContentLength(c)
      n      == Len(packet.payload)
  IN /\ packet \in Packet
     /\ i \in 1..NofSourceSymbols(length) /\ n \in Nat \ {0}
     /\ i + n - 1 <= NofSourceSymbols(length)
     /\ packet.sbn \in Blocks(length)
     /\ SymbolsBefore(length, packet.sbn) + packet.esi + 1 = i
     /\ \A j \in 1..n : packet.payload[j] = [of |-> c, at |-> i + j - 1]

\* What SentWhole asks of each packet.
Whole(packet, length) ==
  /\ packet.esi + Len(packet.payload) <= BlockLength(length, packet.sbn)
  /\ Len(packet.payload) > 1 =>
       SymbolSize(length, packet.payload[Len(packet.payload)].at) = SymbolBytes

\* The file has its own cells and no others; those of the symbols `got' have their piece of
\* the contents, the others are open.
Exact(file, got) ==
  /\ Len(file.blocks) = NofSourceBlocks(file.length)
  /\ \A b \in Blocks(file.length) :
       /\ Len(file.blocks[b + 1]) = BlockLength(file.length, b)
       /\ \A k \in 1..BlockLength(file.length, b) :
            file.blocks[b + 1][k] =
              IF SymbolsBefore(file.length, b) + k \in got
              THEN [of |-> file.entry.data, at |-> SymbolsBefore(file.length, b) + k]
              ELSE Open

\* A packet of contents starts with one of its symbols, and the others follow.
LEMMA PacketCutAt ==
  ASSUME NEW toi \in Toi, NEW c \in Data, NEW packet \in PacketsOf(toi, 0, c)
  PROVE  /\ \E i : CutAt(packet, c, i)
         /\ SentWhole(c) => Whole(packet, Length[c])
<1> DEFINE length == ContentLength(c)
<1>1. length \in Nat \ {0} /\ length = Length[c]
  BY ContentLengths
<1>2. PICK i \in 1..NofSourceSymbols(length) :
        packet = PacketAt(toi, 0, c, i) /\ (i - 1) % PerPacket = 0
  BY DEF PacketsOf
<1> DEFINE sbn == BlockOf(length, i)
           last == Min({NofSourceSymbols(length), i + PerPacket - 1})
           payload == [j \in 1..(last - i + 1) |-> [of |-> c, at |-> i + j - 1]]
           esi == i - 1 - SymbolsBefore(length, sbn)
           whole(p) == /\ p.esi + Len(p.payload) <= BlockLength(Length[c], p.sbn)
                       /\ Len(p.payload) > 1 =>
                            SymbolSize(Length[c], p.payload[Len(p.payload)].at) = SymbolBytes
<1>3. packet \in Packet
  <2>1. 0 \in Nat /\ c \in Data \cup Document
    OBVIOUS
  <2> QED
    BY <2>1, PacketIsCut DEF CutFrom
<1>4. packet.sbn = sbn /\ packet.esi = esi /\ packet.payload = payload
  BY <1>2 DEF PacketAt
<1>5. SentWhole(c) => Whole(packet, Length[c])
  <2> SUFFICES ASSUME SentWhole(c) PROVE Whole(packet, Length[c])
    OBVIOUS
  <2> DEFINE twin == PacketAt(0, 0, c, i)
  <2>1. twin \in PacketsOf(0, 0, c)
    BY <1>2 DEF PacketsOf
  <2>2. twin.sbn = sbn /\ twin.esi = esi /\ twin.payload = payload
    BY DEF PacketAt
  <2> HIDE DEF twin, sbn, esi, payload
  <2>3. whole(twin)
    BY <2>1 DEF SentWhole
  <2> QED
    BY <1>4, <2>2, <2>3 DEF Whole
<1> HIDE DEF length
<1>6. NofSourceSymbols(length) \in Nat \ {0} /\ i \in Nat \ {0} /\ i <= NofSourceSymbols(length)
  BY <1>1, BlockLengths
<1>7. last \in Nat /\ i <= last /\ last <= NofSourceSymbols(length)
  <2>1. i + PerPacket - 1 \in Nat /\ i <= i + PerPacket - 1
    BY <1>6, SessionAssumption
  <2> QED
    BY <1>6, <2>1, MinOfTwo
<1>8. sbn \in Blocks(length) /\ SymbolsBefore(length, sbn) \in Nat
  BY <1>1, BlockOfIs, BlocksFollow
<1> HIDE DEF last, sbn
<1>9. /\ Len(payload) = last - i + 1 /\ Len(payload) \in Nat \ {0}
      /\ \A j \in 1..Len(payload) : payload[j] = [of |-> c, at |-> i + j - 1]
  BY <1>6, <1>7
<1> HIDE DEF payload
<1>10. /\ i + Len(payload) - 1 <= NofSourceSymbols(length)
       /\ SymbolsBefore(length, sbn) + esi + 1 = i
  BY <1>6, <1>7, <1>8, <1>9
<1>11. CutAt(packet, c, i)
  BY <1>3, <1>4, <1>6, <1>8, <1>9, <1>10 DEF CutAt, length
<1> QED
  BY <1>5, <1>11

\* Nothing has arrived of a file that is started.
LEMMA ExactNew ==
  ASSUME NEW entry \in Entry
  PROVE  Exact(FileFor(entry), {})
<1> DEFINE length == Length[entry.data]
<1>1. length \in Nat \ {0}
  BY ReceiverAssumption DEF Entry
<1>2. FileFor(entry).blocks = NewBlocks(length) /\ FileFor(entry).length = length
  BY DEF FileFor
<1> HIDE DEF length
<1>3. /\ Len(NewBlocks(length)) = NofSourceBlocks(length)
      /\ \A b \in 1..NofSourceBlocks(length) :
           Len(NewBlocks(length)[b]) = BlockLength(length, b - 1)
  BY <1>1, NewBlocksType
<1>4. NofSourceBlocks(length) \in Nat
  BY <1>1, BlockLengths
<1>5. ASSUME NEW b \in Blocks(length)
      PROVE  /\ Len(NewBlocks(length)[b + 1]) = BlockLength(length, b)
             /\ \A k \in 1..BlockLength(length, b) : NewBlocks(length)[b + 1][k] = Open
  <2> DEFINE c == b + 1
  <2>1. c \in 1..NofSourceBlocks(length) /\ c - 1 = b
    BY <1>4 DEF Blocks
  <2> HIDE DEF c
  <2>2. Len(NewBlocks(length)[c]) = BlockLength(length, b)
    BY <1>3, <2>1
  <2>3. NewBlocks(length)[c] = [e \in 1..BlockLength(length, b) |-> Open]
    BY <2>1 DEF NewBlocks
  <2> QED
    BY <2>2, <2>3 DEF c
<1> QED
  BY <1>2, <1>3, <1>5 DEF Exact

\* A file none of whose own cells is open holds its contents.
LEMMA ExactHolds ==
  ASSUME NEW file \in RFile, file.length \in Nat \ {0}, NEW got, Exact(file, got), AllIn(file)
  PROVE  Holds(file, file.entry.data)
<1> DEFINE length == file.length
<1>1. Len(file.blocks) = NofSourceBlocks(length) /\ NofSourceBlocks(length) \in Nat
  BY BlockLengths DEF Exact
<1> SUFFICES ASSUME NEW b \in Blocks(length), NEW e \in 0..(BlockLength(length, b) - 1)
             PROVE  file.blocks[b + 1][e + 1] =
                      [of |-> file.entry.data, at |-> SymbolNumber(length, b, e)]
  BY DEF Holds
<1>2. BlockLength(length, b) \in Nat /\ SymbolsBefore(length, b) \in Nat
  BY BlocksFollow
<1>3. b + 1 \in 1..Len(file.blocks) /\ e + 1 \in 1..BlockLength(length, b)
  BY <1>1, <1>2 DEF Blocks
<1>4. b + 1 \in DOMAIN file.blocks /\ e + 1 \in DOMAIN file.blocks[b + 1]
  <2>1. file.blocks \in Seq(Seq(Cell)) /\ file.blocks[b + 1] \in Seq(Cell)
    BY <1>3, BlocksType
  <2>2. Len(file.blocks[b + 1]) = BlockLength(length, b)
    BY DEF Exact
  <2> QED
    BY <1>3, <2>1, <2>2
<1>5. file.blocks[b + 1][e + 1] # Open
  BY <1>4 DEF AllIn
<1> DEFINE n == SymbolsBefore(length, b) + (e + 1)
<1>6. file.blocks[b + 1][e + 1] = IF n \in got THEN [of |-> file.entry.data, at |-> n] ELSE Open
  BY <1>3 DEF Exact
<1>7. n = SymbolNumber(length, b, e)
  BY <1>2 DEF SymbolNumber
<1> QED
  BY <1>5, <1>6, <1>7

\* A file that got all its symbols is complete.
LEMMA ExactFull ==
  ASSUME NEW file \in RFile, file.length \in Nat \ {0}, file.entry.data \in Data,
         Exact(file, 1..NofSourceSymbols(file.length))
  PROVE  Complete(file)
<1> DEFINE length == file.length
           all == 1..NofSourceSymbols(length)
<1>1. Len(file.blocks) = NofSourceBlocks(length) /\ NofSourceBlocks(length) \in Nat \ {0}
  BY BlockLengths DEF Exact
<1>2. file.blocks \in Seq(Seq(Cell)) /\ DOMAIN file.blocks = 1..Len(file.blocks)
      /\ file.blocks # <<>>
  BY <1>1, BlocksType
<1>3. ASSUME NEW b \in DOMAIN file.blocks, NEW k \in DOMAIN file.blocks[b]
      PROVE  file.blocks[b][k] # Open
  <2> DEFINE c == b - 1
  <2>1. c \in Blocks(length) /\ c + 1 = b
    BY <1>1, <1>2 DEF Blocks
  <2>2. BlockLength(length, c) \in Nat /\ SymbolsBefore(length, c) \in Nat
    BY <2>1, BlocksFollow
  <2>3. k \in 1..BlockLength(length, c)
    <3>1. Len(file.blocks[b]) = BlockLength(length, c)
      BY <2>1 DEF Exact
    <3>2. file.blocks[b] \in Seq(Cell)
      BY <1>2, BlocksType
    <3> QED
      BY <3>1, <3>2
  <2> DEFINE n == SymbolsBefore(length, c) + k
  <2>4. n \in all
    <3>1. k - 1 \in 0..(BlockLength(length, c) - 1) /\ SymbolNumber(length, c, k - 1) = n
      BY <2>2, <2>3 DEF SymbolNumber
    <3> QED
      BY <2>1, <3>1, BlocksDivideSymbols
  <2>5. file.blocks[c + 1][k] = IF n \in all THEN [of |-> file.entry.data, at |-> n] ELSE Open
    BY <2>1, <2>3 DEF Exact
  <2>6. n \in Nat \ {0}
    BY <2>2, <2>3
  <2> HIDE DEF all, n, c
  <2>7. file.blocks[b][k] = [of |-> file.entry.data, at |-> n]
    BY <2>1, <2>4, <2>5
  <2>8. file.blocks[b][k] \in Piece
    BY <2>6, <2>7 DEF Piece
  <2> QED
    BY <2>8, CellAssumption
<1>4. AllIn(file)
  BY <1>2, <1>3 DEF AllIn
<1>5. Holds(file, file.entry.data)
  BY <1>4, ExactHolds
<1> QED
  BY <1>4, <1>5 DEF Complete, Verified

\* Two numbers of symbols in different blocks differ.
LEMMA OtherBlocks ==
  ASSUME NEW length \in Nat \ {0}, NEW b \in Blocks(length), NEW c \in Blocks(length), b # c,
         NEW k \in 1..BlockLength(length, b), NEW m \in 1..BlockLength(length, c)
  PROVE  SymbolsBefore(length, b) + k # SymbolsBefore(length, c) + m
<1>1. /\ BlockLength(length, b) \in Nat /\ SymbolsBefore(length, b) \in Nat
      /\ BlockLength(length, c) \in Nat /\ SymbolsBefore(length, c) \in Nat
  BY BlocksFollow
<1>2. b < c \/ c < b
  BY BlockLengths DEF Blocks
<1>3. CASE b < c
  <2>1. SymbolsBefore(length, b) + BlockLength(length, b) <= SymbolsBefore(length, c)
    BY <1>3, BlocksApart
  <2> QED
    BY <1>1, <2>1
<1>4. CASE c < b
  <2>1. SymbolsBefore(length, c) + BlockLength(length, c) <= SymbolsBefore(length, b)
    BY <1>4, BlocksApart
  <2> QED
    BY <1>1, <2>1
<1> QED
  BY <1>2, <1>3, <1>4

\* decode_to has room for each symbol of a whole packet.
LEMMA RoomForWhole ==
  ASSUME NEW file \in RFile, NEW c \in Data, file.length = Length[c],
         NEW packet, NEW i, CutAt(packet, c, i), Whole(packet, file.length),
         NEW j \in 1..Len(packet.payload)
  PROVE  Written(file, packet.sbn, packet.esi + j - 1, packet.payload, j) = packet.payload[j]
<1> DEFINE length == file.length
           n == Len(packet.payload)
           sbn == packet.sbn
           e == packet.esi + j - 1
<1>1. length \in Nat \ {0} /\ length = ContentLength(c)
  BY ContentLengths
<1>2. /\ i \in 1..NofSourceSymbols(length) /\ n \in Nat \ {0} /\ i + n - 1 <= NofSourceSymbols(length)
      /\ sbn \in Blocks(length) /\ SymbolsBefore(length, sbn) + packet.esi + 1 = i
      /\ \A m \in 1..n : packet.payload[m] = [of |-> c, at |-> i + m - 1]
      /\ packet.esi \in Nat
  BY <1>1 DEF CutAt, Packet
<1>3. /\ packet.esi + n <= BlockLength(length, sbn)
      /\ n > 1 => SymbolSize(length, packet.payload[n].at) = SymbolBytes
  BY DEF Whole
<1> HIDE DEF length, n, sbn
<1>4. /\ BlockLength(length, sbn) \in Nat /\ SymbolsBefore(length, sbn) \in Nat
      /\ NofSourceSymbols(length) \in Nat
  BY <1>1, <1>2, BlocksFollow, BlockLengths
<1>5. j \in 1..n
  BY DEF n
<1>6. IsCell(length, sbn, e) /\ SymbolNumber(length, sbn, e) = i + j - 1
  BY <1>2, <1>3, <1>4, <1>5 DEF IsCell, SymbolNumber
<1> HIDE DEF e
<1>7. Room(file, sbn, e) = SymbolSize(length, i + j - 1)
  BY <1>6 DEF Room, length
<1>8. CASE n > 1
  <2>1. ReceivedSize(packet.payload) = SymbolBytes
    BY <1>8 DEF ReceivedSize, n
  <2>2. SymbolSize(length, i + j - 1) = SymbolBytes
    <3>1. CASE i + j - 1 < NofSourceSymbols(length)
      BY <3>1 DEF SymbolSize
    <3>2. CASE ~(i + j - 1 < NofSourceSymbols(length))
      <4>1. i + j - 1 = i + n - 1
        BY <1>2, <1>4, <1>5, <3>2
      <4>2. n \in 1..n
        BY <1>2
      <4>3. packet.payload[n] = [of |-> c, at |-> i + n - 1]
        BY <1>2, <4>2
      <4>4. packet.payload[n].at = i + n - 1
        BY <4>3
      <4> QED
        BY <1>3, <1>8, <4>1, <4>4
    <3> QED
      BY <3>1, <3>2
  <2>3. SymbolBytes <= SymbolBytes
    BY PartitioningAssumption
  <2> QED
    BY <1>7, <2>1, <2>2, <2>3 DEF Written, e, sbn
<1>9. CASE ~(n > 1)
  <2>1. n = 1 /\ j = 1
    BY <1>2, <1>5, <1>9
  <2>2. packet.payload[1] = [of |-> c, at |-> i + 1 - 1] /\ i + 1 - 1 = i
    BY <1>2, <2>1
  <2>3. ReceivedSize(packet.payload) = SymbolSize(length, i)
    BY <1>1, <1>9, <2>2 DEF ReceivedSize, n
  <2>4. i + j - 1 = i
    BY <1>2, <2>1
  <2>5. SymbolSize(length, i) \in Int
    <3>1. (i - 1) * SymbolBytes \in Int
      BY <1>2, PartitioningAssumption
    <3> QED
      BY <1>1, <3>1, PartitioningAssumption DEF SymbolSize
  <2> QED
    BY <1>7, <2>3, <2>4, <2>5 DEF Written, e, sbn
<1> QED
  BY <1>8, <1>9

\* The first j symbols of a whole packet of its contents are put in their cells.
LEMMA ExactPlaced ==
  ASSUME NEW file \in RFile, NEW c \in Data, file.length = Length[c], file.entry.data = c,
         NEW got, Exact(file, got),
         NEW packet, NEW i, CutAt(packet, c, i), Whole(packet, file.length),
         NEW j \in 0..Len(packet.payload),
         NEW more, more = got \cup (i..(i + j - 1))
  PROVE  /\ Exact(Placed(file, packet, 1, j), more)
         /\ Placed(file, packet, 1, j) \in RFile
         /\ Placed(file, packet, 1, j).entry = file.entry
         /\ Placed(file, packet, 1, j).length = file.length
<1> DEFINE length == file.length
           n == Len(packet.payload)
           sbn == packet.sbn
           esi == packet.esi
           put == Placed(file, packet, 1, j)
           piece(m) == [of |-> c, at |-> m]
<1>1. length \in Nat \ {0} /\ length = ContentLength(c)
  BY ContentLengths
<1>2. /\ i \in 1..NofSourceSymbols(length) /\ n \in Nat \ {0}
      /\ sbn \in Blocks(length) /\ SymbolsBefore(length, sbn) + esi + 1 = i
      /\ \A m \in 1..n : packet.payload[m] = piece(i + m - 1)
      /\ esi \in Nat /\ packet \in Packet
  BY <1>1 DEF CutAt, Packet
<1>3. esi + n <= BlockLength(length, sbn)
  BY DEF Whole
<1>4. /\ \A b \in Blocks(length) :
           BlockLength(length, b) \in Nat /\ SymbolsBefore(length, b) \in Nat
      /\ NofSourceSymbols(length) \in Nat /\ NofSourceBlocks(length) \in Nat
  BY <1>1, BlocksFollow, BlockLengths
<1>5. /\ Len(file.blocks) = NofSourceBlocks(length)
      /\ \A b \in Blocks(length) : Len(file.blocks[b + 1]) = BlockLength(length, b)
      /\ \A b \in Blocks(length) : \A k \in 1..BlockLength(length, b) :
           file.blocks[b + 1][k] =
             IF SymbolsBefore(length, b) + k \in got THEN piece(SymbolsBefore(length, b) + k) ELSE Open
  BY DEF Exact
<1> DEFINE old == file.blocks[sbn + 1]
           len == BlockLength(length, sbn)
           cell(k) == IF k - esi \in 1..j /\ (k > len \/ old[k] = Open)
                      THEN Written(file, sbn, k - 1, packet.payload, k - esi)
                      ELSE old[k]
           new == [k \in 1..len |-> cell(k)]
<1>6. sbn \in Nat /\ sbn < Len(file.blocks) /\ TargetBlock(file, packet) = old /\ Len(old) = len
  <2>1. sbn \in Nat /\ sbn < Len(file.blocks)
    BY <1>2, <1>4, <1>5 DEF Blocks
  <2> QED
    BY <1>2, <1>5, <2>1 DEF TargetBlock
<1>7. Max({Len(old), esi + j}) = len
  <2>1. len \in Nat /\ esi + j \in Nat /\ esi + j <= len
    BY <1>2, <1>3, <1>4
  <2> HIDE DEF len, old
  <2> QED
    BY <1>6, <2>1, MaxOfTwo
<1>8. put = [file EXCEPT !.blocks = [file.blocks EXCEPT ![sbn + 1] = new]]
  BY <1>6, <1>7 DEF Placed
<1>9. /\ put \in RFile /\ put.entry = file.entry /\ put.length = file.length
  <2>1. /\ j <= n /\ j \in Nat /\ sbn <= Len(file.blocks) /\ 1 \in Nat \ {0}
        /\ esi + 1 - 1 <= Len(TargetBlock(file, packet))
    BY <1>2, <1>3, <1>4, <1>5, <1>6
  <2>2. Grown(file, put)
    BY <1>2, <2>1, PlacedIs
  <2> QED
    BY <2>2 DEF Grown
<1>10. file.blocks \in Seq(Seq(Cell)) /\ sbn + 1 \in 1..Len(file.blocks)
  BY <1>6, BlocksType
<1>11. /\ Len(put.blocks) = Len(file.blocks) /\ put.blocks[sbn + 1] = new
       /\ \A b \in Blocks(length) : b # sbn => put.blocks[b + 1] = file.blocks[b + 1]
  <2>1. put.blocks = [file.blocks EXCEPT ![sbn + 1] = new]
    BY <1>8 DEF RFile
  <2>2. ASSUME NEW b \in Blocks(length), b # sbn
        PROVE  b + 1 \in 1..Len(file.blocks) /\ b + 1 # sbn + 1
    BY <1>4, <1>5, <1>6, <2>2 DEF Blocks
  <2> HIDE DEF new, put
  <2>3. /\ Len(put.blocks) = Len(file.blocks) /\ put.blocks[sbn + 1] = new
        /\ \A b \in 1..Len(file.blocks) : b # sbn + 1 => put.blocks[b] = file.blocks[b]
    BY <1>10, <2>1
  <2> QED
    BY <2>2, <2>3
<1>12. Len(new) = len /\ \A k \in 1..len : new[k] = cell(k)
  <2>1. len \in Nat
    BY <1>2, <1>4
  <2> HIDE DEF len, cell
  <2> QED
    BY <2>1
<1>13. ASSUME NEW k \in 1..len
       PROVE  cell(k) = IF SymbolsBefore(length, sbn) + k \in more
                        THEN piece(SymbolsBefore(length, sbn) + k) ELSE Open
  <2> DEFINE before == SymbolsBefore(length, sbn)
  <2>1. before \in Nat /\ before + esi + 1 = i /\ len \in Nat /\ i \in Nat
    BY <1>2, <1>4
  <2>2. old[k] = IF before + k \in got THEN piece(before + k) ELSE Open
    BY <1>2, <1>5
  <2> HIDE DEF before, len, old, piece
  <2>3. before + k \in i..(i + j - 1) <=> k - esi \in 1..j
    <3>1. esi \in Nat /\ j \in Nat /\ k \in Nat
      BY <1>2, <2>1
    <3> HIDE DEF esi
    <3> QED
      BY <2>1, <3>1
  <2>4. CASE k - esi \in 1..j
    <3>1. before + k \in more
      BY <2>3, <2>4
    <3>2. CASE old[k] = Open
      <4> DEFINE m == k - esi
      <4>1. m \in 1..n /\ k - 1 = esi + m - 1 /\ i + m - 1 = before + k
        <5>1. n \in Nat /\ esi \in Nat /\ j <= n /\ j \in Nat
          BY <1>2
        <5> HIDE DEF n, esi
        <5> QED
          BY <2>1, <2>4, <5>1
      <4> HIDE DEF m
      <4>2. Written(file, sbn, esi + m - 1, packet.payload, m) = packet.payload[m]
        BY <4>1, RoomForWhole
      <4>3. packet.payload[m] = piece(before + k)
        BY <1>2, <4>1
      <4>4. cell(k) = Written(file, sbn, k - 1, packet.payload, m)
        BY <2>4, <3>2 DEF m
      <4> QED
        BY <3>1, <4>1, <4>2, <4>3, <4>4 DEF before
    <3>3. CASE old[k] # Open
      <4>1. cell(k) = old[k]
        BY <2>1, <3>3
      <4> QED
        BY <2>2, <3>1, <3>3, <4>1 DEF before
    <3> QED
      BY <3>2, <3>3
  <2>5. CASE k - esi \notin 1..j
    <3>1. before + k \in more <=> before + k \in got
      BY <2>3, <2>5
    <3>2. cell(k) = old[k]
      BY <2>5
    <3> QED
      BY <2>2, <3>1, <3>2 DEF before
  <2> QED
    BY <2>4, <2>5
<1>14. ASSUME NEW b \in Blocks(length), b # sbn, NEW k \in 1..BlockLength(length, b)
       PROVE  SymbolsBefore(length, b) + k \in more <=> SymbolsBefore(length, b) + k \in got
  <2> DEFINE x == SymbolsBefore(length, b) + k
             before == SymbolsBefore(length, sbn)
  <2> SUFFICES ASSUME x \in i..(i + j - 1) PROVE FALSE
    OBVIOUS
  <2>1. before \in Nat /\ SymbolsBefore(length, b) \in Nat /\ k \in Nat /\ len \in Nat
    BY <1>2, <1>4
  <2>2. x - before \in 1..len /\ before + (x - before) = x
    <3> HIDE DEF len, before
    <3>1. x \in Nat
      BY <2>1
    <3>2. before + esi + 1 = i /\ esi + n <= len /\ esi \in Nat /\ n \in Nat /\ j \in Nat /\ j <= n /\ i \in Nat
      BY <1>2, <1>3 DEF len, before
    <3> HIDE DEF x, esi, n
    <3> QED
      BY <2>1, <3>1, <3>2
  <2> HIDE DEF x
  <2>3. before + (x - before) # x
    BY <1>1, <1>2, <1>14, <2>2, OtherBlocks DEF x
  <2> QED
    BY <2>2, <2>3
<1>15. ASSUME NEW b \in Blocks(length)
       PROVE  /\ Len(put.blocks[b + 1]) = BlockLength(length, b)
              /\ \A k \in 1..BlockLength(length, b) :
                   put.blocks[b + 1][k] =
                     IF SymbolsBefore(length, b) + k \in more
                     THEN piece(SymbolsBefore(length, b) + k) ELSE Open
  <2>1. CASE b = sbn
    <3> HIDE DEF put, new, cell, piece
    <3> QED
      BY <1>11, <1>12, <1>13, <2>1
  <2>2. CASE b # sbn
    <3> HIDE DEF put, piece
    <3> QED
      BY <1>5, <1>11, <1>14, <2>2
  <2> QED
    BY <2>1, <2>2
<1> HIDE DEF put
<1>16. Exact(put, more)
  BY <1>5, <1>9, <1>11, <1>15 DEF Exact
<1> QED
  BY <1>9, <1>16 DEF put

\* Its symbols put, a file has the cells of those that arrived.
LEMMA ExactPut ==
  ASSUME NEW file \in RFile, NEW c \in Data, file.length = Length[c], file.entry.data = c,
         NEW got, Exact(file, got),
         NEW packet, NEW i, CutAt(packet, c, i), Whole(packet, file.length)
  PROVE  /\ Exact(PutSymbols(file, packet), got \cup Ats(packet))
         /\ PutSymbols(file, packet) \in RFile
         /\ PutSymbols(file, packet).entry = file.entry
         /\ PutSymbols(file, packet).length = file.length
<1> DEFINE n == Len(packet.payload)
           after(j) == Placed(file, packet, 1, j)
           filling == {j \in 1..n : AllIn(after(j)) /\ ~AllIn(after(j - 1))}
<1>1. file.length \in Nat \ {0}
  BY ContentLengths
<1>2. /\ n \in Nat \ {0} /\ i \in Nat /\ packet.payload \in Seq(Piece)
      /\ \A j \in 1..n : packet.payload[j] = [of |-> c, at |-> i + j - 1]
  BY DEF CutAt, Packet
<1>3. ASSUME NEW j \in 0..n
      PROVE  /\ Exact(after(j), got \cup (i..(i + j - 1)))
             /\ after(j) \in RFile
             /\ after(j).entry = file.entry
             /\ after(j).length = file.length
  <2>1. j \in 0..Len(packet.payload)
    OBVIOUS
  <2> DEFINE put == Placed(file, packet, 1, j)
             more == got \cup (i..(i + j - 1))
  <2> HIDE DEF more
  <2>2. more = got \cup (i..(i + j - 1))
    BY DEF more
  <2>3. Exact(put, more)
    BY <2>1, <2>2, ExactPlaced, ZenonT(60)
  <2>4. put \in RFile /\ put.entry = file.entry /\ put.length = file.length
    BY <2>1, <2>2, <2>3, ExactPlaced
  <2> QED
    BY <2>3, <2>4 DEF more
<1>4. ASSUME NEW j \in filling PROVE Verified(after(j))
  <2>1. j \in 0..n /\ AllIn(after(j))
    BY <1>2
  <2>2. /\ Exact(after(j), got \cup (i..(i + j - 1)))
        /\ after(j) \in RFile /\ after(j).entry = file.entry /\ after(j).length = file.length
    BY <1>3, <2>1
  <2> HIDE DEF after
  <2>3. Holds(after(j), after(j).entry.data)
    BY <1>1, <2>1, <2>2, ExactHolds
  <2> QED
    BY <2>3 DEF Verified
<1>5. PutSymbols(file, packet) = after(n)
  BY <1>4 DEF PutSymbols
<1>6. Ats(packet) = i..(i + n - 1)
  <2>1. DOMAIN packet.payload = 1..n
    BY <1>2
  <2>2. ASSUME NEW j \in 1..n PROVE packet.payload[j].at = i + j - 1
    <3>1. packet.payload[j] = [of |-> c, at |-> i + j - 1]
      BY <1>2
    <3> QED
      BY <3>1
  <2>3. Ats(packet) = {i + j - 1 : j \in 1..n}
    BY <2>1, <2>2 DEF Ats
  <2> HIDE DEF n
  <2>7. n \in Nat \ {0} /\ i \in Nat
    BY <1>2
  <2>4. \A x \in i..(i + n - 1) : x - i + 1 \in 1..n /\ x = i + (x - i + 1) - 1
    BY <2>7
  <2>5. \A j \in 1..n : i + j - 1 \in i..(i + n - 1)
    BY <2>7
  <2>6. i..(i + n - 1) \subseteq {i + j - 1 : j \in 1..n}
    BY <2>4
  <2> QED
    BY <2>3, <2>5, <2>6
<1>7. n \in 0..n
  BY <1>2
<1> HIDE DEF after, filling, n
<1> QED
  BY <1>3, <1>5, <1>6, <1>7

\* The packet a file object sends, in the terms of its contents.
LEMMA OnAirFile ==
  ASSUME SenderInv, NEW packet \in OnAir, packet.toi # 0
  PROVE  \E e \in Offered :
           /\ e \in objects /\ e \in Entry /\ packet.toi = e.toi /\ CutFrom(packet, e.data)
           /\ \E i : CutAt(packet, e.data, i)
           /\ SentWhole(e.data) => Whole(packet, Length[e.data])
<1>1. docs \subseteq Document /\ objects \subseteq Entry /\ objects \subseteq Offered
  BY DEF SenderInv, SenderTypeOK
<1>2. \/ \E d \in docs : packet \in PacketsOf(0, d.instance, d)
      \/ \E e \in objects : packet \in PacketsOf(e.toi, 0, e.data)
  BY DEF OnAir
<1>3. ~ \E d \in docs : packet \in PacketsOf(0, d.instance, d)
  <2> SUFFICES ASSUME NEW d \in docs, packet \in PacketsOf(0, d.instance, d) PROVE FALSE
    OBVIOUS
  <2>1. 0 \in Toi /\ d.instance \in Nat /\ d \in Data \cup Document
    BY <1>1, Tois DEF Document
  <2> QED
    BY <2>1, PacketIsCut
<1>4. PICK e \in objects : packet \in PacketsOf(e.toi, 0, e.data)
  BY <1>2, <1>3
<1>5. e \in Entry /\ e \in Offered /\ e.toi \in Toi /\ e.data \in Data
  BY <1>1, Tois DEF Entry
<1>6. packet.toi = e.toi /\ CutFrom(packet, e.data)
  <2>1. 0 \in Nat /\ e.data \in Data \cup Document
    BY <1>5
  <2> QED
    BY <1>4, <1>5, <2>1, PacketIsCut
<1>7. (\E i : CutAt(packet, e.data, i)) /\ (SentWhole(e.data) => Whole(packet, Length[e.data]))
  BY <1>4, <1>5, PacketCutAt
<1> QED
  BY <1>4, <1>5, <1>6, <1>7

\* A file whose cells are open or have their own piece, and that is complete, decodes to
\* its contents.
LEMMA ExactDecoded ==
  ASSUME NEW file \in RFile, file.length \in Nat \ {0}, file.entry.data \in Data,
         NEW got, Exact(file, got), Complete(file)
  PROVE  /\ Holds(file, file.entry.data) /\ Contents(file) = file.entry.data
         /\ Decoded(file) = file
<1>1. Holds(file, file.entry.data)
  BY ExactHolds DEF Complete
<1>2. Contents(file) = file.entry.data
  BY <1>1, OneContents
<1> QED
  BY <1>1, <1>2 DEF Decoded

-----------------------------------------------------------------------------
(* The cells of the files, step by step *)

\* A TOI has had one contents.
SoleContents(toi) == \A e, f \in Offered : e.toi = toi /\ f.toi = toi => e.data = f.data

\* The symbols that arrived of a file, whose TOI had one contents and whose packets are
\* whole, are in their cells, and the other cells are open.
ExactInv ==
  status # "threw" =>
    \A toi \in 1..ToiMax :
      rfiles[toi] # None /\ SoleContents(toi) /\ SentWhole(rfiles[toi].entry.data)
        => Exact(rfiles[toi], arrived[toi])

\* The symbols of a packet are put in a file of the contents they are of.
LEMMA ExactWith ==
  ASSUME FdtInv, NEW packet \in OnAir, packet.toi # 0, Wanted(packet),
         ~OutOfRange(FilesFor(packet)[packet.toi], packet),
         SoleContents(packet.toi), SentWhole(rfiles[packet.toi].entry.data),
         NEW got, Exact(rfiles[packet.toi], got)
  PROVE  /\ Exact(FilesWith(packet)[packet.toi], got \cup Ats(packet))
         /\ FilesWith(packet)[packet.toi] \in RFile
         /\ FilesWith(packet)[packet.toi].entry = rfiles[packet.toi].entry
         /\ FilesWith(packet)[packet.toi].length = Length[rfiles[packet.toi].entry.data]
         /\ rfiles[packet.toi].entry.data \in Data
<1> DEFINE own == packet.toi
           file == rfiles[own]
<1>1. /\ SenderInv /\ FilesOK(rfiles, Offered) /\ Offered \subseteq Entry /\ Usable(packet)
  BY OnAirUsable DEF FdtInv, SessionTypeInv, SenderInv, SenderTypeOK, Offered, Document
<1>2. own \in 1..ToiMax /\ own \in Toi /\ rfiles \in [Toi -> RFile \cup {None}]
      /\ FilesFor(packet) = rfiles
  BY <1>1, Tois DEF Usable, Packet, FilesFor, FilesOK
<1>3. file # None
  BY <1>2 DEF Wanted
<1>4. file \in RFile /\ WellMade(file, own, Offered)
  BY <1>1, <1>2, <1>3 DEF FilesOK
<1>5. PICK e \in Offered :
        /\ e \in Entry /\ own = e.toi
        /\ \E i : CutAt(packet, e.data, i)
        /\ SentWhole(e.data) => Whole(packet, Length[e.data])
  BY <1>1, OnAirFile
<1>6. FilesWith(packet)[own] = PutSymbols(file, packet)
  BY <1>2 DEF FilesWith
<1> DEFINE c == e.data
<1>7. file.entry.data = c /\ file.length = Length[c] /\ c \in Data
  <2>1. file.entry \in Offered /\ file.entry.toi = own /\ file.length = Length[file.entry.data]
    BY <1>4 DEF WellMade
  <2>2. file.entry.data = c
    BY <1>5, <2>1 DEF SoleContents
  <2> QED
    BY <1>5, <2>1, <2>2 DEF Entry
<1>8. Exact(file, got) /\ SentWhole(c)
  BY <1>7
<1> HIDE DEF c, file, own
<1>9. Whole(packet, file.length)
  BY <1>5, <1>7, <1>8 DEF c
<1>10. PICK i : CutAt(packet, c, i)
  BY <1>5 DEF c
<1> DEFINE put == PutSymbols(file, packet)
<1>11. /\ Exact(put, got \cup Ats(packet))
       /\ put \in RFile /\ put.entry = file.entry /\ put.length = file.length
  BY <1>4, <1>7, <1>8, <1>9, <1>10, ExactPut
<1> QED
  BY <1>6, <1>7, <1>11 DEF file, own

\* What becomes of the files when symbols of one are put.
LEMMA PutFiles ==
  ASSUME NEW E \in SUBSET Entry, FilesOK(rfiles, E), NEW packet, Usable(packet), packet.toi # 0,
         KeepSymbols(packet) \/ KeepComplete(packet) \/ HandOver(packet)
  PROVE  /\ Wanted(packet) /\ ~OutOfRange(FilesFor(packet)[packet.toi], packet)
         /\ packet.toi \in 1..ToiMax /\ rfiles[packet.toi] # None
         /\ \A toi \in 1..ToiMax : toi # packet.toi => rfiles'[toi] \in {rfiles[toi], None}
         /\ \/ KeepSymbols(packet) /\ rfiles'[packet.toi] = FilesWith(packet)[packet.toi]
            \/ HandOver(packet) /\ rfiles'[packet.toi] = None
            \/ /\ KeepComplete(packet) /\ Complete(FilesWith(packet)[packet.toi])
               /\ rfiles'[packet.toi] = Decoded(FilesWith(packet)[packet.toi])
<1> DEFINE own == packet.toi
<1>1. FilesFor(packet) = rfiles /\ own \in 1..ToiMax /\ own \in Toi /\ 1..ToiMax \subseteq Toi
  BY Tois DEF FilesFor, Usable, Packet
<1>2. Wanted(packet) /\ ~OutOfRange(FilesFor(packet)[own], packet)
  BY DEF KeepSymbols, KeepComplete, HandOver, Fills
<1>3. rfiles[own] # None
  BY <1>1, <1>2 DEF Wanted
<1>4. \A toi \in Toi : toi # own => FilesWith(packet)[toi] = rfiles[toi]
  BY <1>1, <1>2, FilesWithOK
<1>5. CASE KeepSymbols(packet)
  <2>1. rfiles' = FilesWith(packet)
    BY <1>5 DEF KeepSymbols
  <2> QED
    BY <1>1, <1>2, <1>3, <1>4, <1>5, <2>1
<1>6. CASE KeepComplete(packet) \/ HandOver(packet)
  <2> DEFINE left == FilesLeft(packet)
  <2>1. Fills(packet)
    BY <1>6 DEF KeepComplete, HandOver
  <2>2. left \in [Toi -> RFile \cup {None}] /\ left[own] = FilesWith(packet)[own]
    BY <2>1, FilesLeftOK DEF FilesOK
  <2>3. \A toi \in 1..ToiMax : toi # own => left[toi] \in {rfiles[toi], None}
    <3>1. \A toi \in Toi : left[toi] \in {FilesWith(packet)[toi], None}
      BY DEF FilesLeft, WithoutReplaced
    <3> QED
      BY <1>1, <1>4, <3>1
  <2>4. CASE KeepComplete(packet)
    <3>1. rfiles' = [left EXCEPT ![own] = Decoded(left[own])]
      BY <2>4 DEF KeepComplete
    <3> HIDE DEF left
    <3>2. rfiles'[own] = Decoded(left[own]) /\ \A toi \in Toi : toi # own => rfiles'[toi] = left[toi]
      BY <1>1, <2>2, <3>1
    <3>3. Complete(FilesWith(packet)[own])
      BY <2>1 DEF Fills, Completes
    <3> QED
      BY <1>1, <1>2, <1>3, <2>2, <2>3, <2>4, <3>2, <3>3
  <2>5. CASE HandOver(packet)
    <3>1. rfiles' = [left EXCEPT ![own] = None]
      BY <2>5 DEF HandOver
    <3> HIDE DEF left
    <3>2. rfiles'[own] = None /\ \A toi \in Toi : toi # own => rfiles'[toi] = left[toi]
      BY <1>1, <2>2, <3>1
    <3> QED
      BY <1>1, <1>2, <1>3, <2>3, <2>5, <3>2
  <2> QED
    BY <1>6, <2>4, <2>5
<1> QED
  BY <1>5, <1>6

\* The record of what arrived for a file that goes on.
LEMMA RecordedIs ==
  ASSUME NEW packet, RecordArrival(packet), NEW toi \in 1..ToiMax,
         rfiles[toi] # None, rfiles'[toi] # None
  PROVE  arrived'[toi] = IF packet.toi = toi THEN arrived[toi] \cup Ats(packet) ELSE arrived[toi]
<1>1. toi \in Toi
  BY Tois
<1> QED
  BY <1>1 DEF RecordArrival, Ats

\* A packet of a file keeps its file exact, and the others.
LEMMA FilePacketExact ==
  ASSUME FdtInv, ExactInv, NEW packet \in OnAir, packet.toi # 0,
         KeepSymbols(packet) \/ KeepComplete(packet) \/ HandOver(packet),
         RecordArrival(packet), docs' = docs
  PROVE  ExactInv'
<1> DEFINE own == packet.toi
<1>1. FilesOK(rfiles, Offered) /\ Offered \in SUBSET Entry /\ Usable(packet) /\ SenderInv
  BY OnAirUsable DEF FdtInv, SessionTypeInv, SenderInv, SenderTypeOK, Offered, Document
<1>2. /\ Wanted(packet) /\ ~OutOfRange(FilesFor(packet)[own], packet)
      /\ own \in 1..ToiMax /\ rfiles[own] # None
      /\ \A toi \in 1..ToiMax : toi # own => rfiles'[toi] \in {rfiles[toi], None}
      /\ \/ KeepSymbols(packet) /\ rfiles'[own] = FilesWith(packet)[own]
         \/ HandOver(packet) /\ rfiles'[own] = None
         \/ /\ KeepComplete(packet) /\ Complete(FilesWith(packet)[own])
            /\ rfiles'[own] = Decoded(FilesWith(packet)[own])
  BY <1>1, PutFiles
<1>3. \A toi : SoleContents(toi)' <=> SoleContents(toi)
  BY DEF SoleContents, Offered
<1>4. status = "listening"
  BY DEF KeepSymbols, KeepComplete, HandOver, Fills, Handles
<1>5. ASSUME NEW toi \in 1..ToiMax, rfiles'[toi] # None, SoleContents(toi),
             SentWhole(rfiles'[toi].entry.data)
      PROVE  Exact(rfiles'[toi], arrived'[toi])
  <2>1. CASE toi # own
    <3>1. rfiles'[toi] = rfiles[toi] /\ arrived'[toi] = arrived[toi]
      BY <1>2, <1>5, <2>1, RecordedIs
    <3> QED
      BY <1>4, <1>5, <3>1 DEF ExactInv
  <2>2. CASE toi = own
    <3> DEFINE with == FilesWith(packet)[own]
               got == arrived[own] \cup Ats(packet)
    <3>1. rfiles'[own] \in {with, Decoded(with)}
      BY <1>2, <1>5, <2>2
    <3>2. with \in RFile /\ with.entry = rfiles[own].entry
      BY <1>1, <1>2, FilesWithOK, Zenon DEF FilesFor
    <3>3. rfiles'[own].entry = rfiles[own].entry
      <4> HIDE DEF with
      <4>1. Grown(with, Decoded(with))
        BY <3>2, DecodedIs
      <4> QED
        BY <3>1, <3>2, <4>1 DEF Grown
    <3>4. Exact(rfiles[own], arrived[own])
      BY <1>2, <1>4, <1>5, <2>2, <3>3 DEF ExactInv
    <3>5. /\ Exact(with, got) /\ with.length = Length[rfiles[own].entry.data]
          /\ rfiles[own].entry.data \in Data
      BY <1>2, <1>5, <2>2, <3>3, <3>4, ExactWith
    <3>6. arrived'[own] = got
      BY <1>2, <1>5, <2>2, RecordedIs
    <3> HIDE DEF with, got
    <3>7. with.length \in Nat \ {0} /\ with.entry.data \in Data
      BY <3>2, <3>5, ReceiverAssumption
    <3>8. rfiles'[own] = with
      <4>1. Complete(with) => Decoded(with) = with
        BY <3>2, <3>5, <3>7, ExactDecoded
      <4> QED
        BY <1>2, <1>5, <2>2, <4>1 DEF with
    <3> QED
      BY <2>2, <3>5, <3>6, <3>8
  <2> QED
    BY <2>1, <2>2
<1> QED
  BY <1>3, <1>5 DEF ExactInv

\* What is left when an FDT document is complete: files as they were.
LEMMA FilesLeftByFdt ==
  ASSUME NEW E \in SUBSET Entry, FilesOK(rfiles, E), NEW packet, Usable(packet), packet.toi = 0,
         Fills(packet)
  PROVE  \A toi \in 1..ToiMax : FilesLeft(packet)[toi] \in {rfiles[toi], None}
<1>1. \A toi \in 1..ToiMax : FilesFor(packet)[toi] = rfiles[toi]
  BY FilesForOK
<1>2. \A toi \in Toi : toi # packet.toi => FilesWith(packet)[toi] = FilesFor(packet)[toi]
  BY FilesWithOK DEF Fills
<1>3. \A toi \in Toi : FilesLeft(packet)[toi] \in {FilesWith(packet)[toi], None}
  BY DEF FilesLeft, WithoutReplaced
<1>4. \A toi \in 1..ToiMax : toi \in Toi /\ toi # 0
  BY Tois
<1> QED
  BY <1>1, <1>2, <1>3, <1>4

\* Of the files an FDT starts no symbols arrived, and the others go on.
LEMMA TakesExact ==
  ASSUME OneSymbolFdts, FdtInv, ExactInv, NEW packet \in OnAir, Takes(packet), docs' = docs
  PROVE  ExactInv'
<1>1. TakeFdt(packet, docs) /\ Receive(packet, docs) /\ packet.toi = 0
  BY DEF Takes, Receive, TakeFdt
<1>2. /\ arrived' = [toi \in Toi |-> IF FilesLeft(packet)[toi] = None THEN {} ELSE arrived[toi]]
      /\ Fills(packet) /\ status = "listening"
  BY DEF Takes, TakeFdt, Fills, Handles
<1>3. /\ SenderInv /\ docs \subseteq Document /\ Usable(packet)
      /\ FilesOK(rfiles, Offered) /\ Offered \in SUBSET Entry
  BY OnAirUsable DEF FdtInv, SessionTypeInv, SenderInv, SenderTypeOK, Offered, Document
<1>4. PICK d \in docs :
        /\ packet \in PacketsOf(0, d.instance, d)
        /\ packet.instance = d.instance /\ packet.length = FdtLength(d.entries)
  BY <1>1, <1>3, OnAirIs, Tois DEF SenderInv, SenderTypeOK, Entry
<1>5. \A toi : SoleContents(toi)' <=> SoleContents(toi)
  BY DEF SoleContents, Offered
<1>6. \A toi \in 1..ToiMax : FilesLeft(packet)[toi] \in {rfiles[toi], None}
  BY <1>1, <1>2, <1>3, FilesLeftByFdt
<1>7. \A toi \in 1..ToiMax : toi \in Toi /\ toi # 0
  BY Tois
<1>8. CASE UNCHANGED receiverVars
  <2>1. rfiles' = rfiles
    BY <1>8 DEF receiverVars
  <2>2. PICK entries \in Tables(FilesLeft(packet)[0], docs) :
          IF entries = None THEN rfiles' = FilesLeft(packet)
          ELSE rfdt' = [instance |-> packet.instance, entries |-> entries]
    BY <1>1 DEF TakeFdt
  <2>3. rfdt # None /\ rfdt.instance = packet.instance
    <3>1. rfdt' = rfdt
      BY <1>8 DEF receiverVars
    <3>2. entries # None /\ rfdt = [instance |-> packet.instance, entries |-> entries]
      <4>1. FilesLeft(packet)[0] \in RFile
        BY <1>1, <1>2, <1>3, FilesLeftOK
      <4>2. rfiles[0] = None
        BY DEF FdtInv
      <4>3. FilesLeft(packet) # rfiles
        BY <4>1, <4>2, NoneAssumption
      <4> QED
        BY <2>1, <2>2, <3>1, <4>3
    <3>3. rfdt \in Document
      BY <1>3, <3>2, TablesAre DEF Document, Usable, Packet
    <3> QED
      BY <3>2, <3>3, NoneAssumption
  <2>4. ~Wanted(packet)
    BY <1>1, <2>3 DEF Wanted, FilesFor, FdtInv
  <2> QED
    BY <1>2, <2>4 DEF Fills
<1>9. CASE TakesDocument(packet, d)
  <2>1. PICK S \in FirstEntries(d.entries) :
          rfiles' = WithStarted([FilesLeft(packet) EXCEPT ![0] = None], S)
    BY <1>9 DEF TakesDocument
  <2>2. S \subseteq Entry
    BY <1>3, <2>1 DEF FirstEntries, Document
  <2> DEFINE left == FilesLeft(packet)
             first(toi) == CHOOSE e \in S : e.toi = toi
  <2>3. left \in [Toi -> RFile \cup {None}]
    BY <1>2, <1>3, FilesLeftOK DEF FilesOK
  <2>4. ASSUME NEW toi \in 1..ToiMax, rfiles'[toi] # None
        PROVE  \/ left[toi] # None /\ rfiles'[toi] = left[toi]
               \/ left[toi] = None /\ \E e \in Entry : rfiles'[toi] = FileFor(e)
    <3>1. [left EXCEPT ![0] = None][toi] = left[toi]
      BY <1>7, <2>3
    <3>2. \/ rfiles'[toi] = left[toi]
          \/ left[toi] = None /\ (\E e \in S : e.toi = toi) /\ rfiles'[toi] = FileFor(first(toi))
      BY <1>7, <2>1, <3>1 DEF WithStarted
    <3>3. (\E e \in S : e.toi = toi) => first(toi) \in Entry
      BY <2>2
    <3> QED
      BY <2>4, <3>2, <3>3
  <2>5. ASSUME NEW toi \in 1..ToiMax, rfiles'[toi] # None, SoleContents(toi),
               SentWhole(rfiles'[toi].entry.data)
        PROVE  Exact(rfiles'[toi], arrived'[toi])
    <3>1. CASE left[toi] # None /\ rfiles'[toi] = left[toi]
      <4>1. rfiles'[toi] = rfiles[toi] /\ rfiles[toi] # None
        BY <1>6, <3>1
      <4>2. arrived'[toi] = arrived[toi]
        BY <1>2, <1>7, <3>1
      <4> QED
        BY <1>2, <2>5, <4>1, <4>2 DEF ExactInv
    <3>2. CASE left[toi] = None /\ \E e \in Entry : rfiles'[toi] = FileFor(e)
      <4>1. arrived'[toi] = {}
        BY <1>2, <1>7, <3>2
      <4> QED
        BY <3>2, <4>1, ExactNew
    <3> QED
      BY <2>4, <2>5, <3>1, <3>2
  <2> QED
    BY <1>5, <2>5 DEF ExactInv
<1> QED
  BY <1>1, <1>3, <1>4, <1>8, <1>9, FdtPacket

\* A file that was given up has no symbols when it is started again.
LEMMA CallsExact ==
  ASSUME FdtInv, ExactInv, MCCalls
  PROVE  ExactInv'
<1>1. docs' = docs /\ status' = status /\ ReceiverCalls
  BY DEF MCCalls, Calls, ReceiverCalls, RegisterCallback, Stop, RemoveExpired, RemoveLocation,
     senderVars
<1>2. \A toi \in 1..ToiMax : rfiles'[toi] \in {rfiles[toi], None}
  <2>1. \A tois : \A toi \in 1..ToiMax : Without(tois)[toi] \in {rfiles[toi], None}
    BY Tois DEF Without
  <2> QED
    BY <1>1, <2>1 DEF ReceiverCalls, RegisterCallback, Stop, RemoveExpired, RemoveLocation
<1>3. \A toi \in 1..ToiMax : rfiles'[toi] # None => arrived'[toi] = arrived[toi]
  BY Tois DEF MCCalls
<1>4. \A toi : SoleContents(toi)' <=> SoleContents(toi)
  BY <1>1 DEF SoleContents, Offered
<1> QED
  BY <1>1, <1>2, <1>3, <1>4 DEF ExactInv

LEMMA StepExact ==
  ASSUME OneSymbolFdts, FdtInv, ExactInv, [MCNext]_mcVars
  PROVE  ExactInv'
<1>1. SenderInv
  BY DEF FdtInv, SessionTypeInv
<1>2. CASE UNCHANGED <<rfiles, arrived>> /\ (status = "threw" => status' = "threw")
  <2>1. Offered \subseteq Offered'
    BY <1>1, SessionSteps, RecordsGrow
  <2>2. \A toi : SoleContents(toi)' => SoleContents(toi)
    BY <2>1 DEF SoleContents
  <2> QED
    BY <1>2, <2>2 DEF ExactInv
<1>3. CASE MCSends \/ UNCHANGED mcVars
  BY <1>2, <1>3 DEF MCSends, Sends, Restart, mcVars, sessionVars, receiverVars
<1>4. CASE MCCalls
  BY <1>4, CallsExact
<1>5. CASE MCReceives
  <2>1. docs' = docs
    BY <1>1, <1>5, SenderAlone DEF MCReceives
  <2>2. ASSUME NEW packet \in OnAir, Takes(packet) PROVE ExactInv'
    BY <2>1, <2>2, TakesExact
  <2>3. ASSUME NEW packet \in OnAir, HandsOver(packet) PROVE ExactInv'
    <3>1. HandOver(packet) /\ packet.toi # 0 /\ RecordArrival(packet)
      BY <2>3 DEF HandsOver, HandOver
    <3> QED
      BY <2>1, <3>1, FilePacketExact
  <2>4. ASSUME NEW packet \in OnAir, OtherwiseReceives(packet) PROVE ExactInv'
    <3>1. CASE packet.toi = 0
      <4>1. UNCHANGED receiverVars
        BY <2>4, <3>1, OtherwisePasses
      <4>2. \A toi \in 1..ToiMax : rfiles[toi] # None => arrived'[toi] = arrived[toi]
        <5>1. \A toi \in 1..ToiMax : toi \in Toi /\ toi # 0
          BY Tois
        <5> QED
          BY <2>4, <3>1, <4>1, <5>1 DEF OtherwiseReceives, RecordArrival, receiverVars
      <4>3. \A toi : SoleContents(toi)' <=> SoleContents(toi)
        BY <2>1 DEF SoleContents, Offered
      <4> QED
        BY <4>1, <4>2, <4>3 DEF ExactInv, receiverVars
    <3>2. CASE packet.toi # 0
      <4>1. CASE KeepSymbols(packet) \/ KeepComplete(packet)
        BY <2>1, <2>4, <3>2, <4>1, FilePacketExact DEF OtherwiseReceives
      <4>2. CASE RefuseSymbols(packet) \/ FailDecode(packet)
        BY <4>2 DEF RefuseSymbols, FailDecode, Throw, ExactInv
      <4> QED
        BY <2>4, <4>1, <4>2 DEF OtherwiseReceives
    <3> QED
      BY <3>1, <3>2
  <2>5. ASSUME NEW packet \in OnAir, Discards(packet) PROVE ExactInv'
    BY <1>2, <2>5 DEF Discards, Discard, receiverVars
  <2>6. CASE (ReceiveAfterStop \/ ReceiveFails) /\ UNCHANGED <<handed, removed, arrived>>
    BY <1>2, <2>6 DEF ReceiveAfterStop, ReceiveFails
  <2> QED
    BY <1>5, <2>2, <2>3, <2>4, <2>5, <2>6 DEF MCReceives
<1> QED
  BY <1>3, <1>4, <1>5 DEF MCNext

LEMMA InitExact == MCInit => FdtInv /\ ExactInv
<1>1. MCInit => \A toi \in 1..ToiMax : rfiles[toi] = None
  BY Tois DEF MCInit, SessionInit, ReceiverInit
<1> QED
  BY <1>1, FdtInvInit DEF MCInit, ExactInv

\* A file whose symbols all arrived is complete, in whatever order, how often and between
\* which other packets: put_symbol files each in its cell, and the check of the contents
\* never opens the cells of one whose symbols are its own.
THEOREM ReceivedFilesComplete ==
  ASSUME OneSymbolFdts
  PROVE  MCSpec => []ReceivedFileIsComplete
<1>1. MCInit => FdtInv /\ ExactInv
  BY InitExact
<1>2. FdtInv /\ ExactInv /\ [MCNext]_mcVars => FdtInv' /\ ExactInv'
  BY SessionSteps, FdtInvNext, StepExact
<1>3. FdtInv /\ ExactInv => ReceivedFileIsComplete
  <2> SUFFICES ASSUME FdtInv, ExactInv, status # "threw", ~TwoFilesOneToi,
                      NEW toi \in 1..ToiMax, rfiles[toi] # None,
                      SentWhole(rfiles[toi].entry.data),
                      arrived[toi] = 1..NofSourceSymbols(rfiles[toi].length)
               PROVE  Complete(rfiles[toi])
    BY DEF ReceivedFileIsComplete
  <2>1. SoleContents(toi)
    BY DEF SoleContents, TwoFilesOneToi
  <2>2. Exact(rfiles[toi], 1..NofSourceSymbols(rfiles[toi].length))
    BY <2>1 DEF ExactInv
  <2>3. /\ FilesOK(rfiles, Offered) /\ Offered \subseteq Entry
    BY DEF FdtInv, SessionTypeInv, SenderInv, SenderTypeOK, Offered, Document
  <2>4. rfiles[toi] \in RFile /\ WellMade(rfiles[toi], toi, Offered)
    BY <2>3, Tois DEF FilesOK
  <2>5. rfiles[toi].entry.data \in Data /\ rfiles[toi].length \in Nat \ {0}
    BY <2>3, <2>4, ReceiverAssumption DEF WellMade, Entry
  <2> QED
    BY <2>2, <2>4, <2>5, ExactFull
<1> QED
  BY <1>1, <1>2, <1>3, PTL DEF MCSpec

-----------------------------------------------------------------------------
(* What is handed over, and what ends the receiver *)

\* Encoded contents are sent whole, and those that decode inflates are of the encoding it
\* knows.
CodedWhole == \A c \in Data : Coding[c] # "plain" => SentWhole(c)

GzipInflates == \A c \in Inflatable : Coding[c] = "gzip"

\* put_symbol finds room in the file of the entry that the packet is of.
LEMMA RefusedIsOther ==
  ASSUME FdtInv, NEW packet \in OnAir, packet.toi # 0, RefuseSymbols(packet)
  PROVE  TwoFilesOneToi
<1> DEFINE file == rfiles[packet.toi]
<1>1. /\ SenderInv /\ FilesOK(rfiles, Offered) /\ Offered \subseteq Entry /\ Usable(packet)
  BY OnAirUsable DEF FdtInv, SessionTypeInv, SenderInv, SenderTypeOK, Offered, Document
<1>2. PICK e \in Offered : e \in Entry /\ packet.toi = e.toi /\ CutFrom(packet, e.data)
  BY <1>1, OnAirFile
<1>3. FilesFor(packet) = rfiles
  BY DEF FilesFor
<1>4. file # None /\ OutOfRange(file, packet)
  BY <1>3 DEF RefuseSymbols, Wanted
<1>5. WellMade(file, packet.toi, Offered) /\ file \in RFile
  BY <1>1, <1>2, <1>4, Tois DEF FilesOK, Entry
<1> HIDE DEF file
<1> SUFFICES ASSUME file.entry = e PROVE FALSE
  BY <1>2, <1>5 DEF WellMade, TwoFilesOneToi
<1> DEFINE length == file.length
<1>6. length \in Nat \ {0} /\ length = ContentLength(e.data)
  BY <1>2, <1>5, ContentLengths DEF WellMade, Entry
<1> HIDE DEF length
<1>7. /\ packet.sbn \in Blocks(length) /\ packet.esi \in 0..(BlockLength(length, packet.sbn) - 1)
  BY <1>2, <1>6 DEF CutFrom
<1>8. NofSourceBlocks(length) \in Nat /\ BlockLength(length, packet.sbn) \in Nat
  BY <1>6, <1>7, BlockLengths, BlocksFollow
<1>9. Len(file.blocks) \in Nat /\ NofSourceBlocks(length) <= Len(file.blocks)
      /\ \A b \in 1..NofSourceBlocks(length) : BlockLength(length, b - 1) <= Len(file.blocks[b])
  BY <1>5, BlocksType DEF WellMade, Roomy, length
<1> DEFINE k == packet.sbn + 1
<1>10. packet.sbn \in Nat /\ packet.sbn < NofSourceBlocks(length)
       /\ k \in 1..NofSourceBlocks(length) /\ k \in 1..Len(file.blocks) /\ k - 1 = packet.sbn
  BY <1>7, <1>8, <1>9 DEF Blocks
<1>11. TargetBlock(file, packet) = file.blocks[k] /\ Len(file.blocks[k]) \in Nat
  BY <1>5, <1>9, <1>10, BlocksType DEF TargetBlock
<1> HIDE DEF k
<1>12. BlockLength(length, packet.sbn) <= Len(file.blocks[k])
  BY <1>9, <1>10
<1>13. packet.esi \in Nat /\ packet.esi < BlockLength(length, packet.sbn)
  BY <1>7, <1>8
<1> QED
  BY <1>4, <1>8, <1>9, <1>10, <1>11, <1>12, <1>13 DEF OutOfRange

\* A complete file is of an entry that was offered, and holds its contents: the check found
\* it so, or, when they are encoded, its TOI had no others.
LEMMA FilledHolds ==
  ASSUME CodedWhole, FdtInv, ExactInv, NEW packet \in OnAir, packet.toi # 0, Fills(packet),
         Encoded(FilesLeft(packet)[packet.toi]) => SoleContents(packet.toi)
  PROVE  LET file == FilesLeft(packet)[packet.toi]
         IN /\ file.entry \in Offered /\ file.entry \in Entry /\ file.entry.toi = packet.toi
            /\ Holds(file, file.entry.data) /\ Contents(file) = file.entry.data
<1> DEFINE own == packet.toi
           file == FilesLeft(packet)[own]
<1>1. FilesOK(rfiles, Offered) /\ Offered \in SUBSET Entry /\ Usable(packet)
  BY OnAirUsable DEF FdtInv, SessionTypeInv, SenderInv, SenderTypeOK, Offered, Document
<1>2. WellMade(file, own, Offered) /\ file = FilesWith(packet)[own] /\ file \in RFile
  BY <1>1, FilesLeftOK
<1>3. Complete(FilesWith(packet)[own]) /\ status = "listening"
  BY DEF Fills, Completes, Handles
<1>4. /\ Wanted(packet) /\ ~OutOfRange(FilesFor(packet)[own], packet)
      /\ FilesFor(packet) = rfiles /\ own \in 1..ToiMax
  BY <1>1, Tois DEF Fills, FilesFor, Usable, Packet
<1>5. FilesWith(packet)[own].entry = rfiles[own].entry /\ rfiles[own] # None
  BY <1>1, <1>4, FilesWithOK, Zenon DEF Wanted
<1> HIDE DEF file
<1>6. /\ file.entry \in Offered /\ file.entry \in Entry /\ file.entry.toi = own
      /\ file.entry # None /\ file.entry.data \in Data /\ file.length \in Nat \ {0}
  BY <1>1, <1>2, ReceiverAssumption DEF WellMade, Entry
<1>7. Holds(file, file.entry.data)
  <2>1. CASE Coding[file.entry.data] = "plain"
    BY <1>2, <1>3, <1>6, <2>1 DEF Complete, Verified
  <2>2. CASE Coding[file.entry.data] # "plain"
    <3>1. SoleContents(own)
      BY <1>6, <2>2 DEF Encoded, file
    <3>2. SentWhole(rfiles[own].entry.data)
      BY <1>2, <1>5, <1>6, <2>2 DEF CodedWhole
    <3>3. Exact(rfiles[own], arrived[own])
      BY <1>3, <1>4, <1>5, <3>1, <3>2 DEF ExactInv
    <3>4. Exact(file, arrived[own] \cup Ats(packet))
      BY <1>2, <1>4, <3>1, <3>2, <3>3, ExactWith
    <3> DEFINE got == arrived[own] \cup Ats(packet)
    <3> HIDE DEF got
    <3>5. Exact(file, got)
      BY <3>4 DEF got
    <3> QED
      BY <1>2, <1>3, <1>6, <3>5, ExactDecoded
  <2> QED
    BY <2>1, <2>2
<1>8. Contents(file) = file.entry.data
  BY <1>6, <1>7, OneContents
<1> QED
  BY <1>6, <1>7, <1>8 DEF file

\* No packet ends the receiver that the property does not excuse.
LEMMA StepSurvives ==
  ASSUME OneSymbolFdts, CodedWhole, GzipInflates, FdtInv, ExactInv, ReceiverSurvives,
         [MCNext]_mcVars
  PROVE  ReceiverSurvives'
<1> DEFINE lost == \/ TwoFilesOneToi
                   \/ \E e \in Offered : Coding[e.data] # "plain" /\ e.data \notin Inflatable
<1>1. SenderInv /\ [SessionNext]_sessionVars /\ (ReceiverSurvives <=> (status = "threw" => lost))
  BY SessionSteps DEF FdtInv, SessionTypeInv, ReceiverSurvives
<1>2. lost => lost'
  <2>1. Offered \subseteq Offered'
    BY <1>1, RecordsGrow
  <2> QED
    BY <2>1 DEF TwoFilesOneToi
<1>3. ASSUME status' = "threw" => lost
      PROVE  ReceiverSurvives'
  BY <1>2, <1>3 DEF ReceiverSurvives
<1>4. CASE status' = "threw" => status = "threw"
  BY <1>1, <1>3, <1>4
<1>5. CASE Sends \/ Restart \/ UNCHANGED sessionVars
  BY <1>4, <1>5 DEF Sends, Restart, sessionVars, receiverVars
<1>6. CASE Calls
  BY <1>4, <1>6 DEF Calls, ReceiverCalls, RegisterCallback, Stop, RemoveExpired, RemoveLocation
<1>7. CASE ReceiveAfterStop \/ ReceiveFails
  BY <1>4, <1>7 DEF ReceiveAfterStop, ReceiveFails
<1>8. ASSUME NEW packet \in OnAir, Receive(packet, docs)
      PROVE  ReceiverSurvives'
  <2>1. CASE packet.toi = 0
    BY <1>4, <1>8, <2>1, ReceiveKeepsFdt
  <2>2. CASE packet.toi # 0
    <3>1. CASE RefuseSymbols(packet)
      BY <1>3, <2>2, <3>1, RefusedIsOther
    <3>2. CASE FailDecode(packet)
      <4> DEFINE file == FilesLeft(packet)[packet.toi]
      <4> SUFFICES ASSUME ~TwoFilesOneToi
                   PROVE  \E e \in Offered : Coding[e.data] # "plain" /\ e.data \notin Inflatable
        BY <1>3
      <4>1. Fills(packet) /\ DecodeThrows(file)
        BY <3>2 DEF FailDecode
      <4>2. SoleContents(packet.toi)
        BY DEF SoleContents, TwoFilesOneToi
      <4>3. /\ file.entry \in Offered /\ file.entry \in Entry /\ Holds(file, file.entry.data)
        BY <2>2, <4>1, <4>2, FilledHolds
      <4> HIDE DEF file
      <4>4. Coding[file.entry.data] # "plain" /\ file.entry.data \in Data
        BY <4>1, <4>3 DEF DecodeThrows, Encoded, Entry
      <4>5. file.entry.data \notin Inflatable
        BY <4>1, <4>3, <4>4 DEF DecodeThrows, ContentsIn, GzipInflates
      <4> QED
        BY <4>3, <4>4, <4>5
    <3>3. CASE ~RefuseSymbols(packet) /\ ~FailDecode(packet)
      <4>1. status' = status
        BY <1>8, <2>2, <3>3 DEF Receive, Discard, KeepSymbols, KeepComplete, HandOver, TakeFdt,
           receiverVars
      <4> QED
        BY <1>4, <4>1
    <3> QED
      BY <3>1, <3>2, <3>3
  <2> QED
    BY <2>1, <2>2
<1> QED
  BY <1>1, <1>5, <1>6, <1>7, <1>8 DEF SessionNext, Receives

\* What survival rests on.
SurvivalInv == FdtInv /\ ExactInv /\ ReceiverSurvives

\* The handler of the receiver is armed again after every packet, unless a TOI was given
\* to two files, whose symbols put_symbol may find out of range, or a file has an encoding
\* that decode does not know or inflates past its buffer: complete files of others decode.
THEOREM ReceiversSurvive ==
  ASSUME OneSymbolFdts, CodedWhole, GzipInflates
  PROVE  MCSpec => []ReceiverSurvives
<1>1. MCInit => SurvivalInv
  BY InitExact DEF MCInit, SessionInit, ReceiverInit, ReceiverSurvives, SurvivalInv
<1>2. SurvivalInv /\ [MCNext]_mcVars => SurvivalInv'
  BY SessionSteps, FdtInvNext, StepExact, StepSurvives DEF SurvivalInv
<1>3. SurvivalInv => ReceiverSurvives
  BY DEF SurvivalInv
<1> QED
  BY <1>1, <1>2, <1>3, PTL DEF MCSpec

\* The TOIs of encoded contents had no others.
CodedSole ==
  \A e, f \in Offered : Coding[e.data] # "plain" /\ f.toi = e.toi => f.data = e.data

\* Sessions that keep to this, with whatever reuse of the TOIs of other files.
CodedSpec == MCInit /\ [][MCNext /\ CodedTois]_mcVars

LEMMA StepCoded ==
  ASSUME CodedSole, [MCNext /\ CodedTois]_mcVars
  PROVE  CodedSole'
<1>1. CASE docs' = docs
  BY <1>1 DEF CodedSole, Offered
<1>2. CASE docs' # docs
  BY <1>2 DEF CodedTois, CodedToi, CodedSole, mcVars, sessionVars, senderVars
<1> QED
  BY <1>1, <1>2

\* What is handed over in a step of the receiver was offered as it is.
HandsOverAsSent == delivered' = delivered \/
  \E f \in Offered : delivered' = delivered \cup {[entry |-> f, data |-> f.data]}

\* What a step offers and hands over.
SessionStep ==
  \/ UNCHANGED <<Offered, delivered>>
  \/ delivered' = delivered /\ \E f \in Entry : Offered' = Offered \cup {f}
  \/ Offered' = Offered /\ HandsOverAsSent

LEMMA DeliveryStep ==
  ASSUME SenderInv, SenderInv', SessionStep
  PROVE  [Delivery!Next]_Delivery!vars
<1> DEFINE sentFiles == {AsFile(e.data, e.meta) : e \in Offered}
           receivedFiles == {AsFile(d.data, d.entry.meta) : d \in delivered}
<1>1. Offered \subseteq Entry
  BY DEF SenderInv, SenderTypeOK, Offered, Document
<1>2. ASSUME NEW f \in Entry
      PROVE  AsFile(f.data, f.meta) \in [data : Data, meta : Meta]
  BY DEF AsFile, Entry
<1>3. CASE UNCHANGED <<Offered, delivered>>
  BY <1>3 DEF Delivery!vars
<1>4. CASE delivered' = delivered /\ \E f \in Entry : Offered' = Offered \cup {f}
  <2>1. PICK f \in Entry : Offered' = Offered \cup {f}
    BY <1>4
  <2>2. sentFiles' = sentFiles \cup {AsFile(f.data, f.meta)} /\ receivedFiles' = receivedFiles
    BY <1>4, <2>1
  <2>3. Delivery!Send(AsFile(f.data, f.meta))
    BY <2>2 DEF Delivery!Send
  <2> QED
    BY <1>2, <2>3 DEF Delivery!Next
<1>5. CASE Offered' = Offered /\ delivered' = delivered
  BY <1>5 DEF Delivery!vars
<1>6. CASE /\ Offered' = Offered
           /\ \E f \in Offered : delivered' = delivered \cup {[entry |-> f, data |-> f.data]}
  <2>1. PICK f \in Offered : delivered' = delivered \cup {[entry |-> f, data |-> f.data]}
    BY <1>6
  <2>2. /\ sentFiles' = sentFiles /\ receivedFiles' = receivedFiles \cup {AsFile(f.data, f.meta)}
        /\ AsFile(f.data, f.meta) \in sentFiles
    <3> DEFINE d == [entry |-> f, data |-> f.data]
    <3>1. delivered' = delivered \cup {d} /\ d.data = f.data /\ d.entry = f
      BY <2>1
    <3> HIDE DEF d
    <3>2. receivedFiles' = receivedFiles \cup {AsFile(d.data, d.entry.meta)}
      BY <3>1
    <3>3. sentFiles' = sentFiles /\ AsFile(f.data, f.meta) \in sentFiles
      BY <1>6, <2>1
    <3> HIDE DEF sentFiles, receivedFiles
    <3> QED
      BY <3>1, <3>2, <3>3
  <2>3. Delivery!HandOver(AsFile(f.data, f.meta))
    BY <2>2 DEF Delivery!HandOver
  <2> QED
    BY <1>1, <1>2, <2>1, <2>3 DEF Delivery!Next
<1> QED
  BY <1>3, <1>4, <1>5, <1>6 DEF SessionStep, HandsOverAsSent

\* What deliveries rest on.
DeliveryInv == FdtInv /\ ExactInv /\ CodedSole

LEMMA StepDelivers ==
  ASSUME OneSymbolFdts, CodedWhole, FdtInv, ExactInv, CodedSole, [MCNext]_mcVars
  PROVE  SessionStep
<1>1. SenderInv /\ [SessionNext]_sessionVars
  BY SessionSteps DEF FdtInv, SessionTypeInv
<1>2. Offered' = Offered \/ \E f \in Entry : Offered' = Offered \cup {f}
  BY <1>1, RecordsGrow
<1>3. CASE delivered' = delivered
  BY <1>2, <1>3 DEF SessionStep
<1>4. CASE Sends \/ Restart \/ UNCHANGED sessionVars
  BY <1>3, <1>4 DEF Sends, Restart, sessionVars, receiverVars
<1>5. CASE Calls
  BY <1>3, <1>5 DEF Calls, ReceiverCalls, RegisterCallback, Stop, RemoveExpired, RemoveLocation
<1>6. CASE Receives
  <2>1. Offered' = Offered
    BY <1>1, <1>6, SenderAlone DEF Receives
  <2>2. CASE ReceiveAfterStop \/ ReceiveFails
    BY <1>3, <2>2 DEF ReceiveAfterStop, ReceiveFails
  <2>3. ASSUME NEW packet \in OnAir, Receive(packet, docs)
        PROVE  HandsOverAsSent
    <3>1. CASE packet.toi = 0
      BY <2>3, <3>1, ReceiveKeepsFdt DEF HandsOverAsSent
    <3>2. CASE packet.toi # 0 /\ ~HandOver(packet)
      BY <2>3, <3>2 DEF Receive, Discard, RefuseSymbols, KeepSymbols, FailDecode, KeepComplete,
         TakeFdt, Throw, receiverVars, HandsOverAsSent
    <3>3. CASE packet.toi # 0 /\ HandOver(packet)
      <4> DEFINE file == FilesLeft(packet)[packet.toi]
      <4>1. /\ Fills(packet)
            /\ delivered' = delivered \cup {[entry |-> file.entry, data |-> Contents(file)]}
        BY <3>3 DEF HandOver
      <4>2. Encoded(file) => SoleContents(packet.toi)
        <5>1. file.entry \in Offered /\ file.entry.toi = packet.toi
          <6>1. FilesOK(rfiles, Offered) /\ Offered \in SUBSET Entry /\ Usable(packet)
            BY <1>1, OnAirUsable
               DEF FdtInv, SessionTypeInv, SenderInv, SenderTypeOK, Offered, Document
          <6> QED
            BY <3>3, <4>1, <6>1, FilesLeftOK DEF WellMade
        <5> HIDE DEF file
        <5> QED
          BY <5>1 DEF Encoded, SoleContents, CodedSole
      <4>3. file.entry \in Offered /\ Contents(file) = file.entry.data
        BY <3>3, <4>1, <4>2, FilledHolds
      <4> HIDE DEF file
      <4> QED
        BY <4>1, <4>3 DEF HandsOverAsSent
    <3> QED
      BY <3>1, <3>2, <3>3
  <2> QED
    BY <1>6, <2>1, <2>2, <2>3 DEF Receives, SessionStep
<1> QED
  BY <1>1, <1>4, <1>5, <1>6 DEF SessionNext

\* A session implements FileDelivery: what the application is handed is a file that the
\* sending application sent, contents and metadata together, also when its TOI was another
\* file's before, and when it had to be decoded.
THEOREM SessionsDeliverFiles ==
  ASSUME OneSymbolFdts, CodedWhole
  PROVE  CodedSpec => FilesDelivered
<1>1. MCInit => DeliveryInv /\ Delivery!Init
  BY InitExact DEF MCInit, SessionInit, SenderInit, ReceiverInit, Offered, Delivery!Init,
     CodedSole, DeliveryInv
<1>2. DeliveryInv /\ [MCNext /\ CodedTois]_mcVars => DeliveryInv'
  BY SessionSteps, FdtInvNext, StepExact, StepCoded DEF DeliveryInv
<1>3. DeliveryInv /\ DeliveryInv' /\ [MCNext /\ CodedTois]_mcVars
        => [Delivery!Next]_Delivery!vars
  <2> SUFFICES ASSUME DeliveryInv, DeliveryInv', [MCNext /\ CodedTois]_mcVars
               PROVE  [Delivery!Next]_Delivery!vars
    OBVIOUS
  <2>1. SessionStep
    BY StepDelivers DEF DeliveryInv
  <2>2. SenderInv /\ SenderInv'
    BY DEF DeliveryInv, FdtInv, SessionTypeInv
  <2> QED
    BY <2>1, <2>2, DeliveryStep
<1> QED
  BY <1>1, <1>2, <1>3, PTL DEF CodedSpec, FilesDelivered, Delivery!Spec
================================================================================
