------------------------------ MODULE Partitioning -----------------------------
(***************************************************************************)
(* How a File divides its transfer object into source blocks of encoding   *)
(* symbols: calculate_partitioning and create_blocks, sender and receiver  *)
(* alike.  Blocks and the symbols of a block are numbered from 0, as they  *)
(* are on the wire; the symbols of the object, through all its blocks,     *)
(* from 1.  The code computes with doubles, exact for these magnitudes.    *)
(***************************************************************************)
EXTENDS Integers

CONSTANTS
  SymbolBytes,   \* fec_oti.encoding_symbol_length
  MaxBlock       \* fec_oti.max_source_block_length

ASSUME PartitioningAssumption == SymbolBytes \in Nat \ {0} /\ MaxBlock \in Nat \ {0}

CeilDiv(a, b) == (a + b - 1) \div b

NofSourceSymbols(length) == CeilDiv(length, SymbolBytes)

NofSourceBlocks(length) == CeilDiv(NofSourceSymbols(length), MaxBlock)

\* (Mutant: rounded down.)
LargeBlockDown(length) == NofSourceSymbols(length) \div NofSourceBlocks(length)

LargeBlock(length) == CeilDiv(NofSourceSymbols(length), NofSourceBlocks(length))

SmallBlock(length) == NofSourceSymbols(length) \div NofSourceBlocks(length)

NofLargeBlocks(length) ==
  NofSourceSymbols(length) - SmallBlock(length) * NofSourceBlocks(length)

\* The source blocks create_blocks makes.
Blocks(length) == 0..(NofSourceBlocks(length) - 1)

BlockLength(length, b) ==
  IF b < NofLargeBlocks(length) THEN LargeBlock(length) ELSE SmallBlock(length)

\* The symbols in the blocks before b.
SymbolsBefore(length, b) ==
  IF b <= NofLargeBlocks(length) THEN b * LargeBlock(length)
  ELSE NofLargeBlocks(length) * LargeBlock(length)
         + (b - NofLargeBlocks(length)) * SmallBlock(length)

\* The symbol of the object that is the e-th of block b.
SymbolNumber(length, b, e) == SymbolsBefore(length, b) + e + 1

BlockOf(length, i) ==
  CHOOSE b \in Blocks(length) :
    SymbolsBefore(length, b) < i /\ i <= SymbolsBefore(length, b) + BlockLength(length, b)

\* Every symbol is full but the last.
SymbolSize(length, i) ==
  IF i < NofSourceSymbols(length) THEN SymbolBytes
  ELSE length - (i - 1) * SymbolBytes
-----------------------------------------------------------------------------
(* The loops of create_blocks *)

Least(a, b) == IF a < b THEN a ELSE b

\* Where the loops are after a symbol: at the next one of its block or, if it was the last,
\* at the first of the next block, with fewer bytes left.
AfterSymbol(length, at) ==
  LET left == at.left - Least(at.left, SymbolBytes)
  IN IF at.esi + 1 < BlockLength(length, at.sbn)
     THEN [sbn |-> at.sbn, esi |-> at.esi + 1, left |-> left]
     ELSE [sbn |-> at.sbn + 1, esi |-> 0, left |-> left]

\* Where they are before each symbol; there are no more symbols than bytes.
Reached(length) ==
  LET reached[i \in 1..length] ==
        IF i = 1 THEN [sbn |-> 0, esi |-> 0, left |-> length]
        ELSE AfterSymbol(length, reached[i - 1])
  IN reached

\* The symbols they make, for as long as bytes are left.
CreatedSymbols(length) ==
  {LET at == Reached(length)[i]
   IN [number |-> i, sbn |-> at.sbn, esi |-> at.esi, size |-> Least(at.left, SymbolBytes)] :
     i \in {k \in 1..length : Reached(length)[k].left > 0}}

\* The symbols that the numbers on the wire are taken to name.
DividedSymbols(length) ==
  UNION {{LET i == SymbolNumber(length, b, e)
          IN [number |-> i, sbn |-> b, esi |-> e, size |-> SymbolSize(length, i)] :
            e \in 0..(BlockLength(length, b) - 1)} : b \in Blocks(length)}
================================================================================
