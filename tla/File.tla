---------------------------------- MODULE File ---------------------------------
(***************************************************************************)
(* A File object of the sender: what it describes and the state of its     *)
(* encoding symbols, numbered 1, 2, ... through all its source blocks, the *)
(* order in which the code walks them.  The code's flags `complete' and    *)
(* `queued' make three states; the fourth, "swallowed", is the code's      *)
(* complete for a symbol whose bytes no packet carried, a difference the   *)
(* code does not record and the properties need.                           *)
(***************************************************************************)
EXTENDS Integers, FiniteSets, Sequences

CONSTANT
  InstanceIdModulus   \* 65536: the object stores the FDT instance id as a uint16_t

ASSUME FileAssumption == InstanceIdModulus \in Nat \ {0}

SymbolState == {"pending", "queued", "sent", "swallowed"}

CeilDiv(a, b) == (a + b - 1) \div b

\* The number of encoding symbols `length' bytes make.
NofSourceSymbols(length, symbolLength) == CeilDiv(length, symbolLength)

\* The symbols of a new File, none of them queued.
FreshSymbols(length, symbolLength) ==
  [i \in 1..NofSourceSymbols(length, symbolLength) |-> "pending"]

\* set_fdt_instance_id takes a uint16_t and is passed a uint32_t.
FdtInstanceId(instance) == instance % InstanceIdModulus

\* Every symbol is full but the last.
SymbolLength(file, i) ==
  IF i < Len(file.symbols) THEN file.symbolLength
  ELSE file.length - (i - 1) * file.symbolLength

\* A file without symbols never becomes complete: only mark_completed looks.
Complete(file) ==
  /\ file.symbols # <<>>
  /\ \A i \in DOMAIN file.symbols : file.symbols[i] \in {"sent", "swallowed"}

FullyCarried(file) == \A i \in DOMAIN file.symbols : file.symbols[i] = "sent"

Pending(file) == {i \in DOMAIN file.symbols : file.symbols[i] = "pending"}

Before(i, S) == {j \in S : j < i}

\* (Mutant: symbols in flight are picked again.)
NextIncompleteSymbols(file, maxSize) ==
  LET open == {i \in DOMAIN file.symbols : file.symbols[i] \in {"pending", "queued"}}
  IN {i \in open : Cardinality(Before(i, open)) < CeilDiv(maxSize - 4, file.symbolLength)}

\* (Mutant: one symbol too many.)
NextSymbolsAndOne(file, maxSize) ==
  {i \in Pending(file) :
     Cardinality(Before(i, Pending(file))) <= CeilDiv(maxSize - 4, file.symbolLength)}

\* The symbols get_next_symbols picks: the first pending ones, as many as it
\* takes to cover maxSize - 4 bytes.
NextSymbols(file, maxSize) ==
  {i \in Pending(file) :
     Cardinality(Before(i, Pending(file))) < CeilDiv(maxSize - 4, file.symbolLength)}

\* The picked symbols to_payload writes: it stops at the first that no longer fits.
Carried(file, picked, room) ==
  {i \in picked :
     Cardinality(Before(i, picked)) * file.symbolLength + SymbolLength(file, i) <= room}

\* The bytes of the written symbols.
PayloadLength(file, carried) ==
  IF carried = {} THEN 0
  ELSE LET last == CHOOSE i \in carried : Before(i, carried) = carried \ {i}
       IN (Cardinality(carried) - 1) * file.symbolLength + SymbolLength(file, last)

MarkQueued(file, picked) ==
  [file EXCEPT !.symbols = [i \in DOMAIN @ |-> IF i \in picked THEN "queued" ELSE @[i]]]

\* (Mutant: only the packet's first symbol is marked.)
MarkFirstCompleted(file, picked, carried) ==
  [file EXCEPT !.symbols =
     [i \in DOMAIN @ |-> IF i \in carried /\ Before(i, picked) = {} THEN "sent" ELSE @[i]]]

\* mark_completed with success: the symbols handed out are complete, carried or not.
MarkCompleted(file, picked, carried) ==
  [file EXCEPT !.symbols =
     [i \in DOMAIN @ |-> IF i \in carried THEN "sent"
                         ELSE IF i \in picked THEN "swallowed" ELSE @[i]]]
================================================================================
