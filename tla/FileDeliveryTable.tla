--------------------------- MODULE FileDeliveryTable ---------------------------
(***************************************************************************)
(* The sender's side of the File Delivery Table: the entries it lists, the *)
(* identifier of the instance being built and the identifier of the last   *)
(* instance handed over for sending.  The vector of entries is a bag, a    *)
(* function from entries to their number of occurrences: nothing the       *)
(* sender does depends on their order.                                     *)
(***************************************************************************)
EXTENDS Integers, FiniteSets

CONSTANTS
  ToiMax,   \* largest transport object identifier (65535: _toi is a uint16_t)
  Data,     \* contents a file may have
  Meta      \* location, type, expiry and etag of a file, taken as one value

ASSUME TableAssumption == /\ ToiMax \in Nat \ {0}
                          /\ IsFiniteSet(Data)
                          /\ IsFiniteSet(Meta)

\* What a table says of one file.
Entry == [toi : 1..ToiMax, data : Data, meta : Meta]

Bags == [Entry -> Nat]

Table == [instance : Nat, sent : Nat, entries : Bags]

\* A document of the FDT, as receivers come to know it.
Document == [instance : Nat, entries : SUBSET Entry]

NoEntries == [e \in Entry |-> 0]

\* The table a transmitter starts with: instance 1, none sent.
NewTable == [instance |-> 1, sent |-> 0, entries |-> NoEntries]

\* The identifier to build under: a fresh one once the current one was handed over.
NextInstance(table) ==
  IF table.instance = table.sent THEN table.instance + 1 ELSE table.instance

\* (Mutant: the entries the TOI had go.)
AddReplacing(table, entry) ==
  [table EXCEPT !.instance = NextInstance(table),
                !.entries = [e \in Entry |-> IF e = entry THEN 1
                                             ELSE IF e.toi = entry.toi THEN 0 ELSE @[e]]]

Add(table, entry) ==
  [table EXCEPT !.instance = NextInstance(table), !.entries[entry] = @ + 1]

\* (Mutant: the first occurrence of the TOI goes.)
RemoveOne(table, toi) ==
  [table EXCEPT !.instance = NextInstance(table),
                !.entries = [e \in Entry |-> IF e.toi = toi /\ @[e] > 0 THEN @[e] - 1 ELSE @[e]]]

\* (Mutant: the identifier stays.)
RemoveQuietly(table, toi) ==
  [table EXCEPT !.entries = [e \in Entry |-> IF e.toi = toi THEN 0 ELSE @[e]]]

\* Every occurrence of the TOI goes, and the identifier moves on even when none did.
Remove(table, toi) ==
  [table EXCEPT !.instance = NextInstance(table),
                !.entries = [e \in Entry |-> IF e.toi = toi THEN 0 ELSE @[e]]]

Sent(table) == [table EXCEPT !.sent = table.instance]

\* The TOIs some entry names.
Listed(entries) == {toi \in 1..ToiMax : \E e \in Entry : e.toi = toi /\ entries[e] > 0}

\* The elements of the vector, each occurrence apart.
Occurrences(entries) == UNION {{e} \X (1..entries[e]) : e \in Entry}
================================================================================
