----------------------------------- MODULE Wire --------------------------------
(***************************************************************************)
(* What receivers make of the descriptions that are sent: their entry in   *)
(* the FDT document, the packet headers and the source blocks.             *)
(***************************************************************************)
EXTENDS FileDescription, AlcPacket, Partitioning

CONSTANT TsiOf   \* the TSI of each transmitter

\* Values fit the fields they are sent in.  TOIs do, which are 16 bits where they are taken;
\* of the others it is for the application to see to.  A Transfer-Length of 0 is left out and
\* read as the Content-Length, so only what is empty may be transferred as nothing.
ASSUME WireAssumption ==
  /\ Word = Whole
  /\ None \notin FdtNamespaces
  /\ TsiOf \in [Transmitters -> 0..(HalfWord - 1)]
  /\ ToiBound + 1 < HalfWord
  /\ \A t \in Transmitters : /\ FecOfTransmitter[t].symbolLength < HalfWord
                             /\ FecOfTransmitter[t].maxBlock < Word
  /\ \A c \in Contents \cup {None} :
       /\ Size[c] < Word
       /\ \A encoding \in Encodings : /\ TransferSize[encoding][c] < Word
                                      /\ TransferSize[encoding][c] = 0 => Size[c] = 0

-----------------------------------------------------------------------------
(* FDT documents *)

\* A table with the entry, and another with all that the FDT's own parameters say.
TableWith(entry, t) ==
  <<entry, [entry EXCEPT !.toi = @ + 1, !.symbolLength = FecOfTransmitter[t].symbolLength]>>

DocumentOf(entries, namespace, t) == ToDocument(entries, namespace, 7, FecOfTransmitter[t])

\* no-cache is written in place of the expiry time.
Uncached(entry) == [entry EXCEPT !.noCache = TRUE, !.cacheExpires = None, !.expires = 0]

\* The entry of a file reaches receivers as the sender's table has it, in each namespace
\* and whatever parameters its description kept from another transmitter.
EntrySurvives ==
  \A h \in Handle, t \in Transmitters, namespace \in FdtNamespaces :
    LET table    == TableWith(EntryFor(descs[h], t), t)
        uncached == [i \in 1..2 |-> [table[i] EXCEPT !.noCache = TRUE]]
        document == DocumentOf(table, namespace, t)
    IN /\ ~Refused(document)
       /\ FromDocument(document) = [namespace |-> namespace, expires |-> 7,
                                    global |-> FecOfTransmitter[t], entries |-> table]
       /\ FromDocument(DocumentOf(uncached, namespace, t)).entries
            = [i \in 1..2 |-> Uncached(table[i])]

\* The same document as another sender may write it: its namespace bound to a prefix, of
\* the elements alone or of attributes too.
Renamed(name, prefix) == IF name[1] = Empty THEN <<prefix, name[2]>> ELSE name

RenamedAttributes(attributes, prefix) ==
  {<<Renamed(a[1], prefix), a[2]>> : a \in attributes}

WithPrefix(element, prefix, attributesToo) ==
  [element EXCEPT !.name = Renamed(@, prefix), !.xmlns = None,
                  !.attributes = IF attributesToo THEN RenamedAttributes(@, prefix) ELSE @]

Prefixed(root, attributesToo) ==
  [WithPrefix(root, "fdt", attributesToo) EXCEPT
     !.bound = WithBound(@, [fdt |-> root.xmlns]),
     !.children = [i \in DOMAIN @ |-> WithPrefix(@[i], "fdt", attributesToo)]]

\* The reader finds in a document what it finds in the same one written with prefixes.
ReaderIgnoresPrefixes ==
  \A h \in Handle, t \in Transmitters, namespace \in FdtNamespaces \ {Empty} :
    LET document == DocumentOf(TableWith(EntryFor(descs[h], t), t), namespace, t)
    IN \A attributesToo \in BOOLEAN :
         /\ ~Refused(Prefixed(document, attributesToo))
         /\ FromDocument(Prefixed(document, attributesToo)) = FromDocument(document)

-----------------------------------------------------------------------------
(* Packet headers *)

\* Headers that other senders make of the same values: numbers in words, or in half words
\* with a word of zeros; extensions in another order, with others in between.
InWords(header) ==
  [header EXCEPT !.half = 0, !.tsiWords = 1, !.toiWords = 1]

Widened(header) ==
  [header EXCEPT !.tsiWords = 1, !.toiWords = 1, !.fields = <<@[1], 0, @[2], 0>>]

Rearranged(header) ==
  [header EXCEPT !.extensions = <<Extension(TIME, 1, None)>> \o Reverse(@)
                                \o <<Extension(CENC, 0, 9), Extension(AUTH, 2, None)>>]

\* What is to be read of it.
Said(tsi, toi, fec, instance) ==
  [tsi |-> tsi, toi |-> toi, instance |-> IF toi = 0 THEN instance ELSE 0,
   fec |-> IF toi = 0 THEN fec ELSE NoFec, encoding |-> "none"]

HeaderIsRead(tsi, toi, fec, instance) ==
  LET header == Built(tsi, toi, fec, instance)
  IN \A same \in {header, InWords(header), Widened(header), Rearranged(header)} :
       ~Throws(same) /\ Parsed(same) = Said(tsi, toi, fec, instance)

\* What the sender says in a packet's header the receiver reads, whichever of these ways it
\* is said in: the session and the object, and for the FDT the instance and the
\* parameters of its document.  The bounds are those of the fields, less than an FDT and a
\* table may have.
HeaderSurvives ==
  \A h \in Handle, t \in Transmitters :
    \A instance \in {1, HalfWord - 1, HalfWord}, length \in {1, HalfWord - 1} :
      LET entry == EntryFor(descs[h], t)
          fec   == [transferLength |-> length, symbolLength |-> entry.symbolLength,
                    maxBlock |-> entry.maxBlock]
      IN \A toi \in {0, entry.toi} : HeaderIsRead(TsiOf[t], toi, fec, instance)

-----------------------------------------------------------------------------
(* Source blocks *)

\* The blocks that are made end where an object ends, and the symbols in them are the ones
\* that numbers on the wire are taken to name: each has the block, the place in it and the
\* length that the partitioning gives it, for what is sent and all that is shorter.
BlocksArePartition ==
  \A h \in Handle, t \in Transmitters :
    \A length \in 0..EntryFor(descs[h], t).transferLength :
      CreatedSymbols(length) = DividedSymbols(length)
================================================================================
