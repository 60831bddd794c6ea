-------------------------------- MODULE AlcPacket ------------------------------
(***************************************************************************)
(* The header of an ALC packet: what the sender builds, and what the       *)
(* receiver reads from this sender or another.  A header is its flags, the *)
(* fields between the first word and the extensions in the order they      *)
(* have, and the extensions.  A field holds what its bits can.             *)
(***************************************************************************)
EXTENDS Integers, Sequences, SequencesExt

CONSTANT HalfWord   \* 2^16; a word is its square

ASSUME HalfWordAssumption == HalfWord \in Nat /\ HalfWord > 1

Whole == HalfWord * HalfWord

\* The 20 bits of an FDT instance id.
InstanceModulus == 16 * HalfWord

\* Header extension types.
NOP  == 0
AUTH == 1
TIME == 2
FTI  == 64
FDT  == 192
CENC == 193

Ignored == {NOP, AUTH, TIME}

\* An extension: type, length field (of types up to 127), contents.
Extension(het, hel, contents) == [het |-> het, hel |-> hel, contents |-> contents]

-----------------------------------------------------------------------------
(* The constructor that builds *)

FdtExtension(instance) ==
  Extension(FDT, 0, [version |-> 1, instance |-> instance % InstanceModulus])

\* The high 16 bits of the length are always 0, the low 32 hold 16 of it.
FtiExtension(fec) ==
  Extension(FTI, 4, [high |-> 0, low |-> fec.transferLength % HalfWord,
                     symbolLength |-> fec.symbolLength % HalfWord,
                     maxBlock |-> fec.maxBlock % Whole])

\* TSI and TOI come as 16-bit parameters.
Built(tsi, toi, fec, instance) ==
  [version |-> 1, congestion |-> 0, half |-> 1, tsiWords |-> 0, toiWords |-> 0,
   closeSession |-> 0, codepoint |-> 0, fields |-> <<tsi % HalfWord, toi % HalfWord>>,
   extensions |-> IF toi % HalfWord = 0 THEN <<FdtExtension(instance), FtiExtension(fec)>>
                  ELSE <<>>]

-----------------------------------------------------------------------------
(* The constructor that parses *)

\* What is thrown at before the extensions.
Unsupported(header) ==
  \/ header.version # 1
  \/ header.congestion # 0
  \/ header.half = 0 /\ header.tsiWords = 0
  \/ header.closeSession = 0 /\ header.half = 0 /\ header.toiWords = 0
  \/ header.toiWords = 3
  \/ header.toiWords = 2 /\ header.half = 1
  \/ header.codepoint # 0

\* A word shifted to follow a half word is cut to 32 bits.
Shifted(word, half) == IF half = 1 THEN (word * HalfWord) % Whole ELSE word

Tsi(header) ==
  LET word == header.fields[header.half + 1]
  IN (IF header.half = 1 THEN header.fields[1] ELSE 0)
     + (IF header.tsiWords = 1 THEN Shifted(word, header.half) ELSE 0)

\* (Mutant: the TSI has no word.)
ToiAfterHalfWord(header) ==
  LET first == header.half + 1
      low   == IF header.half = 1 THEN header.fields[first] ELSE 0
  IN CASE header.toiWords = 0 -> low
       [] header.toiWords = 1 -> low + Shifted(header.fields[first + header.half], header.half)
       [] header.toiWords = 2 -> header.fields[first] + header.fields[first + 1] * Whole

\* Of two words the first is the lower.
Toi(header) ==
  LET first == header.half + header.tsiWords + 1
      low   == IF header.half = 1 THEN header.fields[first] ELSE 0
  IN CASE header.toiWords = 0 -> low
       [] header.toiWords = 1 -> low + Shifted(header.fields[first + header.half], header.half)
       [] header.toiWords = 2 -> header.fields[first] + header.fields[first + 1] * Whole

\* An extension that is thrown at.
Invalid(extension) ==
  \/ extension.het = FTI /\ extension.hel # 4
  \/ extension.het = FDT /\ extension.contents.version > 2

ContentEncodings == <<"none", "zlib", "deflate", "gzip">>

NoFec == [transferLength |-> 0, symbolLength |-> 0, maxBlock |-> 0]

\* What is known once an extension is read, given what was.
Reading(known, extension) ==
  LET contents == extension.contents
  IN CASE extension.het = FTI ->
            [known EXCEPT !.fec = [transferLength |-> contents.high * Whole + contents.low,
                                   symbolLength   |-> contents.symbolLength,
                                   maxBlock       |-> contents.maxBlock]]
       [] extension.het = FDT -> [known EXCEPT !.instance = contents.instance]
       [] extension.het = CENC /\ contents + 1 \in DOMAIN ContentEncodings ->
            [known EXCEPT !.encoding = ContentEncodings[contents + 1]]
       [] OTHER -> known

\* Extensions are read in their order.
ReadAll(known, extensions) == FoldLeft(Reading, known, extensions)

Parsed(header) ==
  ReadAll([tsi |-> Tsi(header), toi |-> Toi(header), instance |-> 0, fec |-> NoFec,
           encoding |-> "none"],
          header.extensions)

\* A header is the lists of its words and extensions, whose lengths add up to the one it
\* gives: packets cut short and lengths that do not add up are left out.
Throws(header) ==
  Unsupported(header) \/ \E i \in DOMAIN header.extensions : Invalid(header.extensions[i])
================================================================================
