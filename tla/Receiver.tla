-------------------------------- MODULE Receiver -------------------------------
(***************************************************************************)
(* The FLUTE receiver: the files it is assembling, the FDT it goes by and  *)
(* the handler that takes each packet, with the calls an application       *)
(* makes.  Handler and calls hold _files_mutex for as long as they look at *)
(* the files, so each is one step.                                         *)
(*                                                                         *)
(* A packet carries encoding symbols, each a piece of what its sender cut  *)
(* it from: contents of a file, or a document of the FDT.  A cell of a     *)
(* file's buffer remembers the piece written to it.  Two contents differ   *)
(* in every piece, so a buffer holds a contents exactly when each cell has *)
(* its own piece of it: that is what the MD5 check finds out.              *)
(***************************************************************************)
EXTENDS FileDeliveryTable, Partitioning, Sequences, FiniteSetsExt

CONSTANTS
  None,          \* no file, no table, no entry
  Open,          \* a cell whose symbol is not complete
  Blank,         \* a cell whose symbol is complete though nothing was written
  Length,        \* bytes of each contents as transferred; what is empty has no packets
  Coding,        \* its Content-Encoding: "plain", "gzip" or "deflate"
  Inflatable,    \* encoded contents that fit the buffer they are decoded into
  Location,      \* the Content-Location that metadata gives
  NoLocation,    \* the empty one, an FDT document's
  Bootstrap,     \* "bootstrap.multipart"
  FdtBase, FdtPerEntry   \* bytes of an FDT document: without entries, and per entry

ASSUME ReceiverAssumption ==
  /\ None \notin Entry
  /\ \A entries \in SUBSET Entry : entries # None
  /\ \A c \in Data : c \notin Document
  /\ Length \in [Data -> Nat \ {0}]
  /\ Coding \in [Data -> {"plain", "gzip", "deflate"}]
  /\ Inflatable \subseteq {c \in Data : Coding[c] # "plain"}
  /\ FdtBase \in Nat \ {0} /\ FdtPerEntry \in Nat

VARIABLES
  rfiles,     \* _files, a file or None for each TOI
  rfdt,       \* _fdt, None before the first
  running,    \* _running
  status,     \* "listening" while a receive is pending; why there is none else
  callback,   \* _completion_cb is set
  delivered   \* history: what the callback was called with

receiverVars == <<rfiles, rfdt, running, status, callback, delivered>>

Toi == 0..ToiMax   \* 0 is the FDT's

Piece == [of : Data \cup Document, at : Nat \ {0}]

Cell == Piece \cup {Open, Blank}

ASSUME CellAssumption == Open \notin Piece \cup {Blank}

\* A File of the receiver: of an entry, or of the FDT.  The block numbered b on the
\* wire is blocks[b + 1], its symbol e is blocks[b + 1][e + 1].
RFile == [entry : Entry \cup {None}, length : Nat, blocks : Seq(Seq(Cell))]

ASSUME NoneAssumption == None \notin Document /\ None \notin RFile

\* What a receiver reads of a packet.
Packet == [toi : Toi, instance : Nat, length : Nat, sbn : Nat, esi : Nat, payload : Seq(Piece)]

ReceiverTypeOK ==
  /\ rfiles \in [Toi -> RFile \cup {None}]
  /\ rfdt \in Document \cup {None}
  /\ running \in BOOLEAN /\ callback \in BOOLEAN
  /\ status \in {"listening", "stopped", "failed", "threw"}
  /\ delivered \subseteq [entry : Entry, data : Data \cup {None}]

-----------------------------------------------------------------------------
(* A file: its cells, and whether it is complete *)

FdtLength(entries) == FdtBase + FdtPerEntry * Cardinality(entries)

ContentLength(c) == IF c \in Data THEN Length[c] ELSE FdtLength(c.entries)

\* create_blocks: every symbol of every block, none of them complete.
NewBlocks(length) ==
  [b \in 1..NofSourceBlocks(length) |-> [e \in 1..BlockLength(length, b - 1) |-> Open]]

FileFor(entry) ==
  [entry |-> entry, length |-> Length[entry.data], blocks |-> NewBlocks(Length[entry.data])]

FdtFileOf(length) == [entry |-> None, length |-> length, blocks |-> NewBlocks(length)]

IsCell(length, b, e) ==
  b \in Blocks(length) /\ e < BlockLength(length, b)

\* The cells of a file hold the contents c, each its own piece.
Holds(file, c) ==
  \A b \in Blocks(file.length) : \A e \in 0..(BlockLength(file.length, b) - 1) :
    file.blocks[b + 1][e + 1] = [of |-> c, at |-> SymbolNumber(file.length, b, e)]

AllIn(file) ==
  /\ file.blocks # <<>>
  /\ \A b \in DOMAIN file.blocks : \A e \in DOMAIN file.blocks[b] : file.blocks[b][e] # Open

\* (Mutant: without the check.)
Unverified(file) == TRUE

\* The MD5 check: of contents that are not encoded, when the entry has an MD5.
Verified(file) ==
  file.entry # None /\ file.length > 0 /\ Coding[file.entry.data] = "plain"
    => Holds(file, file.entry.data)

Complete(file) == AllIn(file) /\ Verified(file)

\* "MD5 mismatch, try again"
Reopened(file) ==
  [file EXCEPT !.blocks = [b \in DOMAIN @ |-> [e \in DOMAIN @[b] |-> Open]]]

-----------------------------------------------------------------------------
(* from_payload and put_symbol *)

\* from_payload: the length of a symbol is what is left of the payload or a full
\* symbol, and the former does not shrink as symbols are taken.
ReceivedSize(payload) ==
  IF Len(payload) > 1 THEN SymbolBytes
  ELSE SymbolSize(ContentLength(payload[1].of), payload[1].at)

\* A cell past those of the file is made on the spot, without room.
Room(file, b, e) ==
  IF IsCell(file.length, b, e) THEN SymbolSize(file.length, SymbolNumber(file.length, b, e)) ELSE 0

\* decode_to, which writes only what fits.
Written(file, b, e, payload, j) ==
  IF ReceivedSize(payload) <= Room(file, b, e) THEN payload[j] ELSE Blank

\* The block a packet is for, empty if it is one past the last.
TargetBlock(file, packet) ==
  IF packet.sbn < Len(file.blocks) THEN file.blocks[packet.sbn + 1] ELSE <<>>

\* put_symbol throws: a block or a symbol further than one past the last.
OutOfRange(file, packet) ==
  \/ packet.sbn > Len(file.blocks)
  \/ packet.esi > Len(TargetBlock(file, packet))

\* The file once the symbols i..j of the packet are put, those that are not complete.
Placed(file, packet, i, j) ==
  LET old == TargetBlock(file, packet)
      new == [k \in 1..Max({Len(old), packet.esi + j}) |->
                IF k - packet.esi \in i..j /\ (k > Len(old) \/ old[k] = Open)
                THEN Written(file, packet.sbn, k - 1, packet.payload, k - packet.esi)
                ELSE old[k]]
  IN [file EXCEPT !.blocks = IF packet.sbn < Len(@) THEN [@ EXCEPT ![packet.sbn + 1] = new]
                             ELSE Append(@, new)]

\* (Mutant: the first of the packet's symbols only.)
PutFirstSymbol(file, packet) ==
  LET put == Placed(file, packet, 1, 1)
  IN IF AllIn(put) /\ ~Verified(put) THEN Reopened(put) ELSE put

\* put_symbol for each symbol in turn.  When one fills the last open cell and the
\* contents fail the check, all cells open again and the symbols after it are put.
PutSymbols(file, packet) ==
  LET n        == Len(packet.payload)
      after(j) == Placed(file, packet, 1, j)
      filling  == {j \in 1..n : AllIn(after(j)) /\ ~AllIn(after(j - 1))}
  IN IF \A j \in filling : Verified(after(j)) THEN after(n)
     ELSE LET j == CHOOSE j \in filling : TRUE
          IN Placed(Reopened(after(j)), packet, j + 1, n)

-----------------------------------------------------------------------------
(* A complete file *)

Encoded(file) == file.entry # None /\ Coding[file.entry.data] # "plain"

\* The contents whose transfer form the buffer holds.
ContentsIn(file) == {c \in Data : Holds(file, c)}

\* (Mutant: the end of the stream is taken for an error.)
DecodeThrowsAtEnd(file) == Encoded(file)

\* decode throws: what it is given is no gzip stream, or inflates to more than its
\* buffer.  It expects a zlib stream for "deflate", and encode makes none.
DecodeThrows(file) ==
  /\ Encoded(file)
  /\ Coding[file.entry.data] = "deflate" \/ ContentsIn(file) \cap Inflatable = {}

\* What the application finds in the file handed to it, None if no file was like that.
Contents(file) ==
  IF ContentsIn(file) = {} THEN None ELSE CHOOSE c \in ContentsIn(file) : TRUE

\* decode's own MD5 check comes after completion and opens the cells again.
Decoded(file) ==
  IF Encoded(file) /\ Contents(file) # file.entry.data THEN Reopened(file) ELSE file

LocationOf(file) == IF file.entry = None THEN NoLocation ELSE Location[file.entry.meta]

\* Every other file with the location of the one that is complete is dropped.
WithoutReplaced(fs, toi) ==
  [t \in Toi |-> IF t # toi /\ fs[t] # None /\ LocationOf(fs[t]) = LocationOf(fs[toi])
                 THEN None ELSE fs[t]]

\* The documents of whose pieces a buffer is made, each piece in its place.
PiecesOf(file, docs) ==
  {d \in docs : \E b \in Blocks(file.length) : \E e \in 0..(BlockLength(file.length, b) - 1) :
                  file.blocks[b + 1][e + 1] = [of |-> d, at |-> SymbolNumber(file.length, b, e)]}

InPlace(file, docs) ==
  \A b \in Blocks(file.length) : \A e \in 0..(BlockLength(file.length, b) - 1) :
    \E d \in docs : file.blocks[b + 1][e + 1] = [of |-> d, at |-> SymbolNumber(file.length, b, e)]

\* The documents of the buffer's length one of which ends it.
Endings(file, docs) ==
  LET b == NofSourceBlocks(file.length) - 1
      e == BlockLength(file.length, b) - 1
  IN {d \in docs : /\ FdtLength(d.entries) = file.length
                   /\ file.blocks[b + 1][e + 1] = [of |-> d, at |-> NofSourceSymbols(file.length)]}

\* What a buffer with pieces of several documents parses as: a mixture of their entries,
\* some perhaps with the contents of another.  Entries have one size here, so there are
\* no more of them than in the document that ends it.
Mixtures(file, docs) ==
  LET entries == UNION {d.entries : d \in PiecesOf(file, docs)}
      crossed == {[x EXCEPT !.data = y.data] : x \in entries, y \in entries}
  IN IF ~InPlace(file, docs) THEN {}
     ELSE {S \in (SUBSET crossed) \ {{}} :
             \E d \in Endings(file, docs) : Cardinality(S) <= Cardinality(d.entries)}

\* The tables a buffer parses as, given the documents there are: that of the document it
\* holds; a mixture; or none, of a garbled document, which does not parse.
Tables(file, docs) ==
  LET held == {d \in docs : Holds(file, d) /\ FdtLength(d.entries) = file.length}
  IN IF held # {} THEN {d.entries : d \in held} ELSE Mixtures(file, docs) \cup {None}

-----------------------------------------------------------------------------
(* handle_receive_from *)

\* (Mutant: an FDT document is started whatever instance is in use.)
FilesWithFdtAlways(packet) ==
  IF packet.toi = 0 /\ rfiles[0] = None
  THEN [rfiles EXCEPT ![0] = FdtFileOf(packet.length)] ELSE rfiles

\* A packet of an FDT instance other than the one in use starts a document, unless
\* one is being assembled.
FilesFor(packet) ==
  IF /\ packet.toi = 0 /\ rfiles[0] = None
     /\ (rfdt = None \/ rfdt.instance # packet.instance)
  THEN [rfiles EXCEPT ![0] = FdtFileOf(packet.length)] ELSE rfiles

\* A file is being assembled under the packet's TOI.
Wanted(packet) ==
  FilesFor(packet)[packet.toi] # None /\ ~Complete(FilesFor(packet)[packet.toi])

\* The files once the packet's symbols are put.
FilesWith(packet) ==
  [FilesFor(packet) EXCEPT ![packet.toi] = PutSymbols(@, packet)]

Completes(packet) == Complete(FilesWith(packet)[packet.toi])

\* Common to all outcomes: a receive was pending, and the receiver is not stopped.
Handles(packet) == status = "listening" /\ running

\* A literal is thrown, which no catch clause catches: the next receive is not asked for.
Throw ==
  /\ status' = "threw"
  /\ UNCHANGED <<rfdt, running, callback, delivered>>

\* A stopped receiver asks for no more packets.
ReceiveAfterStop ==
  /\ status = "listening" /\ ~running
  /\ status' = "stopped"
  /\ UNCHANGED <<rfiles, rfdt, running, callback, delivered>>

\* The socket reports an error.
ReceiveFails ==
  /\ status = "listening" /\ running
  /\ status' = "failed"
  /\ UNCHANGED <<rfiles, rfdt, running, callback, delivered>>

\* A packet for an unknown or already complete file changes nothing.
Discard(packet) ==
  /\ Handles(packet)
  /\ ~Wanted(packet)
  /\ UNCHANGED receiverVars

RefuseSymbols(packet) ==
  /\ Handles(packet)
  /\ Wanted(packet)
  /\ OutOfRange(FilesFor(packet)[packet.toi], packet)
  /\ rfiles' = FilesFor(packet)
  /\ Throw

\* Its symbols are put, and its file still has others to come.
KeepSymbols(packet) ==
  /\ Handles(packet)
  /\ Wanted(packet)
  /\ ~OutOfRange(FilesFor(packet)[packet.toi], packet)
  /\ ~Completes(packet)
  /\ rfiles' = FilesWith(packet)
  /\ UNCHANGED <<rfdt, running, status, callback, delivered>>

\* Its symbols are put and complete its file.
Fills(packet) ==
  /\ Handles(packet)
  /\ Wanted(packet)
  /\ ~OutOfRange(FilesFor(packet)[packet.toi], packet)
  /\ Completes(packet)

\* The files then, those the complete one replaces dropped.
FilesLeft(packet) == WithoutReplaced(FilesWith(packet), packet.toi)

\* A complete file that does not decode.
FailDecode(packet) ==
  /\ packet.toi # 0
  /\ Fills(packet)
  /\ DecodeThrows(FilesLeft(packet)[packet.toi])
  /\ rfiles' = FilesLeft(packet)
  /\ Throw

\* One that does, when there is nobody to hand it to: it stays.  (If it was reopened,
\* its cells are those of a buffer that is gone.)
KeepComplete(packet) ==
  /\ packet.toi # 0
  /\ Fills(packet)
  /\ ~DecodeThrows(FilesLeft(packet)[packet.toi])
  /\ ~callback
  /\ rfiles' = [FilesLeft(packet) EXCEPT ![packet.toi] = Decoded(@)]
  /\ UNCHANGED <<rfdt, running, status, callback, delivered>>

\* (Mutant: the FDT's documents are handed over too.)
HandOverAny(packet) ==
  LET file == FilesLeft(packet)[packet.toi]
  IN /\ Fills(packet)
     /\ ~DecodeThrows(file)
     /\ callback
     /\ delivered' = delivered \cup {[entry |-> file.entry, data |-> Contents(file)]}
     /\ rfiles' = [FilesLeft(packet) EXCEPT ![packet.toi] = None]
     /\ UNCHANGED <<rfdt, running, status, callback>>

\* The application is handed it, whatever decode's check found.
HandOver(packet) ==
  LET file == FilesLeft(packet)[packet.toi]
  IN /\ packet.toi # 0
     /\ Fills(packet)
     /\ ~DecodeThrows(file)
     /\ callback
     /\ delivered' = delivered \cup {[entry |-> file.entry, data |-> Contents(file)]}
     /\ rfiles' = [FilesLeft(packet) EXCEPT ![packet.toi] = None]
     /\ UNCHANGED <<rfdt, running, status, callback>>

\* One entry for each TOI: the first in the document, whose order is not modelled.
FirstEntries(entries) ==
  {S \in SUBSET entries : \A e \in entries : \E first \in S :
     \A s \in S : s.toi = e.toi <=> s = first}

\* (Mutant: a file is started for the first of them only.)
WithFirstStarted(fs, S) ==
  [toi \in Toi |-> IF fs[toi] = None /\ \E e \in S : e.toi = toi /\ \A f \in S : e.toi <= f.toi
                   THEN FileFor(CHOOSE e \in S : e.toi = toi) ELSE fs[toi]]

\* A file is started for each TOI that has none; the others go on as they were.
WithStarted(fs, S) ==
  [toi \in Toi |-> IF fs[toi] = None /\ \E e \in S : e.toi = toi
                   THEN FileFor(CHOOSE e \in S : e.toi = toi) ELSE fs[toi]]

\* (Mutant: the entries of the FDT in use go on being listed.)
TakeFdtMerged(packet, docs) ==
  /\ packet.toi = 0
  /\ Fills(packet)
  /\ \E entries \in Tables(FilesLeft(packet)[0], docs) \ {None} :
       LET all == IF rfdt = None THEN entries ELSE entries \cup rfdt.entries
       IN /\ rfdt' = [instance |-> packet.instance, entries |-> all]
          /\ \E S \in FirstEntries(all) :
               rfiles' = WithStarted([FilesLeft(packet) EXCEPT ![0] = None], S)
          /\ UNCHANGED <<running, status, callback, delivered>>

\* A complete FDT document becomes the FDT in use, under the instance of this packet.  One
\* that does not parse ends the receiver, by a literal or a null pointer, or raises an
\* exception that is caught, of the number in Expires: it stays then, complete, and no
\* packet of an FDT is looked at any more.
TakeFdt(packet, docs) ==
  /\ packet.toi = 0
  /\ Fills(packet)
  /\ \E entries \in Tables(FilesLeft(packet)[0], docs) :
       IF entries = None
       THEN /\ rfiles' = FilesLeft(packet)
            /\ status' \in {"threw", status}
            /\ UNCHANGED <<rfdt, running, callback, delivered>>
       ELSE /\ rfdt' = [instance |-> packet.instance, entries |-> entries]
            /\ \E S \in FirstEntries(entries) :
                 rfiles' = WithStarted([FilesLeft(packet) EXCEPT ![0] = None], S)
            /\ UNCHANGED <<running, status, callback, delivered>>

Receive(packet, docs) ==
  \/ Discard(packet)
  \/ RefuseSymbols(packet)
  \/ KeepSymbols(packet)
  \/ FailDecode(packet)
  \/ KeepComplete(packet)
  \/ HandOver(packet)
  \/ TakeFdt(packet, docs)

-----------------------------------------------------------------------------
(* Calls of the application *)

RegisterCallback ==
  /\ callback' = TRUE
  /\ UNCHANGED <<rfiles, rfdt, running, status, delivered>>

Stop ==
  /\ running' = FALSE
  /\ UNCHANGED <<rfiles, rfdt, status, callback, delivered>>

Without(tois) == [toi \in Toi |-> IF toi \in tois THEN None ELSE rfiles[toi]]

\* remove_expired_files: those started long enough ago, which may be any of them.
RemoveExpired(tois) ==
  /\ \A toi \in tois : rfiles[toi] # None /\ LocationOf(rfiles[toi]) # Bootstrap
  /\ rfiles' = Without(tois)
  /\ UNCHANGED <<rfdt, running, status, callback, delivered>>

RemoveLocation(location) ==
  /\ rfiles' = Without({toi \in Toi : rfiles[toi] # None /\ LocationOf(rfiles[toi]) = location})
  /\ UNCHANGED <<rfdt, running, status, callback, delivered>>

ReceiverInit ==
  /\ rfiles = [toi \in Toi |-> None]
  /\ rfdt = None
  /\ running = TRUE /\ status = "listening" /\ callback = FALSE
  /\ delivered = {}

ReceiverCalls ==
  \/ RegisterCallback
  \/ Stop
  \/ \E tois \in SUBSET Toi : RemoveExpired(tois)
  \/ \E meta \in Meta : RemoveLocation(Location[meta])
================================================================================
