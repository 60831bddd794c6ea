----------------------------- MODULE AnnounceProofs ----------------------------
(***************************************************************************)
(* The table, the documents and the files: the entry of each file queued   *)
(* is in the table; and no file's transmission ends before an FDT with its *)
(* entry was sent whole, while every packet is taken and no document is    *)
(* replaced in the queue with a packet of it in flight.                    *)
(***************************************************************************)
EXTENDS PacketProofs

-----------------------------------------------------------------------------
(* What send_fdt leaves in the queue *)

LEMMA LiveKeepsQueue ==
  ASSUME NEW fs, NEW os, NEW infl, Heap(fs, os, infl), NEW toi \in Toi, fs[toi] # None
  PROVE  Live(os, fs, infl)[fs[toi]] = os[fs[toi]]
  BY DEF Heap, Live, Referenced

\* What send_fdt leaves in the queue: the files that were there, and a document of the table
\* unless it has no entries.
LEMMA SendFdtResult ==
  ASSUME NEW table \in Table, NEW fs, NEW os, NEW infl, Heap(fs, os, infl),
         symbolLength \in Nat \ {0}, \E i \in FileId : os[i] = None,
         SendFdt(table, fs, os, infl)
  PROVE  /\ fdt'.entries = table.entries
         /\ \A toi \in 1..ToiMax :
              files'[toi] = fs[toi] /\ (fs[toi] # None => objs'[fs[toi]] = os[fs[toi]])
         /\ table.entries = NoEntries =>
              files'[0] = fs[0] /\ (fs[0] # None => objs'[fs[0]] = os[fs[0]])
         /\ table.entries # NoEntries =>
              /\ files'[0] \in FileId /\ files'[0] # fs[0] /\ os[files'[0]] = None
              /\ objs'[files'[0]] = FdtFile(table)
<1>1. CASE table.entries = NoEntries
  <2>1. fdt' = table /\ files' = fs /\ objs' = Live(os, fs, infl)
    BY <1>1 DEF SendFdt
  <2>2. 0 \in Toi /\ 1..ToiMax \subseteq Toi
    BY TableAssumption DEF Toi
  <2> QED
    BY <1>1, <2>1, <2>2, LiveKeepsQueue
<1>2. CASE table.entries # NoEntries
  <2> DEFINE id == Fresh(os)
             fs2 == [fs EXCEPT ![0] = id]
             os2 == [os EXCEPT ![id] = FdtFile(table)]
  <2>1. fdt' = Sent(table) /\ files' = fs2 /\ objs' = Live(os2, fs2, infl)
    BY <1>2 DEF SendFdt
  <2>2. /\ id \in FileId /\ os[id] = None
        /\ FdtFile(table) \in FileObject /\ FdtFile(table).toi = 0
    BY FreshType, FdtFileType
  <2>3. Heap(fs2, os2, infl)
    BY <2>2, InsertKeepsHeap
  <2>4. /\ 0 \in Toi /\ fs2[0] = id /\ id # None /\ id # fs[0] /\ os2[id] = FdtFile(table)
        /\ \A toi \in 1..ToiMax : toi \in Toi /\ fs2[toi] = fs[toi]
    BY <2>2, NoneAssumption, TableAssumption DEF Heap, Toi
  <2>5. \A toi \in 1..ToiMax : fs[toi] # None => os2[fs[toi]] = os[fs[toi]]
    BY <2>2, <2>4 DEF Heap
  <2>6. fdt'.entries = table.entries
    BY <2>1 DEF Sent, Table
  <2> HIDE DEF id, fs2, os2
  <2>7. \A toi \in Toi : fs2[toi] # None => objs'[fs2[toi]] = os2[fs2[toi]]
    BY <2>1, <2>3, LiveKeepsQueue
  <2> QED
    BY <1>2, <2>1, <2>2, <2>4, <2>5, <2>6, <2>7
<1> QED
  BY <1>1, <1>2

-----------------------------------------------------------------------------
(* The entry of each file queued *)

\* Each file queued has its entry in the table.
FilesListed(entries, fs, os) ==
  \A toi \in 1..ToiMax : fs[toi] # None =>
    os[fs[toi]].entry.toi = toi /\ entries[os[fs[toi]].entry] > 0

ListedInv == FilesListed(fdt.entries, files, objs)

LEMMA QueuedEntry ==
  ASSUME NEW fs, NEW os, NEW infl, Heap(fs, os, infl), NEW toi \in 1..ToiMax, fs[toi] # None
  PROVE  /\ toi \in Toi /\ fs[toi] \in FileId
         /\ os[fs[toi]] \in FileObject /\ os[fs[toi]].entry \in Entry
<1>1. toi \in Toi /\ toi # 0
  BY TableAssumption DEF Toi
<1>2. fs[toi] \in FileId /\ os[fs[toi]] \in FileObject /\ os[fs[toi]].toi = toi
  BY <1>1 DEF Heap
<1> QED
  BY <1>1, <1>2 DEF FileObject, FileOf

LEMMA SendFdtLists ==
  ASSUME NEW table \in Table, NEW fs, NEW os, NEW infl, Heap(fs, os, infl),
         symbolLength \in Nat \ {0}, \E i \in FileId : os[i] = None,
         SendFdt(table, fs, os, infl), FilesListed(table.entries, fs, os)
  PROVE  ListedInv'
<1>1. fdt'.entries = table.entries
  BY SendFdtResult
<1>2. \A toi \in 1..ToiMax : files'[toi] = fs[toi] /\ (fs[toi] # None => objs'[fs[toi]] = os[fs[toi]])
  BY SendFdtResult
<1> QED
  BY <1>1, <1>2 DEF ListedInv, FilesListed

\* A new file comes with its entry; under a TOI that has a file, its entry stays.
LEMMA EnqueueLists ==
  ASSUME TypeInv, ListedInv, RoomForTwo,
         NEW entry \in Entry, NEW symLen \in Nat \ {0}, Enqueue(entry, symLen)
  PROVE  ListedInv'
<1> DEFINE id  == Fresh(objs)
           new == files[entry.toi] = None
           fs  == IF new THEN [files EXCEPT ![entry.toi] = id] ELSE files
           os  == IF new THEN [objs EXCEPT ![id] = DataFile(entry, symLen)] ELSE objs
<1>1. id \in FileId /\ objs[id] = None
  BY FreshType DEF RoomForTwo
<1>2. /\ DataFile(entry, symLen) \in FileObject /\ DataFile(entry, symLen).toi = entry.toi
      /\ DataFile(entry, symLen).entry = entry
  BY DataFileType DEF DataFile
<1>3. Heap(fs, os, inflight)
  BY <1>1, <1>2, InsertKeepsHeap DEF TypeInv
<1>4. \E i \in FileId : os[i] = None
  BY <1>1 DEF RoomForTwo, TypeInv, TypeOK
<1>5. /\ fdt \in Table /\ symbolLength \in Nat \ {0} /\ files \in [Toi -> FileId \cup {None}]
      /\ objs \in [FileId -> FileObject \cup {None}]
  BY DEF TypeInv, TypeOK
<1>6. /\ Add(fdt, entry) \in Table
      /\ Add(fdt, entry).entries = [fdt.entries EXCEPT ![entry] = @ + 1]
  BY <1>5, AddType
<1>7. SendFdt(Add(fdt, entry), fs, os, inflight)
  BY DEF Enqueue
<1>8. FilesListed(Add(fdt, entry).entries, fs, os)
  <2> SUFFICES ASSUME NEW toi \in 1..ToiMax, fs[toi] # None
               PROVE  os[fs[toi]].entry.toi = toi /\ Add(fdt, entry).entries[os[fs[toi]].entry] > 0
    BY DEF FilesListed
  <2>1. toi \in Toi /\ entry.toi \in Toi /\ entry.toi \in 1..ToiMax
    BY DEF Entry, Toi
  <2>2. fdt.entries \in [Entry -> Nat]
    BY <1>5 DEF Table, Bags
  <2>3. CASE new /\ toi = entry.toi
    <3>1. os[fs[toi]].entry = entry
      BY <1>1, <1>2, <1>5, <2>1, <2>3
    <3> QED
      BY <1>6, <2>2, <2>3, <3>1
  <2>4. CASE ~(new /\ toi = entry.toi)
    <3>1. fs[toi] = files[toi] /\ files[toi] # None
      BY <1>5, <2>1, <2>4
    <3>2. /\ files[toi] \in FileId /\ objs[files[toi]].entry \in Entry
          /\ objs[files[toi]] # None
      BY <2>1, <3>1, QueuedEntry DEF TypeInv, Heap
    <3>3. os[files[toi]] = objs[files[toi]]
      BY <1>1, <1>5, <3>2
    <3>4. objs[files[toi]].entry.toi = toi /\ fdt.entries[objs[files[toi]].entry] > 0
      BY <3>1 DEF ListedInv, FilesListed
    <3>5. Add(fdt, entry).entries[objs[files[toi]].entry] > 0
      BY <1>6, <2>2, <3>2, <3>4
    <3> QED
      BY <3>1, <3>3, <3>4, <3>5
  <2> QED
    BY <2>3, <2>4
<1> HIDE DEF fs, os
<1> QED
  BY <1>3, <1>4, <1>5, <1>6, <1>7, <1>8, SendFdtLists

\* Two objects of one file, or of one document.
SameLabel(file, file2) ==
  /\ file2.toi = file.toi /\ file2.entry = file.entry
  /\ file2.instance = file.instance /\ file2.table = file.table

LEMMA MarkedLabel ==
  ASSUME NEW file \in FileObject, NEW picked, NEW carried
  PROVE  SameLabel(file, MarkQueued(file, picked))
         /\ SameLabel(file, MarkCompleted(file, picked, carried))
  BY DEF SameLabel, MarkQueued, MarkCompleted, FileObject, FileOf

LEMMA UpdateLists ==
  ASSUME NEW entries, NEW fs, NEW os, NEW infl, Heap(fs, os, infl), FilesListed(entries, fs, os),
         NEW id \in FileId, NEW file, SameLabel(os[id], file)
  PROVE  FilesListed(entries, fs, [os EXCEPT ![id] = file])
<1> SUFFICES ASSUME NEW toi \in 1..ToiMax, fs[toi] # None
             PROVE  [os EXCEPT ![id] = file][fs[toi]].entry = os[fs[toi]].entry
  BY DEF FilesListed
<1>1. fs[toi] \in FileId
  BY QueuedEntry
<1> QED
  BY <1>1 DEF Heap, SameLabel

LEMMA SendNextPacketLists ==
  ASSUME TypeInv, ListedInv, NEW r, NEW w, SendNextPacket(r, w), UNCHANGED <<files, fdt>>
  PROVE  ListedInv'
<1>1. CASE SendNothing(r, w)
  BY <1>1 DEF SendNothing, ListedInv
<1>2. CASE ~SendNothing(r, w)
  <2> DEFINE id == files[Min(Incomplete)]
             file == MarkQueued(objs[id], NextSymbols(objs[id], maxPayload))
  <2>1. Incomplete # {} /\ SendPacket(id, r, w)
    BY <1>2 DEF SendNextPacket
  <2>2. id \in FileId /\ objs[id] \in FileObject
    BY <2>1, HeadOfQueue
  <2>3. objs' = [objs EXCEPT ![id] = file]
    BY <2>1 DEF SendPacket
  <2>4. SameLabel(objs[id], file)
    <3> HIDE DEF id
    <3> QED
      BY <2>2, MarkedLabel
  <2> HIDE DEF id, file
  <2> QED
    BY <2>2, <2>3, <2>4, UpdateLists DEF ListedInv, TypeInv
<1> QED
  BY <1>1, <1>2

\* The files still queued keep their objects and entries.
LEMMA LiveLists ==
  ASSUME NEW os, NEW infl, Heap(files, os, infl), FilesListed(fdt.entries, files, os),
         objs' = Live(os, files, infl), UNCHANGED <<files, fdt>>
  PROVE  ListedInv'
<1>1. \A toi \in 1..ToiMax : files[toi] # None => objs'[files[toi]] = os[files[toi]]
  BY QueuedEntry, LiveKeepsQueue
<1> QED
  BY <1>1 DEF ListedInv, FilesListed

\* The entries that leave with a file are of no other file queued.
LEMMA FileTransmittedLists ==
  ASSUME NEW toi \in 1..ToiMax, NEW os, NEW infl, Heap(files, os, infl),
         fdt \in Table, symbolLength \in Nat \ {0}, \E i \in FileId : os[i] = None,
         FilesListed(fdt.entries, files, os), FileTransmitted(toi, os, infl)
  PROVE  ListedInv'
<1> DEFINE fs == [files EXCEPT ![toi] = None]
<1>1. toi \in Toi /\ toi # 0
  BY TableAssumption DEF Toi
<1>2. SendFdt(Remove(fdt, toi), fs, os, infl)
  BY <1>1 DEF FileTransmitted
<1>3. /\ Remove(fdt, toi) \in Table
      /\ Remove(fdt, toi).entries = [e \in Entry |-> IF e.toi = toi THEN 0 ELSE fdt.entries[e]]
  BY <1>1, RemoveType
<1>4. Heap(fs, os, infl)
  BY <1>1, EraseKeepsHeap
<1>5. FilesListed(Remove(fdt, toi).entries, fs, os)
  <2> SUFFICES ASSUME NEW t \in 1..ToiMax, fs[t] # None
               PROVE  os[fs[t]].entry.toi = t /\ Remove(fdt, toi).entries[os[fs[t]].entry] > 0
    BY DEF FilesListed
  <2>1. fs[t] = files[t] /\ t # toi
    BY <1>1 DEF Heap, Toi
  <2>2. os[files[t]].entry.toi = t /\ fdt.entries[os[files[t]].entry] > 0
    BY <2>1 DEF FilesListed
  <2>3. os[files[t]].entry \in Entry
    BY <2>1, QueuedEntry
  <2> HIDE DEF fs
  <2> QED
    BY <1>3, <2>1, <2>2, <2>3
<1> HIDE DEF fs
<1> QED
  BY <1>2, <1>3, <1>4, <1>5, SendFdtLists

LEMMA SendSucceedsLists ==
  ASSUME TypeInv, ListedInv, SendSucceeds
  PROVE  ListedInv'
<1> DEFINE packet == Head(inflight)
           rest == Tail(inflight)
           file == MarkCompleted(objs[packet.file], packet.picked, packet.carried)
           os   == [objs EXCEPT ![packet.file] = file]
<1>1. /\ inflight # <<>> /\ RoomForOne /\ inflight' = rest /\ inflight \in Seq(Packet)
      /\ objs \in [FileId -> FileObject \cup {None}]
      /\ files \in [Toi -> FileId \cup {None}] /\ fdt \in Table /\ symbolLength \in Nat \ {0}
  BY DEF SendSucceeds, TypeInv, TypeOK
<1>2. /\ file \in FileObject /\ Heap(files, os, rest) /\ \E i \in FileId : os[i] = None
  BY <1>1, CompletionType
<1>3. packet.file \in FileId /\ objs[packet.file] \in FileObject
  <2>1. packet = inflight[1] /\ 1 \in DOMAIN inflight
    BY <1>1, TailElements
  <2> QED
    BY <1>1, <2>1, PacketsInFlight DEF TypeInv, Heap
<1>4. FilesListed(fdt.entries, files, os)
  <2>1. SameLabel(objs[packet.file], file)
    BY <1>3, MarkedLabel
  <2> HIDE DEF file, packet
  <2> QED
    BY <1>3, <2>1, UpdateLists DEF ListedInv, TypeInv
<1>5. CASE ~Complete(file)
  <2>1. objs' = Live(os, files, rest) /\ UNCHANGED <<files, fdt>>
    BY <1>5 DEF SendSucceeds
  <2> HIDE DEF os, rest
  <2> QED
    BY <1>2, <1>4, <2>1, LiveLists
<1>6. CASE Complete(file)
  <2>1. FileTransmitted(file.toi, os, rest)
    BY <1>6 DEF SendSucceeds
  <2>2. file.toi \in 0..ToiMax
    BY <1>2, TableAssumption DEF FileObject, FileOf
  <2> HIDE DEF os, rest, file
  <2>3. CASE file.toi = 0
    <3> DEFINE fs == [files EXCEPT ![0] = None]
    <3>1. objs' = Live(os, fs, rest) /\ files' = fs /\ fdt' = fdt
      BY <2>1, <2>3 DEF FileTransmitted
    <3>2. 0 \in Toi /\ \A toi \in 1..ToiMax : toi \in Toi /\ fs[toi] = files[toi]
      BY <1>1, TableAssumption DEF Toi
    <3>3. Heap(fs, os, rest)
      BY <1>2, <3>2, EraseKeepsHeap
    <3> HIDE DEF fs
    <3>4. \A toi \in 1..ToiMax : fs[toi] # None => objs'[fs[toi]] = os[fs[toi]]
      BY <3>1, <3>2, <3>3, LiveKeepsQueue
    <3> QED
      BY <1>4, <3>1, <3>2, <3>4 DEF ListedInv, FilesListed
  <2>4. CASE file.toi # 0
    BY <1>1, <1>2, <1>4, <2>1, <2>2, <2>4, FileTransmittedLists
  <2> QED
    BY <2>3, <2>4
<1> QED
  BY <1>5, <1>6

LEMMA SendFailsLists ==
  ASSUME TypeInv, ListedInv, SendFails
  PROVE  ListedInv'
<1>1. /\ inflight # <<>> /\ objs' = Live(objs, files, Tail(inflight))
      /\ UNCHANGED <<files, fdt>>
  BY DEF SendFails
<1>2. Heap(files, objs, Tail(inflight))
  BY <1>1, TailKeepsHeap DEF TypeInv
<1> QED
  BY <1>1, <1>2, LiveLists DEF ListedInv

LEMMA FdtSendTickLists ==
  ASSUME TypeInv, ListedInv, FdtSendTick
  PROVE  ListedInv'
<1>1. CASE ~active
  BY <1>1 DEF FdtSendTick, queue, ListedInv
<1>2. CASE active
  <2>1. SendFdt(fdt, files, objs, inflight) /\ RoomForOne
    BY <1>2 DEF FdtSendTick
  <2> QED
    BY <2>1, SendFdtLists DEF TypeInv, TypeOK, RoomForOne, ListedInv
<1> QED
  BY <1>1, <1>2

\* The entry a description is sent with.
LEMMA SentEntry ==
  ASSUME TypeInv, NEW d \in Desc, Send(d)
  PROVE  [desc[d] EXCEPT !.toi = IF desc[d].toi = 0 THEN nextToi ELSE desc[d].toi] \in Entry
<1>1. desc[d] \in [toi : 0..ToiMax, data : Data, meta : Meta] /\ nextToi \in 1..ToiMax
  BY DEF TypeInv, TypeOK, Description, Toi
<1>2. (IF desc[d].toi = 0 THEN nextToi ELSE desc[d].toi) \in 1..ToiMax
  BY <1>1, TableAssumption
<1> QED
  BY <1>1, <1>2 DEF Entry

LEMMA SendLists ==
  ASSUME TypeInv, ListedInv,
         (\E d \in Desc : Send(d)) \/ (\E data \in Data, meta \in Meta : SendBuffer(data, meta))
  PROVE  ListedInv'
<1>1. ASSUME NEW d \in Desc, Send(d)
      PROVE  ListedInv'
  <2> DEFINE toi == IF desc[d].toi = 0 THEN nextToi ELSE desc[d].toi
             entry == [desc[d] EXCEPT !.toi = toi]
  <2>1. entry \in Entry
    BY <1>1, SentEntry
  <2>2. Enqueue(entry, MergedSymbolLength(d)) /\ RoomForTwo
    BY <1>1 DEF Send
  <2>3. MergedSymbolLength(d) \in Nat \ {0}
    BY SymbolLengthsType
  <2> HIDE DEF entry
  <2> QED
    BY <2>1, <2>2, <2>3, EnqueueLists
<1>2. ASSUME NEW data \in Data, NEW meta \in Meta, SendBuffer(data, meta)
      PROVE  ListedInv'
  <2> DEFINE entry == [toi |-> nextToi, data |-> data, meta |-> meta]
  <2>1. entry \in Entry /\ symbolLength \in Nat \ {0}
    BY DEF TypeInv, TypeOK, Entry
  <2>2. Enqueue(entry, symbolLength) /\ RoomForTwo
    BY <1>2 DEF SendBuffer
  <2> HIDE DEF entry
  <2> QED
    BY <2>1, <2>2, EnqueueLists
<1> QED
  BY <1>1, <1>2

LEMMA StepLists ==
  ASSUME TypeInv, ListedInv, [Next]_vars
  PROVE  ListedInv'
<1>1. ASSUME UNCHANGED <<files, objs, fdt>>
      PROVE  ListedInv'
  BY <1>1 DEF ListedInv
<1>2. CASE UNCHANGED vars
  BY <1>1, <1>2 DEF vars, queue
<1>3. CASE SetRateLimit \/ SetTunnel \/ SendTimerExpires \/ FdtTimerExpires \/ Deactivate
  BY <1>1, <1>3 DEF SetRateLimit, SetTunnel, SendTimerExpires, FdtTimerExpires, Deactivate, queue
<1>4. ASSUME NEW d \in Desc, (\E data \in Data : SetContent(d, data))
                               \/ (\E meta \in Meta : SetMetadata(d, meta))
      PROVE  ListedInv'
  BY <1>1, <1>4 DEF SetContent, SetMetadata, queue
<1>5. CASE RunSendNextPacket \/ Activate
  <2>1. UNCHANGED <<files, fdt>>
    BY <1>5 DEF RunSendNextPacket, Activate
  <2>2. CASE UNCHANGED objs
    BY <1>1, <2>1, <2>2
  <2>3. CASE ~UNCHANGED objs
    BY <1>5, <2>1, <2>3, SendNextPacketLists DEF RunSendNextPacket, Activate
  <2> QED
    BY <2>2, <2>3
<1> QED
  BY <1>2, <1>3, <1>4, <1>5, SendLists, SendSucceedsLists, SendFailsLists, FdtSendTickLists
  DEF Next, ApplicationCalls, Handlers

\* What is sent under a TOI is announced as it is, contents and metadata, for any calls and
\* outcomes: send adds an entry even when it adds no file, and an entry goes only with the
\* file of its TOI.
THEOREM QueuedFilesAreListed == Spec => []QueuedFileIsListed
<1>1. Init => ListedInv
  <2>1. 1..ToiMax \subseteq Toi
    BY TableAssumption DEF Toi
  <2> QED
    BY <2>1 DEF Init, ListedInv, FilesListed
<1>2. TypeInv /\ ListedInv /\ [Next]_vars => ListedInv'
  BY StepLists
<1>3. ListedInv => QueuedFileIsListed
  BY DEF ListedInv, FilesListed, QueuedFileIsListed
<1> QED
  BY <1>1, <1>2, <1>3, TypeInvariant, PTL DEF Spec

-----------------------------------------------------------------------------
(* No file is sent before its entry *)

\* Some FDT instance sent whole has the entry.
IsAired(entry, air) == \E a \in air : a.table[entry] > 0

Started(file) == \E i \in DOMAIN file.symbols : file.symbols[i] # "pending"

\* A file some of whose packets were sent was announced before.
StartedAired(fs, os, air) ==
  \A toi \in 1..ToiMax : fs[toi] # None /\ Started(os[fs[toi]]) => IsAired(os[fs[toi]].entry, air)

\* The packets of the FDT in flight are of the document queued.
FdtQueued(fs, os, infl) ==
  \A k \in DOMAIN infl : os[infl[k].file].toi = 0 => infl[k].file = fs[0]

\* What is listed is in the document queued, which is not complete; when there is none, it
\* was sent whole.
FdtCurrent(entries, fs, os, air) ==
  /\ fs[0] = None => \A e \in Entry : entries[e] > 0 => IsAired(e, air)
  /\ fs[0] # None => /\ ~Complete(os[fs[0]])
                     /\ \A e \in Entry : entries[e] > 0 => os[fs[0]].table[e] > 0

Announced(entries, fs, os, infl, air) ==
  /\ FilesListed(entries, fs, os)
  /\ StartedAired(fs, os, air)
  /\ FdtQueued(fs, os, infl)
  /\ FdtCurrent(entries, fs, os, air)

AnnouncedInv == Announced(fdt.entries, files, objs, inflight, aired)

LEMMA PendingIncomplete ==
  ASSUME NEW file \in FileObject, \A i \in DOMAIN file.symbols : file.symbols[i] = "pending"
  PROVE  ~Complete(file) /\ ~Started(file)
<1>1. file.symbols \in Seq(SymbolState)
  BY DEF FileObject, FileOf
<1>2. file.symbols # <<>> => 1 \in DOMAIN file.symbols
  BY <1>1, TailElements
<1> QED
  BY <1>2 DEF Complete, Started

\* A new document may be queued, for none is in flight.
LEMMA SendFdtAnnounced ==
  ASSUME NEW table \in Table, NEW fs, NEW os, NEW infl, Heap(fs, os, infl),
         symbolLength \in Nat \ {0}, \E i \in FileId : os[i] = None,
         SendFdt(table, fs, os, infl), NEW air,
         FilesListed(table.entries, fs, os), StartedAired(fs, os, air), FdtQueued(fs, os, infl),
         fs[0] # None => ~Complete(os[fs[0]]),
         table.entries # NoEntries => \A k \in DOMAIN infl : os[infl[k].file].toi # 0
  PROVE  Announced(fdt'.entries, files', objs', infl, air)
<1>1. /\ fdt'.entries = table.entries
      /\ \A toi \in 1..ToiMax :
           files'[toi] = fs[toi] /\ (fs[toi] # None => objs'[fs[toi]] = os[fs[toi]])
      /\ table.entries = NoEntries =>
           files'[0] = fs[0] /\ (fs[0] # None => objs'[fs[0]] = os[fs[0]])
      /\ table.entries # NoEntries => files'[0] \in FileId /\ objs'[files'[0]] = FdtFile(table)
  BY SendFdtResult
<1>2. \A k \in DOMAIN infl : objs'[infl[k].file] = os[infl[k].file]
  BY SendFdtKeepsObjects
<1>3. FilesListed(fdt'.entries, files', objs')
  BY <1>1 DEF FilesListed
<1>4. StartedAired(files', objs', air)
  BY <1>1 DEF StartedAired
<1>5. FdtQueued(files', objs', infl)
  BY <1>1, <1>2 DEF FdtQueued
<1>6. FdtCurrent(fdt'.entries, files', objs', air)
  <2>1. CASE table.entries = NoEntries
    <3>1. \A e \in Entry : ~(fdt'.entries[e] > 0)
      BY <1>1, <2>1 DEF NoEntries
    <3> QED
      BY <1>1, <2>1, <3>1 DEF FdtCurrent
  <2>2. CASE table.entries # NoEntries
    <3>1. /\ FdtFile(table) \in FileObject
          /\ \A i \in DOMAIN FdtFile(table).symbols : FdtFile(table).symbols[i] = "pending"
      BY FdtFileType, NewObjectPending DEF NewObject
    <3>2. ~Complete(FdtFile(table))
      BY <3>1, PendingIncomplete
    <3>3. FdtFile(table).table = table.entries
      BY DEF FdtFile
    <3>4. files'[0] # None
      BY <1>1, <2>2, NoneAssumption
    <3> QED
      BY <1>1, <2>2, <3>2, <3>3, <3>4 DEF FdtCurrent
  <2> QED
    BY <2>1, <2>2
<1> QED
  BY <1>3, <1>4, <1>5, <1>6 DEF Announced

LEMMA NoFdtInFlight ==
  ASSUME NEW table \in Table, NEW fs, NEW os, NEW infl, Heap(fs, os, infl),
         symbolLength \in Nat \ {0}, \E i \in FileId : os[i] = None,
         SendFdt(table, fs, os, infl), fs[0] = files[0],
         NoStaleFdt, table.entries # NoEntries
  PROVE  \A k \in DOMAIN inflight : objs[inflight[k].file].toi # 0
<1>1. files'[0] \in FileId /\ files'[0] # files[0]
  BY SendFdtResult
<1>2. ~FdtInFlight
  BY <1>1, NoneAssumption DEF NoStaleFdt
<1> QED
  BY <1>2 DEF FdtInFlight

LEMMA EnqueueAnnounced ==
  ASSUME TypeInv, AnnouncedInv, RoomForTwo, NoStaleFdt, UNCHANGED <<inflight, aired>>,
         NEW entry \in Entry, NEW symLen \in SymbolLengths, Enqueue(entry, symLen)
  PROVE  AnnouncedInv'
<1> DEFINE id  == Fresh(objs)
           new == files[entry.toi] = None
           fs  == IF new THEN [files EXCEPT ![entry.toi] = id] ELSE files
           os  == IF new THEN [objs EXCEPT ![id] = DataFile(entry, symLen)] ELSE objs
<1>1. id \in FileId /\ objs[id] = None
  BY FreshType DEF RoomForTwo
<1>2. /\ DataFile(entry, symLen) \in FileObject /\ DataFile(entry, symLen).toi = entry.toi
      /\ DataFile(entry, symLen).entry = entry
      /\ \A i \in DOMAIN DataFile(entry, symLen).symbols :
            DataFile(entry, symLen).symbols[i] = "pending"
  BY SymbolLengthsType, DataFileType, NewObjectPending DEF DataFile, NewObject
<1>3. Heap(fs, os, inflight)
  BY <1>1, <1>2, InsertKeepsHeap DEF TypeInv
<1>4. \E i \in FileId : os[i] = None
  BY <1>1 DEF RoomForTwo, TypeInv, TypeOK
<1>5. /\ fdt \in Table /\ symbolLength \in Nat \ {0} /\ files \in [Toi -> FileId \cup {None}]
      /\ objs \in [FileId -> FileObject \cup {None}]
  BY DEF TypeInv, TypeOK
<1>6. /\ Add(fdt, entry) \in Table
      /\ Add(fdt, entry).entries = [fdt.entries EXCEPT ![entry] = @ + 1]
  BY <1>5, AddType
<1>7. SendFdt(Add(fdt, entry), fs, os, inflight)
  BY DEF Enqueue
<1>8. fdt.entries \in [Entry -> Nat]
  BY <1>5 DEF Table, Bags
<1>9. /\ 0 \in Toi /\ 1..ToiMax \subseteq Toi /\ entry.toi \in 1..ToiMax
      /\ fs[0] = files[0]
      /\ \A toi \in Toi : fs[toi] = files[toi]
           \/ (toi = entry.toi /\ fs[toi] = id /\ os[id] = DataFile(entry, symLen))
      /\ \A toi \in Toi : files[toi] # None =>
           fs[toi] = files[toi] /\ os[fs[toi]] = objs[files[toi]]
  <2>1. 0 \in Toi /\ 1..ToiMax \subseteq Toi /\ entry.toi \in 1..ToiMax /\ entry.toi # 0
    BY TableAssumption DEF Entry, Toi
  <2>2. \A toi \in Toi : files[toi] # None => files[toi] \in FileId /\ files[toi] # id
    BY <1>1, <1>5 DEF TypeInv, Heap
  <2> QED
    BY <1>1, <1>5, <2>1, <2>2
<1>10. \A k \in DOMAIN inflight : os[inflight[k].file] = objs[inflight[k].file]
  BY <1>1, PacketsInFlight DEF TypeInv, Heap
<1>11. FilesListed(Add(fdt, entry).entries, fs, os)
  <2> SUFFICES ASSUME NEW toi \in 1..ToiMax, fs[toi] # None
               PROVE  /\ os[fs[toi]].entry.toi = toi
                      /\ Add(fdt, entry).entries[os[fs[toi]].entry] > 0
    BY DEF FilesListed
  <2> HIDE DEF fs, os, id
  <2>1. CASE files[toi] = None
    <3>1. os[fs[toi]].entry = entry /\ toi = entry.toi
      BY <1>2, <1>9, <2>1
    <3> QED
      BY <1>6, <1>8, <3>1
  <2>2. CASE files[toi] # None
    <3>1. os[fs[toi]] = objs[files[toi]]
      BY <1>9, <2>2
    <3>2. objs[files[toi]].entry.toi = toi /\ fdt.entries[objs[files[toi]].entry] > 0
      BY <2>2 DEF AnnouncedInv, Announced, FilesListed
    <3>3. objs[files[toi]].entry \in Entry
      <4>1. objs[files[toi]] \in FileObject /\ objs[files[toi]].toi = toi
        BY <1>5, <1>9, <2>2 DEF TypeInv, Heap
      <4> QED
        BY <4>1 DEF FileObject, FileOf
    <3> QED
      BY <1>6, <1>8, <3>1, <3>2, <3>3
  <2> QED
    BY <2>1, <2>2
<1>12. StartedAired(fs, os, aired)
  <2> SUFFICES ASSUME NEW toi \in 1..ToiMax, fs[toi] # None, Started(os[fs[toi]])
               PROVE  IsAired(os[fs[toi]].entry, aired)
    BY DEF StartedAired
  <2> HIDE DEF fs, os, id
  <2>1. files[toi] # None
    BY <1>2, <1>9, PendingIncomplete
  <2>2. os[fs[toi]] = objs[files[toi]]
    BY <1>9, <2>1
  <2> QED
    BY <2>1, <2>2 DEF AnnouncedInv, Announced, StartedAired
<1>13. /\ FdtQueued(fs, os, inflight)
       /\ fs[0] # None => ~Complete(os[fs[0]])
  <2> HIDE DEF fs, os, id
  <2> QED
    BY <1>9, <1>10 DEF AnnouncedInv, Announced, FdtQueued, FdtCurrent
<1> HIDE DEF fs, os, id
<1>14. Add(fdt, entry).entries # NoEntries => \A k \in DOMAIN inflight : os[inflight[k].file].toi # 0
  BY <1>3, <1>4, <1>5, <1>6, <1>7, <1>9, <1>10, NoFdtInFlight
<1>15. Announced(fdt'.entries, files', objs', inflight, aired)
  BY <1>3, <1>4, <1>5, <1>6, <1>7, <1>11, <1>12, <1>13, <1>14, SendFdtAnnounced
<1> QED
  BY <1>15 DEF AnnouncedInv

\* A packet of a file leaves only while no document is queued: the FDT's TOI comes first.
LEMMA FdtComesFirst ==
  ASSUME TypeInv, AnnouncedInv, Incomplete # {}, Min(Incomplete) # 0
  PROVE  files[0] = None
<1>1. Incomplete \subseteq Nat /\ 0 \in Toi
  BY TableAssumption DEF Incomplete, Toi
<1>2. 0 \notin Incomplete
  <2> SUFFICES ASSUME 0 \in Incomplete PROVE FALSE
    OBVIOUS
  <2>1. \A x \in Incomplete : 0 <= x
    BY <1>1
  <2>2. Min(Incomplete) \in Incomplete /\ Min(Incomplete) <= 0
    BY <2>1 DEF Min
  <2> DEFINE m == Min(Incomplete)
  <2>3. m \in Nat /\ m <= 0 /\ m # 0
    BY <1>1, <2>2
  <2> HIDE DEF m
  <2> QED
    BY <2>3
<1> QED
  BY <1>1, <1>2 DEF Incomplete, AnnouncedInv, Announced, FdtCurrent

LEMMA SendNextPacketAnnounced ==
  ASSUME TypeInv, AnnouncedInv, NEW r, NEW w, SendNextPacket(r, w), UNCHANGED <<files, fdt, aired>>
  PROVE  AnnouncedInv'
<1>1. CASE SendNothing(r, w)
  BY <1>1 DEF SendNothing, AnnouncedInv
<1>2. CASE ~SendNothing(r, w)
  <2> DEFINE first == Min(Incomplete)
             id == files[first]
             picked == NextSymbols(objs[id], maxPayload)
             packet == PacketOf(id)
             file == MarkQueued(objs[id], picked)
             last == Len(inflight) + 1
  <2>1. Incomplete # {} /\ SendPacket(id, r, w) /\ picked # {}
    BY <1>2 DEF SendNextPacket
  <2>2. id \in FileId /\ objs[id] \in FileObject /\ objs[id] # None
    BY <2>1, HeadOfQueue, NoneAssumption
  <2>3. first \in Toi /\ objs[id].toi = first
    <3>1. first \in Incomplete
      BY <2>1, MinOfNaturals DEF Incomplete, Toi
    <3> QED
      BY <3>1 DEF Incomplete, TypeInv, Heap
  <2>4. objs' = [objs EXCEPT ![id] = file] /\ inflight' = Append(inflight, packet)
        /\ inflight \in Seq(Packet) /\ objs \in [FileId -> FileObject \cup {None}]
        /\ files \in [Toi -> FileId \cup {None}]
    BY <2>1 DEF SendPacket, TypeInv, TypeOK
  <2>5. SameLabel(objs[id], file) /\ ~Complete(file)
    <3>1. SameLabel(objs[id], file)
      <4> HIDE DEF id
      <4> QED
        BY <2>2, MarkedLabel
    <3>2. \E i \in DOMAIN file.symbols : file.symbols[i] = "queued"
      <4>1. \A i \in picked : i \in DOMAIN objs[id].symbols
        BY DEF NextSymbols, Pending
      <4> HIDE DEF id, picked
      <4> QED
        BY <2>1, <2>2, <4>1 DEF MarkQueued, FileObject, FileOf
    <3> QED
      BY <3>1, <3>2 DEF Complete
  <2>6. /\ \A k \in DOMAIN inflight' : k \in DOMAIN inflight \/ k = last
        /\ \A k \in DOMAIN inflight : inflight'[k] = inflight[k]
        /\ inflight'[last] = packet
    <3>1. /\ DOMAIN inflight' = 1..(Len(inflight) + 1) /\ DOMAIN inflight = 1..Len(inflight)
          /\ Len(inflight) \in Nat
          /\ \A k \in DOMAIN inflight : inflight'[k] = inflight[k]
          /\ inflight'[Len(inflight) + 1] = packet
      <4>1. inflight' = Append(inflight, packet) /\ inflight \in Seq(Packet)
        BY <2>4
      <4> HIDE DEF packet
      <4> QED
        BY <4>1
    <3>2. \A k \in DOMAIN inflight' : k \in DOMAIN inflight \/ k = last
      BY <3>1
    <3> HIDE DEF packet
    <3> QED
      BY <3>1, <3>2
  <2>7. packet.file = id
    BY DEF PacketOf
  <2>8. \A x \in FileId : IF x = id THEN objs'[x] = file ELSE objs'[x] = objs[x]
    BY <2>2, <2>4
  <2>9. \A k \in DOMAIN inflight : inflight[k].file \in FileId
    BY PacketsInFlight DEF TypeInv
  <2>10. \A toi \in Toi : files[toi] # None => files[toi] \in FileId /\ objs[files[toi]].toi = toi
    BY <2>4 DEF TypeInv, Heap
  <2>11. 0 \in Toi /\ 1..ToiMax \subseteq Toi
    BY TableAssumption DEF Toi
  <2>12. first # 0 => files[0] = None
    BY <2>1, FdtComesFirst
  <2>13. id = files[first]
    OBVIOUS
  <2> HIDE DEF packet, last, id, file, first, picked
  <2>14. FilesListed(fdt.entries, files, objs')
    <3>1. \A toi \in 1..ToiMax : files[toi] # None => objs'[files[toi]].entry = objs[files[toi]].entry
      BY <2>5, <2>8, <2>10, <2>11 DEF SameLabel
    <3> QED
      BY <3>1 DEF AnnouncedInv, Announced, FilesListed
  <2>15. StartedAired(files, objs', aired)
    <3> SUFFICES ASSUME NEW toi \in 1..ToiMax, files[toi] # None, Started(objs'[files[toi]])
                 PROVE  IsAired(objs'[files[toi]].entry, aired)
      BY DEF StartedAired
    <3>1. CASE files[toi] = id
      <4>1. toi = first /\ files[0] = None
        BY <2>3, <2>10, <2>11, <2>12, <3>1
      <4>2. objs'[files[toi]].entry = objs[id].entry /\ objs[id].entry \in Entry
        BY <2>2, <2>3, <2>5, <2>8, <3>1, <4>1 DEF SameLabel, FileObject, FileOf
      <4>3. fdt.entries[objs[id].entry] > 0
        BY <3>1 DEF AnnouncedInv, Announced, FilesListed
      <4> QED
        BY <4>1, <4>2, <4>3 DEF AnnouncedInv, Announced, FdtCurrent
    <3>2. CASE files[toi] # id
      <4>1. objs'[files[toi]] = objs[files[toi]]
        BY <2>8, <2>10, <2>11, <3>2
      <4> QED
        BY <4>1 DEF AnnouncedInv, Announced, StartedAired
    <3> QED
      BY <3>1, <3>2
  <2>16. FdtQueued(files, objs', inflight')
    <3>1. \A k \in DOMAIN inflight : objs'[inflight[k].file].toi = objs[inflight[k].file].toi
      BY <2>5, <2>8, <2>9 DEF SameLabel
    <3>2. objs'[id].toi = 0 => id = files[0]
      BY <2>2, <2>3, <2>5, <2>8, <2>13 DEF SameLabel
    <3> QED
      BY <2>6, <2>7, <3>1, <3>2 DEF AnnouncedInv, Announced, FdtQueued
  <2>17. FdtCurrent(fdt.entries, files, objs', aired)
    <3>1. CASE files[0] = None
      BY <3>1 DEF AnnouncedInv, Announced, FdtCurrent
    <3>2. CASE files[0] # None /\ files[0] = id
      BY <2>2, <2>5, <2>8, <3>2 DEF AnnouncedInv, Announced, FdtCurrent, SameLabel
    <3>3. CASE files[0] # None /\ files[0] # id
      BY <2>8, <2>10, <2>11, <3>3 DEF AnnouncedInv, Announced, FdtCurrent
    <3> QED
      BY <3>1, <3>2, <3>3
  <2> QED
    BY <2>14, <2>15, <2>16, <2>17 DEF AnnouncedInv, Announced
<1> QED
  BY <1>1, <1>2

LEMMA AiredStays ==
  ASSUME NEW entry, NEW air, NEW air2, IsAired(entry, air), air \subseteq air2
  PROVE  IsAired(entry, air2)
  BY DEF IsAired

\* The file a packet of which was reported was started, so it was announced; the FDT whose
\* last packet was reported is the one queued, and was sent whole.
LEMMA SendSucceedsAnnounced ==
  ASSUME TypeInv, QueueInv, AnnouncedInv, PicksInv({0}), NoStaleFdt, SendSucceeds
  PROVE  AnnouncedInv'
<1> DEFINE packet == Head(inflight)
           rest == Tail(inflight)
           file == MarkCompleted(objs[packet.file], packet.picked, packet.carried)
           os   == [objs EXCEPT ![packet.file] = file]
           fs   == [files EXCEPT ![file.toi] = None]
<1>1. /\ inflight # <<>> /\ RoomForOne /\ inflight' = rest /\ inflight \in Seq(Packet)
      /\ objs \in [FileId -> FileObject \cup {None}]
      /\ files \in [Toi -> FileId \cup {None}] /\ fdt \in Table /\ symbolLength \in Nat \ {0}
      /\ aired' = IF file.toi = 0 /\ FullyCarried(file)
                  THEN aired \cup {InstanceOf(file)} ELSE aired
  BY DEF SendSucceeds, TypeInv, TypeOK
<1>2. /\ file \in FileObject /\ Heap(files, os, rest) /\ \E i \in FileId : os[i] = None
  BY <1>1, CompletionType
<1>3. /\ packet = inflight[1] /\ 1 \in DOMAIN inflight
      /\ \A k \in DOMAIN rest : k + 1 \in DOMAIN inflight /\ rest[k] = inflight[k + 1]
  BY <1>1, TailElements
<1>4. packet.file \in FileId /\ objs[packet.file] \in FileObject
  BY <1>1, <1>3, PacketsInFlight DEF TypeInv, Heap
<1>5. SameLabel(objs[packet.file], file)
  BY <1>4, MarkedLabel
<1>6. Started(objs[packet.file])
  <2>1. PicksOpen(objs, inflight)
    BY DEF QueueInv
  <2>2. /\ packet.picked # {}
        /\ \A i \in packet.picked : /\ i \in DOMAIN objs[packet.file].symbols
                                     /\ objs[packet.file].symbols[i] = "queued"
    BY <1>3, <2>1 DEF PicksOpen
  <2> QED
    BY <2>2 DEF Started
<1>7. /\ Complete(file) => \A k \in DOMAIN rest : rest[k].file # packet.file
      /\ file.toi # 0 => files[file.toi] = packet.file
  BY <1>1, CompletionPicks
<1>8. /\ os[packet.file] = file
      /\ \A x \in FileId : x # packet.file => os[x] = objs[x]
  BY <1>1, <1>4
<1>9. /\ 0 \in Toi /\ 1..ToiMax \subseteq Toi /\ file.toi \in Toi
      /\ file.toi # 0 => file.toi \in 1..ToiMax
  BY <1>2, TableAssumption DEF FileObject, FileOf, Toi
<1>10. \A toi \in Toi : files[toi] # None => files[toi] \in FileId /\ os[files[toi]].toi = toi
  <2> HIDE DEF os, rest
  <2> QED
    BY <1>2 DEF Heap
<1>11. \A k \in DOMAIN rest : rest[k].file \in FileId
  BY <1>2, PacketsInFlight
<1>12. file.toi = 0 => files[0] = packet.file
  BY <1>3, <1>5 DEF AnnouncedInv, Announced, FdtQueued, SameLabel
<1>13. fs \in [Toi -> FileId \cup {None}]
       /\ \A toi \in Toi : fs[toi] = IF toi = file.toi THEN None ELSE files[toi]
  BY <1>1, <1>9
<1>14. aired \subseteq aired'
  BY <1>1
<1>15. file.toi = 0 => \A i \in DOMAIN file.symbols : file.symbols[i] # "swallowed"
  <2> HIDE DEF packet
  <2>1. file.toi \in {0} => \A i \in DOMAIN file.symbols : file.symbols[i] # "swallowed"
    BY <1>1, CompletionUnswallowed DEF packet
  <2> QED
    BY <2>1
<1>16. CASE ~Complete(file)
  <2>1. objs' = Live(os, files, rest) /\ UNCHANGED <<files, fdt>>
    BY <1>16 DEF SendSucceeds
  <2> HIDE DEF os, rest, file, packet
  <2>2. \A toi \in Toi : files[toi] # None => objs'[files[toi]] = os[files[toi]]
    BY <1>2, <2>1, LiveKeepsQueue
  <2>3. \A k \in DOMAIN rest : objs'[rest[k].file] = os[rest[k].file]
    BY <1>2, <2>1, LiveKeepsObjects
  <2>4. \A x \in FileId : SameLabel(objs[x], os[x])
    BY <1>5, <1>8 DEF SameLabel
  <2>5. FilesListed(fdt.entries, files, objs')
    BY <1>9, <1>10, <2>2, <2>4 DEF AnnouncedInv, Announced, FilesListed, SameLabel
  <2>6. StartedAired(files, objs', aired')
    <3> SUFFICES ASSUME NEW toi \in 1..ToiMax, files[toi] # None, Started(objs'[files[toi]])
                 PROVE  IsAired(objs'[files[toi]].entry, aired')
      BY DEF StartedAired
    <3>1. Started(objs[files[toi]]) /\ objs'[files[toi]].entry = objs[files[toi]].entry
      BY <1>6, <1>8, <1>9, <1>10, <2>2, <2>4 DEF SameLabel
    <3>2. IsAired(objs[files[toi]].entry, aired)
      BY <3>1 DEF AnnouncedInv, Announced, StartedAired
    <3> QED
      BY <1>14, <3>1, <3>2, AiredStays
  <2>7. FdtQueued(files, objs', rest)
    BY <1>3, <1>11, <2>3, <2>4 DEF AnnouncedInv, Announced, FdtQueued, SameLabel
  <2>8. FdtCurrent(fdt.entries, files, objs', aired')
    <3>1. CASE files[0] = None
      BY <1>14, <3>1, AiredStays DEF AnnouncedInv, Announced, FdtCurrent
    <3>2. CASE files[0] # None
      <4>1. objs'[files[0]] = os[files[0]] /\ SameLabel(objs[files[0]], os[files[0]])
            /\ files[0] \in FileId
        BY <1>9, <1>10, <2>2, <2>4, <3>2
      <4>2. ~Complete(objs'[files[0]])
        BY <1>8, <1>16, <3>2, <4>1 DEF AnnouncedInv, Announced, FdtCurrent
      <4> QED
        BY <3>2, <4>1, <4>2 DEF AnnouncedInv, Announced, FdtCurrent, SameLabel
    <3> QED
      BY <3>1, <3>2
  <2> QED
    BY <1>1, <2>1, <2>5, <2>6, <2>7, <2>8 DEF AnnouncedInv, Announced
<1>17. CASE Complete(file) /\ file.toi = 0
  <2>1. objs' = Live(os, fs, rest) /\ files' = fs /\ fdt' = fdt
    BY <1>17 DEF SendSucceeds, FileTransmitted
  <2>2. Heap(fs, os, rest)
    BY <1>2, <1>9, EraseKeepsHeap
  <2>3. FullyCarried(file)
    BY <1>15, <1>17 DEF Complete, FullyCarried
  <2>4. InstanceOf(file) \in aired' /\ InstanceOf(file).table = file.table
    BY <1>1, <1>17, <2>3 DEF InstanceOf
  <2> HIDE DEF os, rest, fs, file, packet
  <2>5. \A toi \in 1..ToiMax : fs[toi] = files[toi] /\ files'[toi] = files[toi]
    BY <1>9, <1>13, <1>17, <2>1
  <2>6. \A toi \in 1..ToiMax : files[toi] # None => objs'[files[toi]] = objs[files[toi]]
    <3>1. \A toi \in 1..ToiMax : files[toi] # None => objs'[files[toi]] = os[files[toi]]
      BY <1>9, <2>1, <2>2, <2>5, LiveKeepsQueue
    <3>2. \A toi \in 1..ToiMax : files[toi] # None => files[toi] # packet.file
      BY <1>8, <1>9, <1>10, <1>17
    <3> QED
      BY <1>8, <1>9, <1>10, <3>1, <3>2
  <2>7. FilesListed(fdt.entries, fs, objs')
    BY <2>5, <2>6 DEF AnnouncedInv, Announced, FilesListed
  <2>8. StartedAired(fs, objs', aired')
    BY <1>14, <2>5, <2>6, AiredStays DEF AnnouncedInv, Announced, StartedAired
  <2>9. FdtQueued(fs, objs', rest)
    <3> SUFFICES ASSUME NEW k \in DOMAIN rest, objs'[rest[k].file].toi = 0
                 PROVE  FALSE
      BY DEF FdtQueued
    <3>1. objs'[rest[k].file] = os[rest[k].file]
      BY <2>1, <2>2, LiveKeepsObjects
    <3>2. rest[k].file # packet.file /\ rest[k].file \in FileId
      BY <1>7, <1>11, <1>17
    <3>3. objs[inflight[k + 1].file].toi = 0 /\ k + 1 \in DOMAIN inflight
      BY <1>3, <1>8, <3>1, <3>2
    <3>4. inflight[k + 1].file = files[0]
      BY <3>3 DEF AnnouncedInv, Announced, FdtQueued
    <3> QED
      BY <1>3, <1>12, <1>17, <3>2, <3>4
  <2>10. FdtCurrent(fdt.entries, fs, objs', aired')
    <3>1. fs[0] = None
      BY <1>9, <1>13, <1>17
    <3>2. \A e \in Entry : fdt.entries[e] > 0 => file.table[e] > 0
      <4>1. files[0] = packet.file /\ files[0] # None
        BY <1>4, <1>12, <1>17, NoneAssumption
      <4> QED
        BY <1>5, <4>1 DEF AnnouncedInv, Announced, FdtCurrent, SameLabel
    <3> QED
      BY <2>4, <3>1, <3>2 DEF FdtCurrent, IsAired
  <2> QED
    BY <1>1, <2>1, <2>7, <2>8, <2>9, <2>10 DEF AnnouncedInv, Announced
<1>18. CASE Complete(file) /\ file.toi # 0
  <2> DEFINE table == Remove(fdt, file.toi)
  <2>1. SendFdt(table, fs, os, rest) /\ aired' = aired
    BY <1>1, <1>18 DEF SendSucceeds, FileTransmitted
  <2>2. Heap(fs, os, rest)
    BY <1>2, <1>9, EraseKeepsHeap
  <2>3. /\ table \in Table
        /\ table.entries = [e \in Entry |-> IF e.toi = file.toi THEN 0 ELSE fdt.entries[e]]
    BY <1>1, RemoveType
  <2> HIDE DEF os, rest, fs, file, packet, table
  <2>4. fs[0] = files[0]
    BY <1>9, <1>13, <1>18
  <2>5. \A toi \in Toi : fs[toi] # None =>
          /\ fs[toi] = files[toi] /\ toi # file.toi /\ files[toi] \in FileId
          /\ os[fs[toi]] = objs[files[toi]]
    <3> SUFFICES ASSUME NEW toi \in Toi, fs[toi] # None
                 PROVE  /\ fs[toi] = files[toi] /\ toi # file.toi /\ files[toi] \in FileId
                        /\ os[fs[toi]] = objs[files[toi]]
      OBVIOUS
    <3>1. fs[toi] = files[toi] /\ toi # file.toi /\ files[toi] \in FileId
      BY <1>10, <1>13
    <3>2. files[toi] # packet.file
      BY <1>8, <1>10, <3>1
    <3> QED
      BY <1>8, <3>1, <3>2
  <2>6. FilesListed(table.entries, fs, os)
    <3> SUFFICES ASSUME NEW toi \in 1..ToiMax, fs[toi] # None
                 PROVE  /\ os[fs[toi]].entry.toi = toi
                        /\ table.entries[os[fs[toi]].entry] > 0
      BY DEF FilesListed
    <3>1. /\ os[fs[toi]] = objs[files[toi]] /\ files[toi] # None /\ toi # file.toi
          /\ files[toi] \in FileId
      BY <1>9, <2>5
    <3>2. objs[files[toi]].entry.toi = toi /\ fdt.entries[objs[files[toi]].entry] > 0
      BY <3>1 DEF AnnouncedInv, Announced, FilesListed
    <3>3. objs[files[toi]].entry \in Entry
      <4>1. objs[files[toi]] \in FileObject /\ objs[files[toi]].toi = toi
        BY <1>1, <1>9, <3>1 DEF TypeInv, Heap
      <4> QED
        BY <4>1 DEF FileObject, FileOf
    <3> QED
      BY <2>3, <3>1, <3>2, <3>3
  <2>7. StartedAired(fs, os, aired)
    BY <1>9, <2>5 DEF AnnouncedInv, Announced, StartedAired
  <2>8. FdtQueued(fs, os, rest) /\ \A k \in DOMAIN rest : os[rest[k].file].toi = objs[rest[k].file].toi
    <3>1. \A k \in DOMAIN rest : os[rest[k].file].toi = objs[rest[k].file].toi
      BY <1>5, <1>8, <1>11 DEF SameLabel
    <3> QED
      BY <1>3, <2>4, <3>1 DEF AnnouncedInv, Announced, FdtQueued
  <2>9. fs[0] # None => ~Complete(os[fs[0]])
    BY <1>9, <2>4, <2>5 DEF AnnouncedInv, Announced, FdtCurrent
  <2>10. table.entries # NoEntries => \A k \in DOMAIN rest : os[rest[k].file].toi # 0
    <3>1. table.entries # NoEntries => \A k \in DOMAIN inflight : objs[inflight[k].file].toi # 0
      BY <1>1, <1>2, <2>1, <2>2, <2>3, <2>4, NoFdtInFlight
    <3> QED
      BY <1>3, <2>8, <3>1
  <2>11. Announced(fdt'.entries, files', objs', rest, aired)
    BY <1>1, <1>2, <2>1, <2>2, <2>3, <2>6, <2>7, <2>8, <2>9, <2>10, SendFdtAnnounced
  <2> QED
    BY <1>1, <2>1, <2>11 DEF AnnouncedInv
<1> QED
  BY <1>16, <1>17, <1>18

LEMMA FdtSendTickAnnounced ==
  ASSUME TypeInv, AnnouncedInv, NoStaleFdt, FdtSendTick
  PROVE  AnnouncedInv'
<1>1. UNCHANGED <<inflight, aired>>
  BY DEF FdtSendTick
<1>2. CASE ~active
  BY <1>1, <1>2 DEF FdtSendTick, queue, AnnouncedInv
<1>3. CASE active
  <2>1. SendFdt(fdt, files, objs, inflight)
    BY <1>3 DEF FdtSendTick
  <2>2. /\ fdt \in Table /\ symbolLength \in Nat \ {0} /\ \E i \in FileId : objs[i] = None
        /\ Heap(files, objs, inflight)
    BY DEF FdtSendTick, TypeInv, TypeOK, RoomForOne
  <2>3. fdt.entries # NoEntries => \A k \in DOMAIN inflight : objs[inflight[k].file].toi # 0
    BY <2>1, <2>2, NoFdtInFlight
  <2>4. /\ FilesListed(fdt.entries, files, objs) /\ StartedAired(files, objs, aired)
        /\ FdtQueued(files, objs, inflight)
        /\ files[0] # None => ~Complete(objs[files[0]])
    BY DEF AnnouncedInv, Announced, FdtCurrent
  <2>5. Announced(fdt'.entries, files', objs', inflight, aired)
    BY <2>1, <2>2, <2>3, <2>4, SendFdtAnnounced
  <2> QED
    BY <1>1, <2>5 DEF AnnouncedInv
<1> QED
  BY <1>2, <1>3

LEMMA SendAnnounced ==
  ASSUME TypeInv, AnnouncedInv, NoStaleFdt,
         (\E d \in Desc : Send(d)) \/ (\E data \in Data, meta \in Meta : SendBuffer(data, meta))
  PROVE  AnnouncedInv'
<1>1. ASSUME NEW d \in Desc, Send(d)
      PROVE  AnnouncedInv'
  <2> DEFINE toi == IF desc[d].toi = 0 THEN nextToi ELSE desc[d].toi
             entry == [desc[d] EXCEPT !.toi = toi]
  <2>1. entry \in Entry
    BY <1>1, SentEntry
  <2>2. Enqueue(entry, MergedSymbolLength(d)) /\ RoomForTwo /\ UNCHANGED <<inflight, aired>>
    BY <1>1 DEF Send
  <2> HIDE DEF entry
  <2> QED
    BY <2>1, <2>2, SymbolLengthsType, EnqueueAnnounced
<1>2. ASSUME NEW data \in Data, NEW meta \in Meta, SendBuffer(data, meta)
      PROVE  AnnouncedInv'
  <2> DEFINE entry == [toi |-> nextToi, data |-> data, meta |-> meta]
  <2>1. entry \in Entry
    BY DEF TypeInv, TypeOK, Entry
  <2>2. Enqueue(entry, symbolLength) /\ RoomForTwo /\ UNCHANGED <<inflight, aired>>
    BY <1>2 DEF SendBuffer
  <2> HIDE DEF entry
  <2> QED
    BY <2>1, <2>2, SymbolLengthsType, EnqueueAnnounced
<1> QED
  BY <1>1, <1>2

\* A steady transmitter is not in a tunnel.
SteadyInv == ~tunnelled /\ PicksInv({0}) /\ AnnouncedInv

AnnouncedNext == ErrorFreeNext /\ StaysSteady /\ NoStaleFdt

FilesAnnounced ==
  \A toi \in 1..ToiMax : Transmitted(toi) => IsAired(objs[files[toi]].entry, aired)

LEMMA StepKeepsAnnounced ==
  ASSUME TypeInv, QueueInv, PicksInv({0}), AnnouncedInv, [AnnouncedNext]_vars
  PROVE  AnnouncedInv'
<1>1. ASSUME UNCHANGED <<files, objs, fdt, inflight, aired>>
      PROVE  AnnouncedInv'
  BY <1>1 DEF AnnouncedInv
<1>2. CASE UNCHANGED vars
  BY <1>1, <1>2 DEF vars, queue
<1>3. CASE SetRateLimit \/ SetTunnel \/ SendTimerExpires \/ FdtTimerExpires \/ Deactivate
  BY <1>1, <1>3 DEF SetRateLimit, SetTunnel, SendTimerExpires, FdtTimerExpires, Deactivate, queue
<1>4. CASE \E d \in Desc : \/ \E data \in Data : SetContent(d, data)
                           \/ \E meta \in Meta : SetMetadata(d, meta)
  BY <1>1, <1>4 DEF SetContent, SetMetadata, queue
<1>5. CASE RunSendNextPacket \/ Activate
  <2>1. UNCHANGED <<files, fdt, aired>>
    BY <1>5 DEF RunSendNextPacket, Activate
  <2>2. CASE UNCHANGED <<objs, inflight>>
    BY <1>1, <2>1, <2>2
  <2>3. CASE ~UNCHANGED <<objs, inflight>>
    <3>1. \E r, w : SendNextPacket(r, w)
      BY <1>5, <2>3 DEF RunSendNextPacket, Activate
    <3> QED
      BY <2>1, <3>1, SendNextPacketAnnounced
  <2> QED
    BY <2>2, <2>3
<1>6. CASE SendSucceeds /\ NoStaleFdt
  BY <1>6, SendSucceedsAnnounced
<1>7. CASE FdtSendTick /\ NoStaleFdt
  BY <1>7, FdtSendTickAnnounced
<1>8. CASE NoStaleFdt /\ (\/ \E d \in Desc : Send(d)
                          \/ \E data \in Data, meta \in Meta : SendBuffer(data, meta))
  BY <1>8, SendAnnounced
<1> QED
  BY <1>2, <1>3, <1>4, <1>5, <1>6, <1>7, <1>8
  DEF AnnouncedNext, ErrorFreeNext, ApplicationCalls, Handlers

LEMMA StepSteady ==
  ASSUME TypeInv, TypeInv', QueueInv, SteadyInv, [AnnouncedNext]_vars
  PROVE  SteadyInv'
<1>1. ~tunnelled /\ ~tunnelled'
  BY DEF SteadyInv, AnnouncedNext, StaysSteady, vars, config
<1>2. tunnelled' = tunnelled
  BY <1>1 DEF TypeInv, TypeOK
<1>3. [Next]_vars
  BY DEF AnnouncedNext, ErrorFreeNext, Next
<1>4. PicksInv({0})'
  BY <1>2, <1>3, StepPicks DEF SteadyInv, Aligned, TunnelStays
<1> QED
  BY <1>1, <1>4, StepKeepsAnnounced DEF SteadyInv

\* A file leaves the queue with the report of its last packet, and with no other step.
LEMMA StepFilesAnnounced ==
  ASSUME TypeInv, QueueInv, SteadyInv, [AnnouncedNext]_vars
  PROVE  FilesAnnounced
<1> SUFFICES ASSUME NEW toi \in 1..ToiMax, Transmitted(toi)
             PROVE  IsAired(objs[files[toi]].entry, aired)
  BY DEF FilesAnnounced
<1>1. files[toi] # None /\ files'[toi] = None /\ toi \in Toi /\ toi # 0
  BY DEF Transmitted, Toi
<1>2. ASSUME NEW table \in Table, NEW os, NEW infl, Heap(files, os, infl),
             \E i \in FileId : os[i] = None, SendFdt(table, files, os, infl)
      PROVE  FALSE
  <2>1. symbolLength \in Nat \ {0}
    BY DEF TypeInv, TypeOK
  <2>2. files'[toi] = files[toi]
    BY <1>2, <2>1, SendFdtResult
  <2> QED
    BY <1>1, <2>2
<1>3. CASE UNCHANGED files
  BY <1>1, <1>3
<1>4. ASSUME NEW entry \in Entry, NEW symLen \in SymbolLengths, RoomForTwo, Enqueue(entry, symLen)
      PROVE  FALSE
  <2> DEFINE id  == Fresh(objs)
             new == files[entry.toi] = None
             fs  == IF new THEN [files EXCEPT ![entry.toi] = id] ELSE files
             os  == IF new THEN [objs EXCEPT ![id] = DataFile(entry, symLen)] ELSE objs
  <2>1. id \in FileId /\ objs[id] = None
    BY <1>4, FreshType DEF RoomForTwo
  <2>2. DataFile(entry, symLen) \in FileObject /\ DataFile(entry, symLen).toi = entry.toi
    BY SymbolLengthsType, DataFileType
  <2>3. Heap(fs, os, inflight)
    BY <2>1, <2>2, InsertKeepsHeap DEF TypeInv
  <2>4. \E i \in FileId : os[i] = None
    BY <1>4, <2>1 DEF RoomForTwo, TypeInv, TypeOK
  <2>5. Add(fdt, entry) \in Table /\ symbolLength \in Nat \ {0}
    BY AddType DEF TypeInv, TypeOK
  <2>6. SendFdt(Add(fdt, entry), fs, os, inflight)
    BY <1>4 DEF Enqueue
  <2>7. fs[toi] # None
    BY <1>1, <2>1, NoneAssumption DEF TypeInv, TypeOK
  <2> HIDE DEF fs, os, id
  <2>8. files'[toi] = fs[toi]
    BY <2>3, <2>4, <2>5, <2>6, SendFdtResult
  <2> QED
    BY <1>1, <2>7, <2>8
<1>5. ~(\E d \in Desc : Send(d)) /\ ~(\E data \in Data, meta \in Meta : SendBuffer(data, meta))
  <2>1. ASSUME NEW d \in Desc, Send(d)
        PROVE  FALSE
    <3> DEFINE entry == [desc[d] EXCEPT !.toi = IF desc[d].toi = 0 THEN nextToi ELSE desc[d].toi]
    <3>1. entry \in Entry
      BY <2>1, SentEntry
    <3>2. Enqueue(entry, MergedSymbolLength(d)) /\ RoomForTwo
      BY <2>1 DEF Send
    <3> HIDE DEF entry
    <3> QED
      BY <1>4, <3>1, <3>2, SymbolLengthsType
  <2>2. ASSUME NEW data \in Data, NEW meta \in Meta, SendBuffer(data, meta)
        PROVE  FALSE
    <3> DEFINE entry == [toi |-> nextToi, data |-> data, meta |-> meta]
    <3>1. entry \in Entry
      BY DEF TypeInv, TypeOK, Entry
    <3>2. Enqueue(entry, symbolLength) /\ RoomForTwo
      BY <2>2 DEF SendBuffer
    <3> HIDE DEF entry
    <3> QED
      BY <1>4, <3>1, <3>2, SymbolLengthsType
  <2> QED
    BY <2>1, <2>2
<1>6. ~(FdtSendTick /\ ~UNCHANGED files)
  <2> SUFFICES ASSUME FdtSendTick, ~UNCHANGED files
               PROVE  FALSE
    OBVIOUS
  <2>1. SendFdt(fdt, files, objs, inflight) /\ RoomForOne
    BY DEF FdtSendTick, queue
  <2> QED
    BY <1>2, <2>1 DEF TypeInv, TypeOK, RoomForOne
<1>7. CASE SendSucceeds /\ ~UNCHANGED files
  <2> DEFINE packet == Head(inflight)
             rest == Tail(inflight)
             file == MarkCompleted(objs[packet.file], packet.picked, packet.carried)
             os   == [objs EXCEPT ![packet.file] = file]
             fs   == [files EXCEPT ![file.toi] = None]
  <2>1. /\ inflight # <<>> /\ RoomForOne /\ inflight \in Seq(Packet)
        /\ files \in [Toi -> FileId \cup {None}] /\ symbolLength \in Nat \ {0}
        /\ Complete(file) /\ FileTransmitted(file.toi, os, rest)
    BY <1>7 DEF SendSucceeds, TypeInv, TypeOK
  <2>2. /\ file \in FileObject /\ Heap(files, os, rest) /\ \E i \in FileId : os[i] = None
    BY <2>1, CompletionType
  <2>3. file.toi \in Toi
    BY <2>2, TableAssumption DEF FileObject, FileOf, Toi
  <2>4. file.toi = toi
    <3>1. CASE file.toi = 0
      BY <1>1, <2>1, <3>1 DEF FileTransmitted
    <3>2. CASE file.toi # 0
      <4>1. Heap(fs, os, rest)
        BY <2>2, <2>3, EraseKeepsHeap
      <4>2. SendFdt(Remove(fdt, file.toi), fs, os, rest) /\ Remove(fdt, file.toi) \in Table
        BY <2>1, <3>2, RemoveType DEF FileTransmitted, TypeInv, TypeOK
      <4>3. fs[toi] = IF toi = file.toi THEN None ELSE files[toi]
        BY <1>1, <2>1, <2>3
      <4> HIDE DEF os, rest, fs, file
      <4>4. files'[toi] = fs[toi]
        BY <2>1, <2>2, <4>1, <4>2, SendFdtResult
      <4> QED
        BY <1>1, <4>3, <4>4
    <3> QED
      BY <3>1, <3>2
  <2>5. files[toi] = packet.file
    <3> HIDE DEF packet
    <3> QED
      BY <1>1, <2>1, <2>4, CompletionPicks DEF packet
  <2>6. Started(objs[packet.file])
    <3>1. packet = inflight[1] /\ 1 \in DOMAIN inflight
      BY <2>1, TailElements
    <3>2. PicksOpen(objs, inflight)
      BY DEF QueueInv
    <3>3. /\ packet.picked # {}
          /\ \A i \in packet.picked : /\ i \in DOMAIN objs[packet.file].symbols
                                       /\ objs[packet.file].symbols[i] = "queued"
      BY <3>1, <3>2 DEF PicksOpen
    <3> QED
      BY <3>3 DEF Started
  <2> HIDE DEF packet
  <2> QED
    BY <1>1, <2>5, <2>6 DEF SteadyInv, AnnouncedInv, Announced, StartedAired
<1>8. CASE UNCHANGED vars \/ SetRateLimit \/ SetTunnel \/ SendTimerExpires \/ FdtTimerExpires
           \/ Deactivate \/ RunSendNextPacket \/ Activate
           \/ (\E d \in Desc, data \in Data : SetContent(d, data))
           \/ (\E d \in Desc, meta \in Meta : SetMetadata(d, meta))
  BY <1>3, <1>8 DEF vars, queue, SetRateLimit, SetTunnel, SendTimerExpires, FdtTimerExpires,
                    Deactivate, RunSendNextPacket, Activate, SetContent, SetMetadata
<1> QED
  BY <1>3, <1>5, <1>6, <1>7, <1>8 DEF AnnouncedNext, ErrorFreeNext, ApplicationCalls, Handlers

LEMMA AnnouncedInvariant ==
  AnnouncedSpec => []SteadyInv /\ [][FilesAnnounced]_vars
<1>1. InitSteady => SteadyInv
  <2> SUFFICES ASSUME InitSteady PROVE SteadyInv
    OBVIOUS
  <2>1. PicksInv({0})
    BY InitPicks DEF InitSteady
  <2>2. AnnouncedInv
    <3>1. 0 \in Toi /\ 1..ToiMax \subseteq Toi
      BY TableAssumption DEF Toi
    <3>2. /\ \A toi \in Toi : files[toi] = None
          /\ inflight = <<>> /\ fdt.entries = NoEntries
      BY DEF InitSteady, Init, NewTable
    <3>3. FilesListed(fdt.entries, files, objs) /\ StartedAired(files, objs, aired)
      BY <3>1, <3>2 DEF FilesListed, StartedAired
    <3>4. FdtQueued(files, objs, inflight)
      BY <3>2 DEF FdtQueued
    <3>5. FdtCurrent(fdt.entries, files, objs, aired)
      BY <3>1, <3>2 DEF FdtCurrent, NoEntries
    <3> QED
      BY <3>3, <3>4, <3>5 DEF AnnouncedInv, Announced
  <2> QED
    BY <2>1, <2>2 DEF InitSteady, SteadyInv
<1>2. TypeInv /\ TypeInv' /\ QueueInv /\ SteadyInv /\ [AnnouncedNext]_vars => SteadyInv'
  BY StepSteady
<1>3. TypeInv /\ QueueInv /\ SteadyInv /\ [AnnouncedNext]_vars => [FilesAnnounced]_vars
  BY StepFilesAnnounced
<1>4. AnnouncedSpec => Spec
  <2>1. InitSteady => Init
    BY DEF InitSteady
  <2>2. [AnnouncedNext]_vars => [Next]_vars
    BY DEF AnnouncedNext, ErrorFreeNext, Next
  <2> QED
    BY <2>1, <2>2, PTL DEF AnnouncedSpec, AnnouncedNext, Spec
<1> QED
  BY <1>1, <1>2, <1>3, <1>4, TypeInvariant, QueueInvariant, PTL DEF AnnouncedSpec, AnnouncedNext

\* No file's transmission ends before an FDT with its entry was sent whole, for any number of
\* files, lengths and packet sizes, while an active transmitter whose socket takes every
\* packet queues no FDT over one that is in flight: the FDT has the lowest TOI, so that
\* send_next_packet comes to a file only when the document queued after every change of the
\* table has left.
THEOREM FilesAreAnnounced == AnnouncedSpec => FileAnnouncedWhenTransmitted
  BY AnnouncedInvariant DEF FileAnnouncedWhenTransmitted, FilesAnnounced, IsAired
================================================================================
