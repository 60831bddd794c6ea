------------------------------- MODULE QueueProofs ------------------------------
(***************************************************************************)
(* The queue of files, the table that announces it and the packets in      *)
(* flight agree, for every number of files, contents and packets: the      *)
(* table lists what is queued, a packet of a file is of the object queued  *)
(* under its TOI, and no symbol is in two packets.                         *)
(***************************************************************************)
EXTENDS TransmitterProofs

\* FdtMatchesQueue of a table's entries and a queue.
Matches(entries, fs) ==
  \A toi \in 1..ToiMax : toi \in Listed(entries) <=> fs[toi] # None

\* InFlightFileIsQueued of a queue, a heap and the packets in flight.
InFlightQueued(fs, os, infl) ==
  \A k \in DOMAIN infl :
    os[infl[k].file].toi # 0 => fs[os[infl[k].file].toi] = infl[k].file

\* InFlightSymbolsAreQueued of a heap and the packets in flight, and what it needs: a
\* packet has symbols, of its object, and carries none but those.
PicksOpen(os, infl) ==
  \A k \in DOMAIN infl :
    /\ infl[k].picked # {} /\ infl[k].carried \subseteq infl[k].picked
    /\ \A i \in infl[k].picked :
         i \in DOMAIN os[infl[k].file].symbols /\ os[infl[k].file].symbols[i] = "queued"
    /\ \A l \in DOMAIN infl :
         l # k /\ infl[l].file = infl[k].file => infl[l].picked \cap infl[k].picked = {}

\* That a completion takes no file off the queue that has packets in flight rests on
\* PicksOpen: while it has one, one of its symbols is not complete.
QueueInv ==
  /\ Matches(fdt.entries, files)
  /\ InFlightQueued(files, objs, inflight)
  /\ PicksOpen(objs, inflight)

LEMMA QueueInvMeaning ==
  QueueInv => FdtMatchesQueue /\ InFlightFileIsQueued /\ InFlightSymbolsAreQueued
  BY DEF QueueInv, Matches, InFlightQueued, PicksOpen,
         FdtMatchesQueue, InFlightFileIsQueued, InFlightSymbolsAreQueued

\* Nothing changes for the packets when their objects do not.
LEMMA SameObjectsKeepPicks ==
  ASSUME NEW os, NEW os2, NEW infl, PicksOpen(os, infl),
         \A k \in DOMAIN infl : os2[infl[k].file] = os[infl[k].file]
  PROVE  PicksOpen(os2, infl)
  BY DEF PicksOpen

LEMMA LiveKeepsObjects ==
  ASSUME NEW fs, NEW os, NEW infl, Heap(fs, os, infl)
  PROVE  \A k \in DOMAIN infl : Live(os, fs, infl)[infl[k].file] = os[infl[k].file]
  BY PacketsInFlight DEF Live, Referenced

LEMMA SendFdtKeepsObjects ==
  ASSUME NEW table \in Table, NEW fs, NEW os, NEW infl, Heap(fs, os, infl),
         symbolLength \in Nat \ {0}, \E i \in FileId : os[i] = None,
         SendFdt(table, fs, os, infl)
  PROVE  \A k \in DOMAIN infl : objs'[infl[k].file] = os[infl[k].file]
<1>1. CASE table.entries = NoEntries
  BY <1>1, LiveKeepsObjects DEF SendFdt
<1>2. CASE table.entries # NoEntries
  <2> DEFINE id == Fresh(os)
             fs2 == [fs EXCEPT ![0] = id]
             os2 == [os EXCEPT ![id] = FdtFile(table)]
  <2>1. objs' = Live(os2, fs2, infl)
    BY <1>2 DEF SendFdt
  <2>2. /\ id \in FileId /\ os[id] = None
        /\ FdtFile(table) \in FileObject /\ FdtFile(table).toi = 0
    BY FreshType, FdtFileType
  <2>3. Heap(fs2, os2, infl)
    BY <2>2, InsertKeepsHeap
  <2>4. \A k \in DOMAIN infl : os2[infl[k].file] = os[infl[k].file]
    BY <2>2, PacketsInFlight DEF Heap
  <2>5. \A k \in DOMAIN infl : Live(os2, fs2, infl)[infl[k].file] = os2[infl[k].file]
    <3> HIDE DEF os2, fs2
    <3> QED
      BY <2>3, LiveKeepsObjects
  <2> QED
    BY <2>1, <2>4, <2>5
<1> QED
  BY <1>1, <1>2

LEMMA LiveKeepsInFlight ==
  ASSUME NEW fs, NEW os, NEW infl, Heap(fs, os, infl), InFlightQueued(fs, os, infl)
  PROVE  InFlightQueued(fs, Live(os, fs, infl), infl)
<1>1. \A k \in DOMAIN infl : infl[k].file \in FileId
  BY PacketsInFlight
<1>2. \A k \in DOMAIN infl : Live(os, fs, infl)[infl[k].file] = os[infl[k].file]
  BY <1>1 DEF Live, Referenced
<1> QED
  BY <1>2 DEF InFlightQueued

\* A new object, which no packet is of, enters under a TOI that has none, or the FDT's.
LEMMA InsertKeepsInFlight ==
  ASSUME NEW fs, NEW os, NEW infl, Heap(fs, os, infl), InFlightQueued(fs, os, infl),
         NEW id \in FileId, os[id] = None, NEW file \in FileObject,
         file.toi = 0 \/ fs[file.toi] = None
  PROVE  InFlightQueued([fs EXCEPT ![file.toi] = id], [os EXCEPT ![id] = file], infl)
<1> DEFINE fs2 == [fs EXCEPT ![file.toi] = id]
           os2 == [os EXCEPT ![id] = file]
<1> SUFFICES ASSUME NEW k \in DOMAIN infl, os2[infl[k].file].toi # 0
             PROVE  fs2[os2[infl[k].file].toi] = infl[k].file
  BY DEF InFlightQueued
<1>1. infl[k].file \in FileId /\ os[infl[k].file] # None
  BY PacketsInFlight DEF Heap
<1>2. os2[infl[k].file] = os[infl[k].file] /\ infl[k].file # id
  BY <1>1 DEF Heap
<1>3. os[infl[k].file] \in FileObject
  BY <1>1 DEF Heap
<1>4. os[infl[k].file].toi \in Toi
  BY <1>3, TableAssumption DEF FileObject, FileOf, Toi
<1>5. fs[os[infl[k].file].toi] = infl[k].file
  BY <1>2 DEF InFlightQueued
<1>6. os[infl[k].file].toi # file.toi
  BY <1>1, <1>2, <1>5, NoneAssumption
<1> QED
  BY <1>2, <1>4, <1>5, <1>6 DEF Heap

LEMMA SendFdtQueue ==
  ASSUME NEW table \in Table, NEW fs, NEW os, NEW infl, Heap(fs, os, infl),
         symbolLength \in Nat \ {0}, \E i \in FileId : os[i] = None,
         SendFdt(table, fs, os, infl),
         Matches(table.entries, fs), InFlightQueued(fs, os, infl)
  PROVE  Matches(fdt'.entries, files') /\ InFlightQueued(files', objs', infl)
<1>1. CASE table.entries = NoEntries
  <2>1. fdt' = table /\ files' = fs /\ objs' = Live(os, fs, infl)
    BY <1>1 DEF SendFdt
  <2> QED
    BY <2>1, LiveKeepsInFlight
<1>2. CASE table.entries # NoEntries
  <2> DEFINE id == Fresh(os)
             fs2 == [fs EXCEPT ![0] = id]
             os2 == [os EXCEPT ![id] = FdtFile(table)]
  <2>1. fdt' = Sent(table) /\ files' = fs2 /\ objs' = Live(os2, fs2, infl)
    BY <1>2 DEF SendFdt
  <2>2. /\ id \in FileId /\ os[id] = None
        /\ FdtFile(table) \in FileObject /\ FdtFile(table).toi = 0
    BY FreshType, FdtFileType
  <2>3. Heap(fs2, os2, infl) /\ InFlightQueued(fs2, os2, infl)
    BY <2>2, InsertKeepsHeap, InsertKeepsInFlight
  <2>4. fdt'.entries = table.entries
    BY <2>1 DEF Sent, Table
  <2>5. \A toi \in 1..ToiMax : fs2[toi] = fs[toi]
    BY DEF Heap, Toi
  <2> QED
    BY <2>1, <2>3, <2>4, <2>5, LiveKeepsInFlight DEF Matches
<1> QED
  BY <1>1, <1>2

LEMMA EnqueueQueue ==
  ASSUME TypeInv, QueueInv, RoomForTwo, NEW entry \in Entry, NEW symLen \in Nat \ {0},
         Enqueue(entry, symLen), inflight' = inflight
  PROVE  QueueInv'
<1> DEFINE id  == Fresh(objs)
           new == files[entry.toi] = None
           fs  == IF new THEN [files EXCEPT ![entry.toi] = id] ELSE files
           os  == IF new THEN [objs EXCEPT ![id] = DataFile(entry, symLen)] ELSE objs
<1>1. id \in FileId /\ objs[id] = None
  BY FreshType DEF RoomForTwo
<1>2. DataFile(entry, symLen) \in FileObject /\ DataFile(entry, symLen).toi = entry.toi
  BY DataFileType
<1>3. Heap(fs, os, inflight) /\ InFlightQueued(fs, os, inflight)
  <2>1. CASE new
    BY <1>1, <1>2, <2>1, InsertKeepsHeap, InsertKeepsInFlight DEF TypeInv, QueueInv
  <2>2. CASE ~new
    BY <2>2 DEF TypeInv, QueueInv
  <2> QED
    BY <2>1, <2>2
<1>4. \E i \in FileId : os[i] = None
  BY <1>1 DEF RoomForTwo, TypeInv, TypeOK
<1>5. fdt \in Table /\ symbolLength \in Nat \ {0} /\ files \in [Toi -> FileId \cup {None}]
  BY DEF TypeInv, TypeOK
<1>6. Add(fdt, entry) \in Table
  BY <1>5, AddType
<1>7. Matches(Add(fdt, entry).entries, fs)
  <2> SUFFICES ASSUME NEW toi \in 1..ToiMax
               PROVE  toi \in Listed(Add(fdt, entry).entries) <=> fs[toi] # None
    BY DEF Matches
  <2>1. Add(fdt, entry).entries = [fdt.entries EXCEPT ![entry] = @ + 1]
    BY <1>5, AddType
  <2>2. toi \in Listed(Add(fdt, entry).entries) <=> toi \in Listed(fdt.entries) \/ toi = entry.toi
    BY <1>5, <2>1 DEF Listed, Table, Bags
  <2>3. toi \in Listed(fdt.entries) <=> files[toi] # None
    BY DEF QueueInv, Matches
  <2>4. toi \in Toi /\ entry.toi \in Toi /\ id # None
    BY <1>1, NoneAssumption DEF Entry, Toi
  <2>5. fs[toi] # None <=> files[toi] # None \/ toi = entry.toi
    BY <1>5, <2>4
  <2> QED
    BY <2>2, <2>3, <2>5
<1>8. SendFdt(Add(fdt, entry), fs, os, inflight)
  BY DEF Enqueue
<1>9. PicksOpen(objs', inflight)
  <2>1. \A k \in DOMAIN inflight : os[inflight[k].file] = objs[inflight[k].file]
    BY <1>1, PacketsInFlight DEF TypeInv, Heap
  <2>2. \A k \in DOMAIN inflight : objs'[inflight[k].file] = os[inflight[k].file]
    <3> HIDE DEF os, fs
    <3> QED
      BY <1>3, <1>4, <1>5, <1>6, <1>8, SendFdtKeepsObjects
  <2>3. PicksOpen(objs, inflight)
    BY DEF QueueInv
  <2> QED
    BY <2>1, <2>2, <2>3, SameObjectsKeepPicks
<1>10. Matches(fdt'.entries, files') /\ InFlightQueued(files', objs', inflight)
  BY <1>3, <1>4, <1>5, <1>6, <1>7, <1>8, SendFdtQueue
<1> QED
  BY <1>9, <1>10 DEF QueueInv

\* A packet of the next symbols of an object of the queue.
LEMMA SendPacketQueue ==
  ASSUME TypeInv, QueueInv, NEW toi \in Toi, files[toi] # None,
         NextSymbols(objs[files[toi]], maxPayload) # {},
         NEW r, NEW w, SendPacket(files[toi], r, w), UNCHANGED <<files, fdt>>
  PROVE  QueueInv'
<1> DEFINE id == files[toi]
           picked == NextSymbols(objs[id], maxPayload)
           packet == PacketOf(id)
           file == MarkQueued(objs[id], picked)
<1>1. id \in FileId /\ objs[id] \in FileObject /\ objs[id].toi = toi
  BY DEF TypeInv, Heap
<1>2. file.toi = toi /\ DOMAIN file.symbols = DOMAIN objs[id].symbols
      /\ \A i \in DOMAIN file.symbols :
            file.symbols[i] = IF i \in picked THEN "queued" ELSE objs[id].symbols[i]
  BY <1>1 DEF MarkQueued, FileObject, FileOf
<1>3. objs' = [objs EXCEPT ![id] = file]
  BY DEF SendPacket
<1>4. objs'[id] = file /\ \A i \in FileId : i # id => objs'[i] = objs[i]
  BY <1>1, <1>3 DEF TypeInv, TypeOK
<1>5. packet.file = id /\ packet.picked = picked /\ packet.carried \subseteq picked
  BY DEF PacketOf, Carried
<1>6. \A i \in picked : i \in DOMAIN objs[id].symbols /\ objs[id].symbols[i] = "pending"
  BY DEF NextSymbols, Pending
<1>7. inflight' = Append(inflight, packet) /\ inflight \in Seq(Packet)
  BY DEF SendPacket, TypeInv, TypeOK
<1>8. /\ DOMAIN inflight' = 1..(Len(inflight) + 1) /\ DOMAIN inflight = 1..Len(inflight)
      /\ Len(inflight) \in Nat
      /\ \A k \in DOMAIN inflight : inflight'[k] = inflight[k]
      /\ inflight'[Len(inflight) + 1] = packet
  <2> HIDE DEF packet
  <2> QED
    BY <1>7
<1> DEFINE last == Len(inflight) + 1
<1>9. \A k \in DOMAIN inflight' : k \in DOMAIN inflight \/ k = last
  BY <1>8
<1>10. \A k \in DOMAIN inflight : inflight[k].file \in FileId
  BY PacketsInFlight DEF TypeInv
<1>11. InFlightQueued(files, objs', inflight')
  <2>1. \A k \in DOMAIN inflight : objs'[inflight[k].file].toi = objs[inflight[k].file].toi
    BY <1>1, <1>2, <1>4, <1>10
  <2>2. objs'[inflight'[last].file].toi # 0 =>
          files[objs'[inflight'[last].file].toi] = inflight'[last].file
    BY <1>2, <1>4, <1>5, <1>8
  <2> QED
    BY <1>8, <1>9, <2>1, <2>2 DEF QueueInv, InFlightQueued
<1>12. PicksOpen(objs', inflight')
  <2>1. ASSUME NEW k \in DOMAIN inflight
        PROVE  /\ inflight'[k].picked # {} /\ inflight'[k].carried \subseteq inflight'[k].picked
               /\ \A i \in inflight'[k].picked :
                    /\ i \in DOMAIN objs'[inflight'[k].file].symbols
                    /\ objs'[inflight'[k].file].symbols[i] = "queued"
    <3>1. CASE inflight[k].file = id
      BY <1>2, <1>4, <1>8, <3>1 DEF QueueInv, PicksOpen
    <3>2. CASE inflight[k].file # id
      BY <1>4, <1>8, <1>10, <3>2 DEF QueueInv, PicksOpen
    <3> QED
      BY <3>1, <3>2
  <2>2. /\ inflight'[last].picked # {} /\ inflight'[last].carried \subseteq inflight'[last].picked
        /\ \A i \in inflight'[last].picked :
             /\ i \in DOMAIN objs'[inflight'[last].file].symbols
             /\ objs'[inflight'[last].file].symbols[i] = "queued"
    BY <1>2, <1>4, <1>5, <1>6, <1>8
  <2>3. ASSUME NEW k \in DOMAIN inflight, inflight[k].file = id
        PROVE  inflight[k].picked \cap picked = {}
    <3>1. \A i \in inflight[k].picked : objs[id].symbols[i] = "queued"
      BY <2>3 DEF QueueInv, PicksOpen
    <3> QED
      BY <1>6, <3>1
  <2>4. \A k, l \in DOMAIN inflight :
          l # k /\ inflight[l].file = inflight[k].file
            => inflight[l].picked \cap inflight[k].picked = {}
    BY DEF QueueInv, PicksOpen
  <2>5. \A k, l \in DOMAIN inflight' :
          l # k /\ inflight'[l].file = inflight'[k].file
            => inflight'[l].picked \cap inflight'[k].picked = {}
    BY <1>5, <1>8, <1>9, <2>3, <2>4
  <2> QED
    BY <1>8, <1>9, <2>1, <2>2, <2>5 DEF PicksOpen
<1> QED
  BY <1>11, <1>12 DEF QueueInv

LEMMA SendNextPacketQueue ==
  ASSUME TypeInv, QueueInv, NEW r, NEW w, SendNextPacket(r, w), UNCHANGED <<files, fdt>>
  PROVE  QueueInv'
<1>1. CASE SendNothing(r, w)
  BY <1>1 DEF SendNothing, QueueInv
<1>2. CASE ~SendNothing(r, w)
  <2> DEFINE toi == Min(Incomplete)
  <2>1. Incomplete # {}
    BY <1>2 DEF SendNextPacket
  <2>2. toi \in Incomplete
    BY <2>1, MinOfNaturals DEF Incomplete, Toi
  <2>3. NextSymbols(objs[files[toi]], maxPayload) # {} /\ SendPacket(files[toi], r, w)
    BY <1>2, <2>1 DEF SendNextPacket
  <2> QED
    BY <2>2, <2>3, SendPacketQueue DEF Incomplete
<1> QED
  BY <1>1, <1>2

LEMMA RemoveMatches ==
  ASSUME NEW table \in Table, NEW fs \in [Toi -> FileId \cup {None}], NEW toi \in 1..ToiMax,
         Matches(table.entries, fs)
  PROVE  Matches(Remove(table, toi).entries, [fs EXCEPT ![toi] = None])
<1> SUFFICES ASSUME NEW other \in 1..ToiMax
             PROVE  other \in Listed(Remove(table, toi).entries)
                      <=> [fs EXCEPT ![toi] = None][other] # None
  BY DEF Matches
<1>1. Remove(table, toi).entries = [e \in Entry |-> IF e.toi = toi THEN 0 ELSE table.entries[e]]
  BY RemoveType
<1>2. other \in Listed(Remove(table, toi).entries) <=> other \in Listed(table.entries) /\ other # toi
  BY <1>1 DEF Listed
<1>3. other \in Listed(table.entries) <=> fs[other] # None
  BY DEF Matches
<1>4. [fs EXCEPT ![toi] = None][other] # None <=> fs[other] # None /\ other # toi
  BY DEF Toi
<1> QED
  BY <1>2, <1>3, <1>4

LEMMA TailElements ==
  ASSUME NEW S, NEW infl \in Seq(S), infl # <<>>
  PROVE  /\ Head(infl) = infl[1] /\ 1 \in DOMAIN infl
         /\ \A k \in DOMAIN Tail(infl) :
              k + 1 \in DOMAIN infl /\ k + 1 # 1 /\ Tail(infl)[k] = infl[k + 1]
         /\ \A k, l \in DOMAIN Tail(infl) : k # l => k + 1 # l + 1
  BY HeadTailProperties

LEMMA MarkCompletedSymbols ==
  ASSUME NEW file \in FileObject, NEW picked, NEW carried, carried \subseteq picked
  PROVE  LET marked == MarkCompleted(file, picked, carried)
         IN /\ marked.toi = file.toi /\ DOMAIN marked.symbols = DOMAIN file.symbols
            /\ \A i \in DOMAIN marked.symbols :
                 i \notin picked => marked.symbols[i] = file.symbols[i]
  BY DEF MarkCompleted, FileObject, FileOf

\* The packets that are left when the oldest is reported sent: those of its object
\* have their symbols still, and keep the object from being complete.
LEMMA CompletionPicks ==
  ASSUME TypeInv, QueueInv, inflight # <<>>,
         NEW file, file = MarkCompleted(objs[Head(inflight).file],
                                        Head(inflight).picked, Head(inflight).carried),
         NEW os, os = [objs EXCEPT ![Head(inflight).file] = file]
  PROVE  /\ PicksOpen(os, Tail(inflight))
         /\ InFlightQueued(files, os, Tail(inflight))
         /\ Complete(file) =>
              \A k \in DOMAIN Tail(inflight) : Tail(inflight)[k].file # Head(inflight).file
         /\ file.toi # 0 => files[file.toi] = Head(inflight).file
<1> DEFINE packet == Head(inflight)
           rest == Tail(inflight)
           id == packet.file
<1>1. inflight \in Seq(Packet)
  BY DEF TypeInv, TypeOK
<1>2. /\ packet = inflight[1] /\ 1 \in DOMAIN inflight
      /\ \A k \in DOMAIN rest :
           k + 1 \in DOMAIN inflight /\ k + 1 # 1 /\ rest[k] = inflight[k + 1]
      /\ \A k, l \in DOMAIN rest : k # l => k + 1 # l + 1
  BY <1>1, TailElements
<1>3. /\ id \in FileId /\ objs[id] \in FileObject /\ packet.carried \subseteq packet.picked
      /\ \A k \in DOMAIN rest : rest[k].file \in FileId
  <2>1. \A k \in DOMAIN inflight : inflight[k].file \in FileId /\ objs[inflight[k].file] # None
    BY PacketsInFlight DEF TypeInv, Heap
  <2> QED
    BY <1>2, <2>1 DEF TypeInv, TypeOK, QueueInv, PicksOpen
<1>4. /\ file.toi = objs[id].toi /\ DOMAIN file.symbols = DOMAIN objs[id].symbols
      /\ \A i \in DOMAIN file.symbols :
           i \notin packet.picked => file.symbols[i] = objs[id].symbols[i]
  BY <1>3, MarkCompletedSymbols
<1>5. os[id] = file /\ \A i \in FileId : i # id => os[i] = objs[i]
  BY <1>3 DEF TypeInv, TypeOK
<1>6. ASSUME NEW k \in DOMAIN rest
      PROVE  /\ rest[k].picked # {} /\ rest[k].carried \subseteq rest[k].picked
             /\ \A i \in rest[k].picked :
                  i \in DOMAIN os[rest[k].file].symbols /\ os[rest[k].file].symbols[i] = "queued"
  <2>1. /\ rest[k].picked # {} /\ rest[k].carried \subseteq rest[k].picked
        /\ \A i \in rest[k].picked :
             i \in DOMAIN objs[rest[k].file].symbols /\ objs[rest[k].file].symbols[i] = "queued"
        /\ rest[k].file = id => rest[k].picked \cap packet.picked = {}
    BY <1>2 DEF QueueInv, PicksOpen
  <2> HIDE DEF packet, rest, id
  <2>2. CASE rest[k].file = id
    <3>1. \A i \in rest[k].picked : i \notin packet.picked
      BY <2>1, <2>2
    <3>2. os[rest[k].file] = file
      BY <1>5, <2>2
    <3> QED
      BY <1>4, <2>1, <2>2, <3>1, <3>2
  <2>3. CASE rest[k].file # id
    <3>1. os[rest[k].file] = objs[rest[k].file]
      BY <1>3, <1>5, <2>3
    <3> QED
      BY <2>1, <3>1
  <2> QED
    BY <2>2, <2>3
<1>7. \A k, l \in DOMAIN rest :
        l # k /\ rest[l].file = rest[k].file => rest[l].picked \cap rest[k].picked = {}
  BY <1>2 DEF QueueInv, PicksOpen
<1>8. PicksOpen(os, rest)
  BY <1>6, <1>7 DEF PicksOpen
<1>9. InFlightQueued(files, os, rest)
  <2>1. \A k \in DOMAIN rest : os[rest[k].file].toi = objs[rest[k].file].toi
    BY <1>3, <1>4, <1>5
  <2> QED
    BY <1>2, <2>1 DEF QueueInv, InFlightQueued
<1>10. ASSUME Complete(file), NEW k \in DOMAIN rest, rest[k].file = id
       PROVE  FALSE
  <2>1. PICK i \in rest[k].picked : TRUE
    BY <1>6
  <2>2. i \in DOMAIN file.symbols /\ file.symbols[i] = "queued"
    BY <1>5, <1>6, <1>10
  <2> QED
    BY <1>10, <2>2 DEF Complete
<1>11. file.toi # 0 => files[file.toi] = id
  BY <1>2, <1>4 DEF QueueInv, InFlightQueued
<1> QED
  BY <1>8, <1>9, <1>10, <1>11

LEMMA SendSucceedsQueue ==
  ASSUME TypeInv, QueueInv, SendSucceeds
  PROVE  QueueInv'
<1> DEFINE packet == Head(inflight)
           rest == Tail(inflight)
           file == MarkCompleted(objs[packet.file], packet.picked, packet.carried)
           os   == [objs EXCEPT ![packet.file] = file]
           fs   == [files EXCEPT ![file.toi] = None]
<1>1. inflight # <<>> /\ RoomForOne /\ inflight' = rest
  BY DEF SendSucceeds
<1>2. /\ file \in FileObject /\ Heap(files, os, rest) /\ \E i \in FileId : os[i] = None
  BY <1>1, CompletionType
<1>3. /\ PicksOpen(os, rest) /\ InFlightQueued(files, os, rest)
      /\ Complete(file) => \A k \in DOMAIN rest : rest[k].file # packet.file
      /\ file.toi # 0 => files[file.toi] = packet.file
  BY <1>1, CompletionPicks
<1>4. /\ fdt \in Table /\ symbolLength \in Nat \ {0} /\ files \in [Toi -> FileId \cup {None}]
      /\ Matches(fdt.entries, files) /\ file.toi \in Toi
  BY <1>2, TableAssumption DEF TypeInv, TypeOK, QueueInv, FileObject, FileOf, Toi
<1>5. CASE ~Complete(file)
  <2>1. objs' = Live(os, files, rest) /\ UNCHANGED <<files, fdt>>
    BY <1>5 DEF SendSucceeds
  <2>2. InFlightQueued(files, objs', rest) /\ PicksOpen(objs', rest)
    <3> HIDE DEF os, rest
    <3> QED
      BY <1>2, <1>3, <2>1, LiveKeepsInFlight, LiveKeepsObjects, SameObjectsKeepPicks
  <2> QED
    BY <1>1, <1>4, <2>1, <2>2 DEF QueueInv
<1>6. CASE Complete(file)
  <2>1. FileTransmitted(file.toi, os, rest)
    BY <1>6 DEF SendSucceeds
  <2>2. Heap(fs, os, rest)
    BY <1>2, <1>4, EraseKeepsHeap
  <2>3. InFlightQueued(fs, os, rest)
    <3> HIDE DEF os, rest, file, packet
    <3>1. ASSUME NEW k \in DOMAIN rest, os[rest[k].file].toi # 0
          PROVE  os[rest[k].file].toi # file.toi
      BY <1>3, <1>6, <3>1 DEF InFlightQueued
    <3>2. \A toi \in Toi : toi # file.toi => fs[toi] = files[toi]
      BY <1>4
    <3>3. ASSUME NEW k \in DOMAIN rest
          PROVE  os[rest[k].file].toi \in Toi
      <4>1. rest[k].file \in FileId /\ os[rest[k].file] # None
        BY <1>2, PacketsInFlight DEF Heap
      <4>2. os[rest[k].file] \in FileObject
        BY <1>2, <4>1 DEF Heap
      <4> QED
        BY <4>2, TableAssumption DEF FileObject, FileOf, Toi
    <3> QED
      BY <1>3, <3>1, <3>2, <3>3 DEF InFlightQueued
  <2>4. CASE file.toi = 0
    <3>1. files' = fs /\ fdt' = fdt /\ objs' = Live(os, fs, rest)
      BY <2>1, <2>4 DEF FileTransmitted
    <3>2. Matches(fdt.entries, fs)
      BY <1>4, <2>4 DEF Matches, Toi
    <3>3. InFlightQueued(fs, objs', rest) /\ PicksOpen(objs', rest)
      <4> HIDE DEF os, rest, fs
      <4> QED
        BY <1>3, <2>2, <2>3, <3>1, LiveKeepsInFlight, LiveKeepsObjects, SameObjectsKeepPicks
    <3> QED
      BY <1>1, <3>1, <3>2, <3>3 DEF QueueInv
  <2>5. CASE file.toi # 0
    <3> DEFINE table == Remove(fdt, file.toi)
    <3>1. file.toi \in 1..ToiMax
      BY <1>4, <2>5 DEF Toi
    <3>2. table \in Table /\ Matches(table.entries, fs)
      BY <1>4, <3>1, RemoveType, RemoveMatches
    <3>3. SendFdt(table, fs, os, rest)
      BY <2>1, <2>5 DEF FileTransmitted
    <3> HIDE DEF os, rest, fs, table
    <3>4. Matches(fdt'.entries, files') /\ InFlightQueued(files', objs', rest)
      BY <1>2, <1>4, <2>2, <2>3, <3>2, <3>3, SendFdtQueue
    <3>5. \A k \in DOMAIN rest : objs'[rest[k].file] = os[rest[k].file]
      BY <1>2, <1>4, <2>2, <3>2, <3>3, SendFdtKeepsObjects
    <3> QED
      BY <1>1, <1>3, <3>4, <3>5, SameObjectsKeepPicks DEF QueueInv
  <2> QED
    BY <2>4, <2>5
<1> QED
  BY <1>5, <1>6

LEMMA SendFailsQueue ==
  ASSUME TypeInv, QueueInv, SendFails
  PROVE  QueueInv'
<1> DEFINE rest == Tail(inflight)
<1>1. inflight # <<>> /\ inflight' = rest /\ objs' = Live(objs, files, rest)
      /\ UNCHANGED <<files, fdt>>
  BY DEF SendFails
<1>2. inflight \in Seq(Packet)
  BY DEF TypeInv, TypeOK
<1>3. /\ \A k \in DOMAIN rest : k + 1 \in DOMAIN inflight /\ rest[k] = inflight[k + 1]
      /\ \A k, l \in DOMAIN rest : k # l => k + 1 # l + 1
  BY <1>1, <1>2, TailElements
<1>4. Heap(files, objs, rest)
  BY <1>1, TailKeepsHeap DEF TypeInv
<1>5. InFlightQueued(files, objs, rest)
  BY <1>3 DEF QueueInv, InFlightQueued
<1>6. PicksOpen(objs, rest)
  BY <1>3 DEF QueueInv, PicksOpen
<1> HIDE DEF rest
<1>7. InFlightQueued(files, objs', rest) /\ PicksOpen(objs', rest)
  BY <1>1, <1>4, <1>5, <1>6, LiveKeepsInFlight, LiveKeepsObjects, SameObjectsKeepPicks
<1> QED
  BY <1>1, <1>7 DEF QueueInv

LEMMA FdtSendTickQueue ==
  ASSUME TypeInv, QueueInv, FdtSendTick
  PROVE  QueueInv'
<1>1. inflight' = inflight
  BY DEF FdtSendTick
<1>2. CASE ~active
  BY <1>1, <1>2 DEF FdtSendTick, queue, QueueInv
<1>3. CASE active
  <2>1. SendFdt(fdt, files, objs, inflight) /\ RoomForOne
    BY <1>3 DEF FdtSendTick
  <2>2. /\ fdt \in Table /\ symbolLength \in Nat \ {0} /\ \E i \in FileId : objs[i] = None
        /\ Heap(files, objs, inflight)
    BY <2>1 DEF TypeInv, TypeOK, RoomForOne
  <2>3. /\ Matches(fdt.entries, files) /\ InFlightQueued(files, objs, inflight)
        /\ PicksOpen(objs, inflight)
    BY DEF QueueInv
  <2>4. Matches(fdt'.entries, files') /\ InFlightQueued(files', objs', inflight)
    BY <2>1, <2>2, <2>3, SendFdtQueue
  <2>5. PicksOpen(objs', inflight)
    BY <2>1, <2>2, <2>3, SendFdtKeepsObjects, SameObjectsKeepPicks
  <2> QED
    BY <1>1, <2>4, <2>5 DEF QueueInv
<1> QED
  BY <1>2, <1>3

\* The calls that queue a file.
LEMMA SendQueue ==
  ASSUME TypeInv, QueueInv,
         (\E d \in Desc : Send(d)) \/ (\E data \in Data, meta \in Meta : SendBuffer(data, meta))
  PROVE  QueueInv'
<1>1. ASSUME NEW d \in Desc, Send(d)
      PROVE  QueueInv'
  <2> DEFINE toi == IF desc[d].toi = 0 THEN nextToi ELSE desc[d].toi
             symLen == MergedSymbolLength(d)
             entry == [desc[d] EXCEPT !.toi = toi]
  <2>1. desc[d] \in Description /\ nextToi \in 1..ToiMax /\ symbolLength \in Nat \ {0}
    BY DEF TypeInv, TypeOK
  <2>2. entry \in Entry
    BY <2>1 DEF Description, Toi, Entry
  <2>3. symLen \in Nat \ {0}
    BY <2>1, TransmitterAssumption DEF MergedSymbolLength
  <2>4. Enqueue(entry, symLen) /\ RoomForTwo /\ inflight' = inflight
    BY <1>1 DEF Send
  <2> QED
    BY <2>2, <2>3, <2>4, EnqueueQueue
<1>2. ASSUME NEW data \in Data, NEW meta \in Meta, SendBuffer(data, meta)
      PROVE  QueueInv'
  <2> DEFINE entry == [toi |-> nextToi, data |-> data, meta |-> meta]
  <2>1. entry \in Entry /\ symbolLength \in Nat \ {0}
    BY DEF TypeInv, TypeOK, Entry
  <2>2. Enqueue(entry, symbolLength) /\ RoomForTwo /\ inflight' = inflight
    BY <1>2 DEF SendBuffer
  <2> QED
    BY <2>1, <2>2, EnqueueQueue
<1> QED
  BY <1>1, <1>2

LEMMA StepQueueInv ==
  ASSUME TypeInv, QueueInv, [Next]_vars
  PROVE  QueueInv'
<1>1. ASSUME UNCHANGED <<queue, inflight>>
      PROVE  QueueInv'
  BY <1>1 DEF queue, QueueInv
<1>2. CASE UNCHANGED vars
  BY <1>1, <1>2 DEF vars
<1>3. CASE SetRateLimit \/ SetTunnel \/ SendTimerExpires \/ FdtTimerExpires \/ Deactivate
  BY <1>1, <1>3 DEF SetRateLimit, SetTunnel, SendTimerExpires, FdtTimerExpires, Deactivate
<1>4. ASSUME NEW d \in Desc, (\E data \in Data : SetContent(d, data))
                               \/ (\E meta \in Meta : SetMetadata(d, meta))
      PROVE  QueueInv'
  BY <1>1, <1>4 DEF SetContent, SetMetadata
<1>5. CASE RunSendNextPacket
  <2>1. CASE active
    BY <1>5, <2>1, SendNextPacketQueue DEF RunSendNextPacket
  <2>2. CASE ~active
    BY <1>1, <1>5, <2>2 DEF RunSendNextPacket, queue
  <2> QED
    BY <2>1, <2>2
<1>6. CASE Activate
  BY <1>6, SendNextPacketQueue DEF Activate
<1> QED
  BY <1>2, <1>3, <1>4, <1>5, <1>6, SendQueue, SendSucceedsQueue, SendFailsQueue, FdtSendTickQueue
  DEF Next, ApplicationCalls, Handlers

LEMMA QueueInvariant == Spec => []QueueInv
<1>1. Init => QueueInv
  <2> SUFFICES ASSUME Init PROVE QueueInv
    OBVIOUS
  <2>1. Matches(fdt.entries, files)
    BY DEF Init, NewTable, NoEntries, Matches, Listed, Toi
  <2> QED
    BY <2>1 DEF Init, QueueInv, InFlightQueued, PicksOpen
<1>2. TypeInv /\ QueueInv /\ [Next]_vars => QueueInv'
  BY StepQueueInv
<1> QED
  BY <1>1, <1>2, TypeInvariant, PTL DEF Spec

\* The table lists exactly the files in the queue: send adds to both, a completion
\* takes from both every entry of the TOI, and nothing else touches either.
THEOREM FdtListsTheQueue == Spec => []FdtMatchesQueue
  BY QueueInvMeaning, QueueInvariant, PTL

\* The completion of a file's packet concerns the object that is queued under its TOI,
\* for no resend replaces an object and no completion removes one with packets left.
THEOREM PacketsAreOfTheQueue == Spec => []InFlightFileIsQueued
  BY QueueInvMeaning, QueueInvariant, PTL

\* get_next_symbols hands no symbol out twice while it is in flight, and completions
\* mark only the symbols of their own packet, with any number of send loops.
THEOREM SymbolsAreSentOnce == Spec => []InFlightSymbolsAreQueued
  BY QueueInvMeaning, QueueInvariant, PTL
================================================================================
