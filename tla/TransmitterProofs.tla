--------------------------- MODULE TransmitterProofs ---------------------------
(***************************************************************************)
(* Type correctness of the transmitter, and the two chains of handlers it  *)
(* lives by, for every number of TOIs, contents, descriptions, packets in  *)
(* flight and queued handlers.                                             *)
(*                                                                         *)
(* TypeOK is not inductive: that a step handles File objects rests on the  *)
(* heap (what the queue or a packet refers to has not been destroyed), and *)
(* that _max_payload stays a natural number on its agreement with the      *)
(* tunnel.  TypeInv adds both.                                             *)
(***************************************************************************)
EXTENDS Transmitter, FiniteSetTheorems, SequenceTheorems, WellFoundedInduction,
        TLAPS

LEMMA EntriesFinite == IsFiniteSet(Entry)
<1>1. IsFiniteSet(1..ToiMax)
  BY FS_Interval, TableAssumption
<1>2. IsFiniteSet((1..ToiMax) \X (Data \X Meta))
  <2>1. IsFiniteSet(Data \X Meta)
    BY FS_Product, TableAssumption
  <2> QED
    BY <1>1, <2>1, FS_Product
<1> DEFINE F == [t \in (1..ToiMax) \X (Data \X Meta) |->
                   [toi |-> t[1], data |-> t[2][1], meta |-> t[2][2]]]
<1>3. F \in Surjection((1..ToiMax) \X (Data \X Meta), Entry)
  <2>1. \A t \in (1..ToiMax) \X (Data \X Meta) : F[t] \in Entry
    BY DEF Entry
  <2>2. ASSUME NEW e \in Entry
        PROVE  \E t \in (1..ToiMax) \X (Data \X Meta) : F[t] = e
    <3>1. <<e.toi, <<e.data, e.meta>>>> \in (1..ToiMax) \X (Data \X Meta)
      BY DEF Entry
    <3>2. F[<<e.toi, <<e.data, e.meta>>>>] = e
      BY <3>1 DEF Entry
    <3> QED
      BY <3>1, <3>2
  <2> QED
    BY <2>1, <2>2 DEF Surjection
<1> QED
  BY <1>2, <1>3, FS_Surjection

LEMMA OccurrencesCount ==
  ASSUME NEW entries \in Bags
  PROVE  Cardinality(Occurrences(entries)) \in Nat
<1> DEFINE G == {{e} \X (1..entries[e]) : e \in Entry}
<1>1. IsFiniteSet(G)
  <2> DEFINE F == [e \in Entry |-> {e} \X (1..entries[e])]
  <2>1. F \in Surjection(Entry, G)
    BY DEF Surjection
  <2> QED
    BY <2>1, EntriesFinite, FS_Surjection
<1>2. \A g \in G : IsFiniteSet(g)
  <2>1. ASSUME NEW e \in Entry PROVE IsFiniteSet({e} \X (1..entries[e]))
    <3>1. IsFiniteSet({e})
      BY FS_Singleton
    <3>2. IsFiniteSet(1..entries[e])
      BY FS_Interval DEF Bags
    <3> QED
      BY <3>1, <3>2, FS_Product
  <2> QED
    BY <2>1
<1>3. IsFiniteSet(UNION G)
  BY <1>1, <1>2, FS_UNION
<1> QED
  BY <1>3, FS_CardinalityType DEF Occurrences

LEMMA CeilDivNat ==
  ASSUME NEW a \in Nat, NEW b \in Nat \ {0}
  PROVE  CeilDiv(a, b) \in Nat
  BY DEF CeilDiv

LEMMA FdtInstanceIdNat ==
  ASSUME NEW n \in Nat
  PROVE  FdtInstanceId(n) \in Nat
  BY FileAssumption DEF FdtInstanceId

LEMMA FdtInstanceIdSmall ==
  ASSUME NEW n \in Nat, n <= MaxInstance
  PROVE  FdtInstanceId(n) = n
  BY FileAssumption, TransmitterAssumption DEF FdtInstanceId

LEMMA FreshSymbolsType ==
  ASSUME NEW length \in Nat, NEW symLen \in Nat \ {0}
  PROVE  FreshSymbols(length, symLen) \in Seq(SymbolState)
<1>1. NofSourceSymbols(length, symLen) \in Nat
  BY CeilDivNat DEF NofSourceSymbols
<1> QED
  BY <1>1 DEF FreshSymbols, SymbolState

LEMMA NextInstanceType ==
  ASSUME NEW table \in Table
  PROVE  NextInstance(table) \in Nat
  BY DEF NextInstance, Table

LEMMA AddType ==
  ASSUME NEW table \in Table, NEW entry \in Entry
  PROVE  /\ Add(table, entry) \in Table
         /\ Add(table, entry).entries = [table.entries EXCEPT ![entry] = @ + 1]
<1>1. Add(table, entry) = [table EXCEPT !.instance = NextInstance(table),
                             !.entries = [table.entries EXCEPT ![entry] = @ + 1]]
  BY DEF Add, Table
<1>2. [table.entries EXCEPT ![entry] = @ + 1] \in Bags
  BY DEF Table, Bags
<1> QED
  BY <1>1, <1>2, NextInstanceType DEF Table

LEMMA RemoveType ==
  ASSUME NEW table \in Table, NEW toi
  PROVE  /\ Remove(table, toi) \in Table
         /\ Remove(table, toi).entries =
              [e \in Entry |-> IF e.toi = toi THEN 0 ELSE table.entries[e]]
<1>1. [e \in Entry |-> IF e.toi = toi THEN 0 ELSE table.entries[e]] \in Bags
  BY DEF Table, Bags
<1> QED
  BY <1>1, NextInstanceType DEF Remove, Table

LEMMA LeastOfNaturals ==
  ASSUME NEW S \in SUBSET Nat, S # {}
  PROVE  \E x \in S : \A y \in S : x <= y
<1> DEFINE R == {p \in Nat \X Nat : p[1] < p[2]}
<1>1. IsWellFoundedOn(R, Nat)
  <2>1. R = OpToRel(<, Nat)
    BY Zenon DEF OpToRel
  <2> QED
    BY <2>1, NatLessThanWellFounded
<1>2. PICK x \in S : \A y \in S : <<y, x>> \notin R
  <2> HIDE DEF R
  <2> QED
    BY <1>1, WFMin
<1>3. ASSUME NEW y \in S
      PROVE  x <= y
  <2>1. \A a, b \in Nat : a < b => <<a, b>> \in R
    OBVIOUS
  <2>2. ~(y < x)
    <3> HIDE DEF R
    <3> QED
      BY <1>2, <2>1
  <2> QED
    BY <2>2
<1> QED
  BY <1>3

LEMMA MinOfNaturals ==
  ASSUME NEW S \in SUBSET Nat, S # {}
  PROVE  Min(S) \in S
  BY LeastOfNaturals DEF Min

-----------------------------------------------------------------------------
(* The heap: what the queue and the packets in flight refer to is there. *)

Heap(fs, os, infl) ==
  /\ fs \in [Toi -> FileId \cup {None}]
  /\ os \in [FileId -> FileObject \cup {None}]
  /\ infl \in Seq(Packet)
  /\ \A toi \in Toi : fs[toi] # None => os[fs[toi]] # None /\ os[fs[toi]].toi = toi
  /\ \A k \in DOMAIN infl : os[infl[k].file] # None

LEMMA PacketsInFlight ==
  ASSUME NEW fs, NEW os, NEW infl, Heap(fs, os, infl)
  PROVE  \A k \in DOMAIN infl : infl[k] \in Packet /\ infl[k].file \in FileId
<1>1. \A k \in DOMAIN infl : infl[k] \in Packet
  BY DEF Heap
<1> QED
  BY <1>1 DEF Packet

LEMMA LiveKeepsHeap ==
  ASSUME NEW fs, NEW os, NEW infl, Heap(fs, os, infl)
  PROVE  Heap(fs, Live(os, fs, infl), infl)
<1> DEFINE os2 == Live(os, fs, infl)
<1>1. os2 \in [FileId -> FileObject \cup {None}]
  BY DEF Heap, Live
<1>2. ASSUME NEW id \in FileId, Referenced(id, fs, infl)
      PROVE  os2[id] = os[id]
  BY <1>2 DEF Live
<1>3. ASSUME NEW toi \in Toi, fs[toi] # None
      PROVE  os2[fs[toi]] # None /\ os2[fs[toi]].toi = toi
  <2>1. fs[toi] \in FileId /\ Referenced(fs[toi], fs, infl)
    BY <1>3 DEF Heap, Referenced
  <2> QED
    BY <1>2, <1>3, <2>1 DEF Heap
<1>4. ASSUME NEW k \in DOMAIN infl
      PROVE  os2[infl[k].file] # None
  <2>1. infl[k].file \in FileId /\ Referenced(infl[k].file, fs, infl)
    BY PacketsInFlight DEF Referenced
  <2> QED
    BY <1>2, <2>1 DEF Heap
<1> QED
  BY <1>1, <1>3, <1>4 DEF Heap

LEMMA FdtFileType ==
  ASSUME NEW table \in Table, symbolLength \in Nat \ {0}
  PROVE  FdtFile(table) \in FileObject /\ FdtFile(table).toi = 0
<1>1. FdtLength(table.entries) \in Nat
  BY OccurrencesCount, TransmitterAssumption DEF FdtLength, Table
<1>2. FreshSymbols(FdtLength(table.entries), symbolLength) \in Seq(SymbolState)
  BY <1>1, FreshSymbolsType
<1>3. FdtInstanceId(table.instance) \in Nat
  BY FdtInstanceIdNat DEF Table
<1> QED
  BY <1>1, <1>2, <1>3, TableAssumption DEF FdtFile, FileObject, FileOf, Table, Toi

LEMMA DataFileType ==
  ASSUME NEW entry \in Entry, NEW symLen \in Nat \ {0}
  PROVE  DataFile(entry, symLen) \in FileObject /\ DataFile(entry, symLen).toi = entry.toi
<1>1. Length[entry.data] \in Nat
  BY TransmitterAssumption DEF Entry
<1>2. FreshSymbols(Length[entry.data], symLen) \in Seq(SymbolState)
  BY <1>1, FreshSymbolsType
<1> QED
  BY <1>1, <1>2 DEF DataFile, FileObject, FileOf, Entry, Toi

LEMMA FreshType ==
  ASSUME NEW os, \E i \in FileId : os[i] = None
  PROVE  Fresh(os) \in FileId /\ os[Fresh(os)] = None
  BY DEF Fresh

\* Putting a new object in the heap and under its TOI in the queue.
LEMMA InsertKeepsHeap ==
  ASSUME NEW fs, NEW os, NEW infl, Heap(fs, os, infl),
         NEW id \in FileId, os[id] = None,
         NEW file \in FileObject
  PROVE  Heap([fs EXCEPT ![file.toi] = id], [os EXCEPT ![id] = file], infl)
<1>1. file.toi \in Toi /\ file # None
  BY NoneAssumption, TableAssumption DEF FileObject, FileOf, Toi
<1>2. \A toi \in Toi : fs[toi] # id
  BY NoneAssumption DEF Heap
<1>3. \A k \in DOMAIN infl : infl[k].file # id
  BY DEF Heap
<1> QED
  BY <1>1, <1>2, <1>3, NoneAssumption DEF Heap

LEMMA SendFdtType ==
  ASSUME NEW table \in Table, NEW fs, NEW os, NEW infl, Heap(fs, os, infl),
         symbolLength \in Nat \ {0},
         \E i \in FileId : os[i] = None,
         SendFdt(table, fs, os, infl)
  PROVE  fdt' \in Table /\ Heap(files', objs', infl)
<1>1. CASE table.entries = NoEntries
  BY <1>1, LiveKeepsHeap DEF SendFdt
<1>2. CASE table.entries # NoEntries
  <2> DEFINE id == Fresh(os)
             fs2 == [fs EXCEPT ![0] = id]
             os2 == [os EXCEPT ![id] = FdtFile(table)]
  <2>1. fdt' = Sent(table) /\ files' = fs2 /\ objs' = Live(os2, fs2, infl)
    BY <1>2 DEF SendFdt
  <2>2. Heap(fs2, os2, infl)
    BY FreshType, FdtFileType, InsertKeepsHeap
  <2>3. Sent(table) \in Table
    BY DEF Sent, Table
  <2> QED
    BY <2>1, <2>2, <2>3, LiveKeepsHeap
<1> QED
  BY <1>1, <1>2

\* Removing a TOI from the queue.
LEMMA EraseKeepsHeap ==
  ASSUME NEW fs, NEW os, NEW infl, Heap(fs, os, infl), NEW toi \in Toi
  PROVE  Heap([fs EXCEPT ![toi] = None], os, infl)
  BY DEF Heap

\* Changing an object's symbols.
LEMMA UpdateKeepsHeap ==
  ASSUME NEW fs, NEW os, NEW infl, Heap(fs, os, infl),
         NEW id \in FileId, os[id] # None,
         NEW file \in FileObject, file.toi = os[id].toi
  PROVE  Heap(fs, [os EXCEPT ![id] = file], infl)
<1> DEFINE os2 == [os EXCEPT ![id] = file]
<1>1. file # None
  BY NoneAssumption
<1>2. os2 \in [FileId -> FileObject \cup {None}]
  BY DEF Heap
<1>3. \A i \in FileId : os[i] # None => os2[i] # None /\ os2[i].toi = os[i].toi
  BY <1>1 DEF Heap
<1>4. \A toi \in Toi : fs[toi] # None => fs[toi] \in FileId
  BY DEF Heap
<1>5. \A k \in DOMAIN infl : infl[k].file \in FileId
  BY PacketsInFlight
<1> QED
  BY <1>2, <1>3, <1>4, <1>5 DEF Heap

LEMMA AppendKeepsHeap ==
  ASSUME NEW fs, NEW os, NEW infl, Heap(fs, os, infl),
         NEW packet \in Packet, os[packet.file] # None
  PROVE  Heap(fs, os, Append(infl, packet))
<1>1. infl \in Seq(Packet)
  BY DEF Heap
<1>2. /\ Append(infl, packet) \in Seq(Packet)
      /\ Len(Append(infl, packet)) = Len(infl) + 1
      /\ \A k \in 1..Len(infl) : Append(infl, packet)[k] = infl[k]
      /\ Append(infl, packet)[Len(infl) + 1] = packet
  BY <1>1, AppendProperties
<1>3. /\ Append(infl, packet) \in Seq(Packet)
      /\ \A k \in DOMAIN Append(infl, packet) :
           \/ k \in DOMAIN infl /\ Append(infl, packet)[k] = infl[k]
           \/ Append(infl, packet)[k] = packet
  BY <1>1, <1>2
<1> QED
  BY <1>3 DEF Heap

LEMMA TailKeepsHeap ==
  ASSUME NEW fs, NEW os, NEW infl, Heap(fs, os, infl), infl # <<>>
  PROVE  Heap(fs, os, Tail(infl))
<1>1. infl \in Seq(Packet)
  BY DEF Heap
<1>2. /\ Tail(infl) \in Seq(Packet)
      /\ \A k \in DOMAIN Tail(infl) : k + 1 \in DOMAIN infl /\ Tail(infl)[k] = infl[k + 1]
  BY <1>1, HeadTailProperties
<1> QED
  BY <1>2 DEF Heap

LEMMA MarkQueuedType ==
  ASSUME NEW file \in FileObject, NEW picked
  PROVE  MarkQueued(file, picked) \in FileObject /\ MarkQueued(file, picked).toi = file.toi
<1>1. PICK n \in Nat : file.symbols \in [1..n -> SymbolState]
  BY SeqDef DEF FileObject, FileOf
<1>2. [i \in DOMAIN file.symbols |-> IF i \in picked THEN "queued" ELSE file.symbols[i]]
        \in Seq(SymbolState)
  BY <1>1, SeqDef DEF SymbolState
<1> QED
  BY <1>2 DEF MarkQueued, FileObject, FileOf

LEMMA MarkCompletedType ==
  ASSUME NEW file \in FileObject, NEW picked, NEW carried
  PROVE  /\ MarkCompleted(file, picked, carried) \in FileObject
         /\ MarkCompleted(file, picked, carried).toi = file.toi
<1>1. PICK n \in Nat : file.symbols \in [1..n -> SymbolState]
  BY SeqDef DEF FileObject, FileOf
<1>2. [i \in DOMAIN file.symbols |-> IF i \in carried THEN "sent"
                                     ELSE IF i \in picked THEN "swallowed" ELSE file.symbols[i]]
        \in Seq(SymbolState)
  BY <1>1, SeqDef DEF SymbolState
<1> QED
  BY <1>2 DEF MarkCompleted, FileObject, FileOf

-----------------------------------------------------------------------------
(* The type invariant needs the heap, and the payload in step with the tunnel. *)

TypeInv ==
  /\ TypeOK
  /\ maxPayload = MaxPayload(tunnelled)
  /\ Heap(files, objs, inflight)

Waits == {"none", "idle", "rate"}

LEMMA NextSymbolsType ==
  ASSUME NEW file \in FileObject, NEW maxSize
  PROVE  NextSymbols(file, maxSize) \in SUBSET Nat
  BY DEF NextSymbols, Pending, FileObject, FileOf

LEMMA HeadOfQueue ==
  ASSUME TypeInv, Incomplete # {}
  PROVE  /\ files[Min(Incomplete)] \in FileId
         /\ objs[files[Min(Incomplete)]] \in FileObject
<1>1. Incomplete \in SUBSET Nat
  BY DEF Incomplete, Toi
<1>2. Min(Incomplete) \in Incomplete
  BY <1>1, MinOfNaturals
<1> QED
  BY <1>2 DEF Incomplete, TypeInv, Heap

LEMMA SendNextPacketType ==
  ASSUME TypeInv, NEW r \in Nat, NEW w \in Waits, SendNextPacket(r, w)
  PROVE  /\ Heap(files, objs', inflight')
         /\ ready' \in Nat /\ waiting' \in Waits
         /\ ready' > 0 \/ waiting' # "none"
<1>1. ASSUME SendNothing(r, w)
      PROVE  /\ Heap(files, objs', inflight')
             /\ ready' \in Nat /\ waiting' \in Waits
             /\ ready' > 0 \/ waiting' # "none"
  BY <1>1 DEF SendNothing, Rearm, TypeInv, Waits
<1>2. CASE Incomplete = {}
  BY <1>1, <1>2 DEF SendNextPacket
<1>3. CASE Incomplete # {}
  <2> DEFINE id == files[Min(Incomplete)]
             picked == NextSymbols(objs[id], maxPayload)
  <2>1. id \in FileId /\ objs[id] \in FileObject /\ objs[id] # None
    BY <1>3, HeadOfQueue, NoneAssumption
  <2>2. CASE picked = {}
    BY <1>1, <1>3, <2>2 DEF SendNextPacket
  <2>3. CASE picked # {}
    <3>1. SendPacket(id, r, w)
      BY <1>3, <2>3 DEF SendNextPacket
    <3>2. ready' \in Nat /\ waiting' \in Waits /\ (ready' > 0 \/ waiting' # "none")
      BY <3>1 DEF SendPacket, Rearm, Waits
    <3>3. PacketOf(id) \in Packet /\ PacketOf(id).file = id
      <4>1. picked \in SUBSET Nat
        BY <2>1, NextSymbolsType
      <4>2. Carried(objs[id], picked, maxPayload) \in SUBSET Nat
        BY <4>1 DEF Carried
      <4> QED
        BY <2>1, <4>1, <4>2 DEF PacketOf, Packet, TypeInv, TypeOK
    <3>4. objs' = [objs EXCEPT ![id] = MarkQueued(objs[id], picked)]
      BY <3>1 DEF SendPacket
    <3>5. Heap(files, objs', inflight)
      BY <2>1, <3>4, MarkQueuedType, UpdateKeepsHeap DEF TypeInv
    <3>6. objs'[id] # None
      BY <2>1, <3>4, MarkQueuedType, NoneAssumption DEF TypeInv, TypeOK
    <3>7. inflight' = Append(inflight, PacketOf(id))
      BY <3>1 DEF SendPacket
    <3> QED
      BY <3>2, <3>3, <3>5, <3>6, <3>7, AppendKeepsHeap
  <2> QED
    BY <2>2, <2>3
<1> QED
  BY <1>2, <1>3

LEMMA EnqueueType ==
  ASSUME TypeInv, RoomForTwo, NEW entry \in Entry, NEW symLen \in Nat \ {0},
         Enqueue(entry, symLen)
  PROVE  fdt' \in Table /\ Heap(files', objs', inflight)
<1> DEFINE id  == Fresh(objs)
           new == files[entry.toi] = None
           fs  == IF new THEN [files EXCEPT ![entry.toi] = id] ELSE files
           os  == IF new THEN [objs EXCEPT ![id] = DataFile(entry, symLen)] ELSE objs
<1>1. id \in FileId /\ objs[id] = None
  BY FreshType DEF RoomForTwo
<1>2. Heap(fs, os, inflight)
  <2>1. Heap([files EXCEPT ![entry.toi] = id], [objs EXCEPT ![id] = DataFile(entry, symLen)],
             inflight)
    BY <1>1, DataFileType, InsertKeepsHeap DEF TypeInv
  <2> QED
    BY <2>1 DEF TypeInv
<1>3. \E i \in FileId : os[i] = None
  BY <1>1 DEF RoomForTwo, TypeInv, TypeOK
<1>4. Add(fdt, entry) \in Table
  BY AddType DEF TypeInv, TypeOK
<1>5. SendFdt(Add(fdt, entry), fs, os, inflight)
  BY DEF Enqueue
<1>6. symbolLength \in Nat \ {0}
  BY DEF TypeInv, TypeOK
<1> QED
  BY <1>2, <1>3, <1>4, <1>5, <1>6, SendFdtType

LEMMA FileTransmittedType ==
  ASSUME TypeInv, NEW toi \in Toi, NEW os, NEW infl, Heap(files, os, infl),
         \E i \in FileId : os[i] = None,
         FileTransmitted(toi, os, infl)
  PROVE  fdt' \in Table /\ Heap(files', objs', infl)
<1> DEFINE fs == [files EXCEPT ![toi] = None]
<1>1. Heap(fs, os, infl)
  BY EraseKeepsHeap
<1>2. CASE toi = 0
  <2>1. fdt' = fdt /\ files' = fs /\ objs' = Live(os, fs, infl)
    BY <1>2 DEF FileTransmitted
  <2>2. fdt \in Table
    BY DEF TypeInv, TypeOK
  <2> QED
    BY <1>1, <2>1, <2>2, LiveKeepsHeap
<1>3. CASE toi # 0
  <2>1. Remove(fdt, toi) \in Table
    BY RemoveType DEF TypeInv, TypeOK
  <2>2. SendFdt(Remove(fdt, toi), fs, os, infl)
    BY <1>3 DEF FileTransmitted
  <2>3. symbolLength \in Nat \ {0}
    BY DEF TypeInv, TypeOK
  <2> QED
    BY <1>1, <2>1, <2>2, <2>3, SendFdtType
<1> QED
  BY <1>2, <1>3

\* The object of the packet whose send completes, its symbols marked.
LEMMA CompletionType ==
  ASSUME TypeInv, inflight # <<>>, RoomForOne,
         NEW file, file = MarkCompleted(objs[Head(inflight).file],
                                        Head(inflight).picked, Head(inflight).carried)
  PROVE  /\ file \in FileObject
         /\ Heap(files, [objs EXCEPT ![Head(inflight).file] = file], Tail(inflight))
         /\ \E i \in FileId : [objs EXCEPT ![Head(inflight).file] = file][i] = None
<1> DEFINE id == Head(inflight).file
           os == [objs EXCEPT ![id] = file]
<1>1. Head(inflight) = inflight[1] /\ 1 \in DOMAIN inflight
  BY DEF TypeInv, TypeOK
<1>2. id \in FileId /\ objs[id] # None
  BY <1>1, PacketsInFlight DEF TypeInv, Heap
<1>3. objs[id] \in FileObject
  BY <1>2 DEF TypeInv, TypeOK
<1>4. file \in FileObject /\ file.toi = objs[id].toi
  BY <1>3, MarkCompletedType
<1>5. Heap(files, os, inflight)
  BY <1>2, <1>4, UpdateKeepsHeap DEF TypeInv
<1>6. Heap(files, os, Tail(inflight))
  BY <1>5, TailKeepsHeap
<1>7. \E i \in FileId : os[i] = None
  BY <1>2 DEF RoomForOne, TypeInv, TypeOK
<1> QED
  BY <1>4, <1>6, <1>7

-----------------------------------------------------------------------------
(* Type correctness *)

LEMMA PayloadValues ==
  /\ IpUdp \in Nat
  /\ MaxPayload(TRUE) \in Nat \ {0}
  /\ MaxPayload(FALSE) = MaxPayload(TRUE) + IpUdp
  /\ MaxPayload(FALSE) \in Nat \ {0}
  BY TransmitterAssumption DEF MaxPayload, TunnelOverhead, IpUdp, AlcHeader, FecPayloadId

LEMMA InitTypeInv == Init => TypeInv
<1> SUFFICES ASSUME Init PROVE TypeInv
  OBVIOUS
<1>1. NewTable \in Table
  BY DEF NewTable, Table, NoEntries, Bags
<1>2. maxPayload \in Nat \ {0}
  BY PayloadValues DEF Init
<1>3. desc \in [Desc -> Description]
  BY TableAssumption DEF Init, Description, Toi
<1>4. Heap(files, objs, inflight)
  BY DEF Init, Heap
<1>5. nextToi \in 1..ToiMax
  BY TableAssumption DEF Init
<1> QED
  BY <1>1, <1>2, <1>3, <1>4, <1>5 DEF Init, TypeInv, TypeOK, Heap

\* What a step preserves when it leaves the configuration alone.
LEMMA TypeInvFrame ==
  ASSUME TypeInv, UNCHANGED <<tunnelled, maxPayload, symbolLength>>,
         active' \in BOOLEAN, rateLimited' \in BOOLEAN,
         Heap(files', objs', inflight'), fdt' \in Table, nextToi' \in 1..ToiMax,
         ready' \in Nat, waiting' \in Waits, fdtWaiting' \in BOOLEAN, fdtReady' \in Nat,
         desc' \in [Desc -> Description],
         aired' \subseteq [instance : Nat, table : Bags]
  PROVE  TypeInv'
  BY DEF TypeInv, TypeOK, Heap, Waits

LEMMA AfterToiType ==
  ASSUME NEW toi \in 1..ToiMax
  PROVE  AfterToi(toi) \in 1..ToiMax
  BY TableAssumption DEF AfterToi

LEMMA SendTypeInv ==
  ASSUME TypeInv, NEW d \in Desc, Send(d)
  PROVE  TypeInv'
<1> DEFINE toi == IF desc[d].toi = 0 THEN nextToi ELSE desc[d].toi
           symLen == MergedSymbolLength(d)
           entry == [desc[d] EXCEPT !.toi = toi]
<1>1. desc[d] \in Description /\ nextToi \in 1..ToiMax /\ symbolLength \in Nat \ {0}
  BY DEF TypeInv, TypeOK
<1>2. toi \in 1..ToiMax /\ entry \in Entry
  BY <1>1 DEF Description, Toi, Entry
<1>3. symLen \in Nat \ {0}
  BY <1>1, TransmitterAssumption DEF MergedSymbolLength
<1>4. Enqueue(entry, symLen) /\ RoomForTwo
  BY DEF Send
<1>5. fdt' \in Table /\ Heap(files', objs', inflight)
  BY <1>2, <1>3, <1>4, EnqueueType
<1>6. desc' \in [Desc -> Description]
  <2>1. desc' = [desc EXCEPT ![d].toi = toi]
    BY DEF Send
  <2>2. [desc[d] EXCEPT !.toi = toi] \in Description
    BY <1>1, <1>2 DEF Description, Toi
  <2> QED
    BY <2>1, <2>2 DEF TypeInv, TypeOK
<1>7. nextToi' \in 1..ToiMax
  BY <1>1, AfterToiType DEF Send
<1>8. UNCHANGED <<active, config, inflight, loop, fdtTimer, aired>>
  BY DEF Send
<1> QED
  BY <1>5, <1>6, <1>7, <1>8, TypeInvFrame
  DEF config, loop, fdtTimer, TypeInv, TypeOK, Waits

LEMMA SendBufferTypeInv ==
  ASSUME TypeInv, NEW data \in Data, NEW meta \in Meta, SendBuffer(data, meta)
  PROVE  TypeInv'
<1> DEFINE entry == [toi |-> nextToi, data |-> data, meta |-> meta]
<1>1. nextToi \in 1..ToiMax /\ symbolLength \in Nat \ {0}
  BY DEF TypeInv, TypeOK
<1>2. entry \in Entry
  BY <1>1 DEF Entry
<1>3. Enqueue(entry, symbolLength) /\ RoomForTwo
  BY DEF SendBuffer
<1>4. fdt' \in Table /\ Heap(files', objs', inflight)
  BY <1>1, <1>2, <1>3, EnqueueType
<1>5. nextToi' \in 1..ToiMax
  BY <1>1, AfterToiType DEF SendBuffer
<1>6. UNCHANGED <<active, config, inflight, loop, fdtTimer, desc, aired>>
  BY DEF SendBuffer
<1> QED
  BY <1>4, <1>5, <1>6, TypeInvFrame
  DEF config, loop, fdtTimer, TypeInv, TypeOK, Waits

LEMMA DescriptionTypeInv ==
  ASSUME TypeInv, NEW d \in Desc,
         (\E data \in Data : SetContent(d, data)) \/ (\E meta \in Meta : SetMetadata(d, meta))
  PROVE  TypeInv'
<1>1. desc \in [Desc -> Description]
  BY DEF TypeInv, TypeOK
<1>2. ASSUME NEW data \in Data, SetContent(d, data)
      PROVE  desc' \in [Desc -> Description]
  <2>1. 0 \in Toi
    BY TableAssumption DEF Toi
  <2> QED
    BY <1>1, <1>2, <2>1 DEF SetContent, Description
<1>3. ASSUME NEW meta \in Meta, SetMetadata(d, meta)
      PROVE  desc' \in [Desc -> Description]
  BY <1>1, <1>3 DEF SetMetadata, Description
<1>4. UNCHANGED <<active, config, queue, nextToi, inflight, loop, fdtTimer, aired>>
  BY DEF SetContent, SetMetadata
<1>5. desc' \in [Desc -> Description]
  BY <1>2, <1>3
<1> QED
  BY <1>4, <1>5, TypeInvFrame
  DEF queue, config, loop, fdtTimer, TypeInv, TypeOK, Waits

LEMMA SetTunnelTypeInv ==
  ASSUME TypeInv, SetTunnel
  PROVE  TypeInv'
<1>1. tunnelled \in BOOLEAN /\ maxPayload \in Nat /\ maxPayload = MaxPayload(tunnelled)
  BY DEF TypeInv, TypeOK
<1>2. tunnelled' \in BOOLEAN /\ maxPayload' \in Nat /\ maxPayload' = MaxPayload(tunnelled')
  <2>1. CASE tunnelled = TRUE
    BY <1>1, <2>1, PayloadValues DEF SetTunnel
  <2>2. CASE tunnelled = FALSE
    <3>1. tunnelled' = TRUE /\ maxPayload' = maxPayload - IpUdp
      BY <2>2 DEF SetTunnel
    <3>2. maxPayload = MaxPayload(TRUE) + IpUdp
      BY <1>1, <2>2, PayloadValues
    <3>3. maxPayload' = MaxPayload(TRUE)
      <4>1. ASSUME NEW p \in Nat, NEW u \in Nat
            PROVE  (p + u) - u = p
        OBVIOUS
      <4> QED
        BY <3>1, <3>2, <4>1, PayloadValues
    <3> QED
      BY <3>1, <3>3, PayloadValues
  <2> QED
    BY <1>1, <2>1, <2>2
<1>3. UNCHANGED <<active, rateLimited, symbolLength, queue, nextToi, inflight, loop,
                 fdtTimer, desc, aired>>
  BY DEF SetTunnel
<1> QED
  BY <1>2, <1>3 DEF queue, loop, fdtTimer, TypeInv, TypeOK, Heap

LEMMA SendSucceedsTypeInv ==
  ASSUME TypeInv, SendSucceeds
  PROVE  TypeInv'
<1> DEFINE packet == Head(inflight)
           file == MarkCompleted(objs[packet.file], packet.picked, packet.carried)
           os   == [objs EXCEPT ![packet.file] = file]
<1>1. /\ file \in FileObject
      /\ Heap(files, os, Tail(inflight))
      /\ \E i \in FileId : os[i] = None
  BY CompletionType DEF SendSucceeds
<1>2. fdt' \in Table /\ Heap(files', objs', Tail(inflight))
  <2>1. CASE Complete(file)
    <3>1. FileTransmitted(file.toi, os, Tail(inflight))
      BY <2>1 DEF SendSucceeds
    <3>2. file.toi \in Toi
      BY <1>1, TableAssumption DEF FileObject, FileOf, Toi
    <3> QED
      BY <1>1, <3>1, <3>2, FileTransmittedType
  <2>2. CASE ~Complete(file)
    <3>1. objs' = Live(os, files, Tail(inflight)) /\ UNCHANGED <<files, fdt>>
      BY <2>2 DEF SendSucceeds
    <3> QED
      BY <1>1, <3>1, LiveKeepsHeap DEF TypeInv, TypeOK
  <2> QED
    BY <2>1, <2>2
<1>3. inflight' = Tail(inflight) /\ UNCHANGED <<active, config, nextToi, loop, fdtTimer, desc>>
  BY DEF SendSucceeds
<1>4. aired' \subseteq [instance : Nat, table : Bags]
  <2>1. aired' = aired \/
        (file.toi = 0 /\ aired' = aired \cup {InstanceOf(file)})
    BY DEF SendSucceeds
  <2>2. file.instance \in Nat /\ (file.toi = 0 => file.table \in Bags)
    BY <1>1 DEF FileObject, FileOf
  <2> QED
    BY <2>1, <2>2 DEF InstanceOf, TypeInv, TypeOK
<1> QED
  BY <1>2, <1>3, <1>4, TypeInvFrame
  DEF config, loop, fdtTimer, TypeInv, TypeOK, Waits

LEMMA RunSendNextPacketTypeInv ==
  ASSUME TypeInv, RunSendNextPacket
  PROVE  TypeInv'
<1>1. ready \in Nat \ {0} /\ waiting \in Waits
  BY DEF RunSendNextPacket, TypeInv, TypeOK, Waits
<1>2. Heap(files, objs', inflight') /\ ready' \in Nat /\ waiting' \in Waits
  <2>1. CASE active
    <3>1. SendNextPacket(ready - 1, waiting)
      BY <2>1 DEF RunSendNextPacket
    <3>2. ready - 1 \in Nat
      BY <1>1
    <3> QED
      BY <1>1, <3>1, <3>2, SendNextPacketType
  <2>2. CASE ~active
    BY <1>1, <2>2 DEF RunSendNextPacket, TypeInv
  <2> QED
    BY <2>1, <2>2
<1>3. UNCHANGED <<active, config, files, fdt, nextToi, fdtTimer, desc, aired>>
  BY DEF RunSendNextPacket
<1> QED
  BY <1>2, <1>3, TypeInvFrame DEF config, fdtTimer, TypeInv, TypeOK

LEMMA FdtSendTickTypeInv ==
  ASSUME TypeInv, FdtSendTick
  PROVE  TypeInv'
<1>1. fdt' \in Table /\ Heap(files', objs', inflight)
  <2>1. CASE active
    <3>1. SendFdt(fdt, files, objs, inflight) /\ RoomForOne
      BY <2>1 DEF FdtSendTick
    <3> QED
      BY <3>1, SendFdtType DEF RoomForOne, TypeInv, TypeOK
  <2>2. CASE ~active
    BY <2>2 DEF FdtSendTick, queue, TypeInv, TypeOK
  <2> QED
    BY <2>1, <2>2
<1>2. fdtWaiting' \in BOOLEAN /\ fdtReady' \in Nat
  <2>1. fdtWaiting \in BOOLEAN /\ fdtReady \in Nat
    BY DEF TypeInv, TypeOK
  <2>2. fdtReady' \in Nat
    BY <2>1 DEF FdtSendTick
  <2>3. fdtWaiting' = TRUE \/ fdtWaiting' = fdtWaiting
    BY DEF FdtSendTick
  <2>4. fdtWaiting' \in BOOLEAN
    BY <2>1, <2>3, Zenon
  <2> QED
    BY <2>2, <2>4
<1>3. UNCHANGED <<active, config, nextToi, inflight, loop, desc, aired>>
  BY DEF FdtSendTick
<1> QED
  BY <1>1, <1>2, <1>3, TypeInvFrame DEF config, loop, TypeInv, TypeOK, Waits

LEMMA ActivateTypeInv ==
  ASSUME TypeInv, Activate
  PROVE  TypeInv'
<1>1. Heap(files, objs', inflight') /\ ready' \in Nat /\ waiting' \in Waits
  <2>1. ready \in Nat /\ waiting \in Waits
    BY DEF TypeInv, TypeOK, Waits
  <2>2. SendNextPacket(ready, waiting)
    BY DEF Activate
  <2> QED
    BY <2>1, <2>2, SendNextPacketType
<1>2. UNCHANGED <<config, files, fdt, nextToi, fdtReady, desc, aired>>
      /\ active' = TRUE /\ fdtWaiting' = TRUE
  BY DEF Activate
<1> QED
  BY <1>1, <1>2, TypeInvFrame DEF config, TypeInv, TypeOK

LEMMA SendFailsTypeInv ==
  ASSUME TypeInv, SendFails
  PROVE  TypeInv'
<1>1. inflight' = Tail(inflight) /\ objs' = Live(objs, files, Tail(inflight))
  BY DEF SendFails
<1>2. Heap(files, objs', inflight')
  BY <1>1, TailKeepsHeap, LiveKeepsHeap DEF SendFails, TypeInv
<1>3. UNCHANGED <<active, config, files, fdt, nextToi, loop, fdtTimer, desc, aired>>
  BY DEF SendFails
<1> QED
  BY <1>2, <1>3, TypeInvFrame DEF config, loop, fdtTimer, TypeInv, TypeOK, Waits

\* The steps that touch timers and handlers only.
LEMMA TimerTypeInv ==
  ASSUME TypeInv, SetRateLimit \/ SendTimerExpires \/ FdtTimerExpires \/ Deactivate
  PROVE  TypeInv'
<1>1. /\ UNCHANGED <<tunnelled, maxPayload, symbolLength, queue, nextToi, inflight, desc, aired>>
      /\ active' \in BOOLEAN /\ rateLimited' \in BOOLEAN
      /\ ready' \in Nat /\ waiting' \in Waits /\ fdtWaiting' \in BOOLEAN /\ fdtReady' \in Nat
  <2>1. /\ active \in BOOLEAN /\ rateLimited \in BOOLEAN
        /\ ready \in Nat /\ waiting \in Waits /\ fdtWaiting \in BOOLEAN /\ fdtReady \in Nat
    BY DEF TypeInv, TypeOK, Waits
  <2>2. CASE SetRateLimit
    BY <2>1, <2>2 DEF SetRateLimit, loop, fdtTimer
  <2>3. CASE SendTimerExpires
    <3>1. ready' \in Nat /\ waiting' \in Waits
      BY <2>1, <2>3 DEF SendTimerExpires, Waits
    <3> QED
      BY <2>1, <2>3, <3>1, Zenon DEF SendTimerExpires, config, fdtTimer
  <2>4. CASE FdtTimerExpires
    <3>1. fdtReady' \in Nat
      BY <2>1, <2>4 DEF FdtTimerExpires
    <3> QED
      BY <2>1, <2>4, <3>1, Zenon DEF FdtTimerExpires, config, loop
  <2>5. CASE Deactivate
    <3>1. ready' \in Nat /\ waiting' \in Waits
      BY <2>1, <2>5 DEF Deactivate, Rearm, Waits
    <3> QED
      BY <2>1, <2>5, <3>1, Zenon DEF Deactivate, config
  <2> QED
    BY <2>2, <2>3, <2>4, <2>5
<1> QED
  BY <1>1, TypeInvFrame DEF queue, TypeInv, TypeOK

LEMMA StepTypeInv ==
  ASSUME TypeInv, [Next]_vars
  PROVE  TypeInv'
<1>1. CASE UNCHANGED vars
  BY <1>1 DEF vars, queue, config, loop, fdtTimer, TypeInv, TypeOK, Heap
<1>2. CASE ApplicationCalls
  BY <1>2, SendTypeInv, SendBufferTypeInv, DescriptionTypeInv, TimerTypeInv,
     SetTunnelTypeInv, ActivateTypeInv DEF ApplicationCalls
<1>3. CASE Handlers
  BY <1>3, RunSendNextPacketTypeInv, TimerTypeInv, SendSucceedsTypeInv, FdtSendTickTypeInv
  DEF Handlers
<1>4. CASE SendFails
  BY <1>4, SendFailsTypeInv
<1> QED
  BY <1>1, <1>2, <1>3, <1>4 DEF Next

\* Every variable keeps its type, the payload follows the tunnel, and whatever the
\* queue or a packet in flight refers to is alive and filed under its TOI.
THEOREM TypeInvariant == Spec => []TypeInv
<1>1. Init => TypeInv
  BY InitTypeInv
<1>2. TypeInv /\ [Next]_vars => TypeInv'
  BY StepTypeInv
<1> QED
  BY <1>1, <1>2, PTL DEF Spec

\* Every variable keeps its type.
THEOREM TypeCorrect == Spec => []TypeOK
<1>1. TypeInv => TypeOK
  BY DEF TypeInv
<1> QED
  BY <1>1, TypeInvariant, PTL

-----------------------------------------------------------------------------
(* The send loop and the FDT timer of an active transmitter never die out *)

LoopInv == SendLoopAlive /\ FdtTimerAlive

LEMMA StepLoopInv ==
  ASSUME TypeInv, LoopInv, [Next]_vars
  PROVE  LoopInv'
<1>1. /\ ready \in Nat /\ waiting \in Waits /\ fdtReady \in Nat
      /\ active \in BOOLEAN /\ fdtWaiting \in BOOLEAN
  BY DEF TypeInv, TypeOK, Waits
<1>2. ASSUME UNCHANGED <<active, ready, waiting, fdtWaiting, fdtReady>>
      PROVE  LoopInv'
  BY <1>2 DEF LoopInv, SendLoopAlive, FdtTimerAlive
<1>3. CASE UNCHANGED vars
  BY <1>2, <1>3 DEF vars, loop, fdtTimer
<1>4. CASE SetRateLimit \/ SetTunnel \/ SendSucceeds \/ SendFails
  BY <1>2, <1>4 DEF SetRateLimit, SetTunnel, SendSucceeds, SendFails, loop, fdtTimer
<1>5. ASSUME NEW d \in Desc, Send(d) \/ (\E data \in Data : SetContent(d, data))
                               \/ (\E meta \in Meta : SetMetadata(d, meta))
      PROVE  LoopInv'
  BY <1>2, <1>5 DEF Send, SetContent, SetMetadata, loop, fdtTimer
<1>6. ASSUME NEW data \in Data, NEW meta \in Meta, SendBuffer(data, meta)
      PROVE  LoopInv'
  BY <1>2, <1>6 DEF SendBuffer, loop, fdtTimer
<1>7. CASE RunSendNextPacket
  <2>1. CASE active
    <3>1. ready - 1 \in Nat /\ SendNextPacket(ready - 1, waiting)
      BY <1>1, <1>7, <2>1 DEF RunSendNextPacket
    <3>2. ready' > 0 \/ waiting' # "none"
      BY <1>1, <3>1, SendNextPacketType
    <3> QED
      BY <1>7, <3>2 DEF RunSendNextPacket, fdtTimer, LoopInv, SendLoopAlive, FdtTimerAlive
  <2>2. CASE ~active
    BY <1>7, <2>2 DEF RunSendNextPacket, fdtTimer, LoopInv, SendLoopAlive, FdtTimerAlive
  <2> QED
    BY <2>1, <2>2
<1>8. CASE SendTimerExpires
  BY <1>1, <1>8 DEF SendTimerExpires, fdtTimer, LoopInv, SendLoopAlive, FdtTimerAlive
<1>9. CASE FdtTimerExpires
  BY <1>1, <1>9 DEF FdtTimerExpires, loop, LoopInv, SendLoopAlive, FdtTimerAlive
<1>10. CASE FdtSendTick
  BY <1>10 DEF FdtSendTick, loop, LoopInv, SendLoopAlive, FdtTimerAlive
<1>11. CASE Activate
  <2>1. ready' > 0 \/ waiting' # "none"
    BY <1>1, <1>11, SendNextPacketType DEF Activate
  <2> QED
    BY <1>11, <2>1 DEF Activate, LoopInv, SendLoopAlive, FdtTimerAlive
<1>12. CASE Deactivate
  BY <1>12 DEF Deactivate, LoopInv, SendLoopAlive, FdtTimerAlive
<1> QED
  BY <1>3, <1>4, <1>5, <1>6, <1>7, <1>8, <1>9, <1>10, <1>11, <1>12
  DEF Next, ApplicationCalls, Handlers

LEMMA LoopInvariant == Spec => []LoopInv
<1>1. Init => LoopInv
  BY DEF Init, LoopInv, SendLoopAlive, FdtTimerAlive
<1>2. TypeInv /\ LoopInv /\ [Next]_vars => LoopInv'
  BY StepLoopInv
<1> QED
  BY <1>1, <1>2, TypeInvariant, PTL DEF Spec

\* While the transmitter is active a call of send_next_packet is to come, whatever
\* was activated, deactivated, cancelled or expired before.
THEOREM SendLoopNeverDies == Spec => []SendLoopAlive
<1>1. LoopInv => SendLoopAlive
  BY DEF LoopInv
<1> QED
  BY <1>1, LoopInvariant, PTL

\* And so is a repetition of the FDT.
THEOREM FdtTimerNeverDies == Spec => []FdtTimerAlive
<1>1. LoopInv => FdtTimerAlive
  BY DEF LoopInv
<1> QED
  BY <1>1, LoopInvariant, PTL

================================================================================
