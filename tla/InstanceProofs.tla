----------------------------- MODULE InstanceProofs -----------------------------
(***************************************************************************)
(* An FDT instance id names one table for as long as the session lasts     *)
(* (fewer than InstanceIdModulus instances, which is what MaxInstance      *)
(* bounds), for every number of files, resends, completions and repeats.   *)
(* And the transmitter implements FluteSender: the documents and the       *)
(* objects that receivers may get packets of are those FluteSender makes.  *)
(***************************************************************************)
EXTENDS QueueProofs, MCOffers

\* The instances sent or still to be, of a heap and a history.
Ids(os, air) == air \cup {InstanceOf(os[id]) : id \in FdtObjects(os)}

\* Every instance was handed over, none under the identifier being built, unless with
\* the table as it is; and an identifier names one table.
Coherent(table, instances) ==
  /\ table.sent <= table.instance
  /\ \A a \in instances :
       /\ a.instance \in Nat /\ a.instance <= table.sent
       /\ a.instance = table.instance => a.table = table.entries
  /\ \A a, b \in instances : a.instance = b.instance => a.table = b.table

QueuedIn(fs) == {toi \in 1..ToiMax : fs[toi] # None}

\* Instances are left for the completion of every queued file.
Budget(table, fs) == table.instance + Cardinality(QueuedIn(fs)) <= MaxInstance

InstanceInv == Coherent(fdt, Ids(objs, aired)) /\ Budget(fdt, files)

LEMMA QueuedInFinite ==
  ASSUME NEW fs
  PROVE  IsFiniteSet(QueuedIn(fs)) /\ Cardinality(QueuedIn(fs)) \in Nat
<1>1. IsFiniteSet(1..ToiMax)
  BY FS_Interval, TableAssumption
<1>2. IsFiniteSet(QueuedIn(fs))
  BY <1>1, FS_Subset DEF QueuedIn
<1> QED
  BY <1>2, FS_CardinalityType

LEMMA FewerInstances ==
  ASSUME NEW table, NEW I, NEW J, Coherent(table, I), J \subseteq I
  PROVE  Coherent(table, J)
  BY DEF Coherent

LEMMA LiveInstances ==
  ASSUME NEW os \in [FileId -> FileObject \cup {None}], NEW fs, NEW infl, NEW air
  PROVE  Ids(Live(os, fs, infl), air) \subseteq Ids(os, air)
<1>1. \A id \in FileId : Live(os, fs, infl)[id] # None => Live(os, fs, infl)[id] = os[id]
  BY DEF Live
<1> QED
  BY <1>1 DEF Ids, FdtObjects

\* Marking symbols changes no instance.
LEMMA UpdateInstances ==
  ASSUME NEW os, NEW os2, NEW id, os[id] # None, os2[id] # None,
         os2[id].toi = os[id].toi, InstanceOf(os2[id]) = InstanceOf(os[id]),
         \A i \in FileId : i # id => os2[i] = os[i],
         NEW air
  PROVE  Ids(os2, air) = Ids(os, air)
<1>2. FdtObjects(os2) = FdtObjects(os)
  BY DEF FdtObjects
<1>3. \A i \in FileId : InstanceOf(os2[i]) = InstanceOf(os[i])
  OBVIOUS
<1>4. \A i \in FdtObjects(os) : i \in FileId
  BY DEF FdtObjects
<1> QED
  BY <1>2, <1>3, <1>4 DEF Ids

\* A file's object is no instance.
LEMMA InsertDataInstances ==
  ASSUME NEW os, NEW os2, NEW id, os[id] = None, os2[id].toi # 0,
         \A i \in FileId : i # id => os2[i] = os[i],
         NEW air
  PROVE  Ids(os2, air) = Ids(os, air)
<1>1. FdtObjects(os2) = FdtObjects(os)
  BY DEF FdtObjects
<1>2. \A i \in FdtObjects(os) : os2[i] = os[i]
  BY DEF FdtObjects
<1> QED
  BY <1>1, <1>2 DEF Ids

\* A table that changes is built under an identifier that no instance has.
LEMMA ChangedTable ==
  ASSUME NEW table \in Table, NEW table2 \in Table, NEW I, Coherent(table, I),
         table2.instance = NextInstance(table), table2.sent = table.sent
  PROVE  Coherent(table2, I) /\ table2.instance <= table.instance + 1
<1>1. table2.sent < table2.instance /\ table2.instance <= table.instance + 1
  BY DEF Coherent, NextInstance, Table
<1>2. \A a \in I : a.instance \in Nat /\ a.instance <= table2.sent
                   /\ a.instance # table2.instance
  BY <1>1 DEF Coherent, Table
<1> QED
  BY <1>1, <1>2 DEF Coherent, Table

LEMMA SendFdtInstances ==
  ASSUME NEW table \in Table, NEW fs, NEW os, NEW infl, Heap(fs, os, infl),
         symbolLength \in Nat \ {0}, \E i \in FileId : os[i] = None,
         SendFdt(table, fs, os, infl),
         NEW air, Coherent(table, Ids(os, air)), Budget(table, fs)
  PROVE  Coherent(fdt', Ids(objs', air)) /\ Budget(fdt', files')
<1>1. os \in [FileId -> FileObject \cup {None}]
  BY DEF Heap
<1>2. CASE table.entries = NoEntries
  BY <1>1, <1>2, LiveInstances, FewerInstances DEF SendFdt
<1>3. CASE table.entries # NoEntries
  <2> DEFINE id == Fresh(os)
             fs2 == [fs EXCEPT ![0] = id]
             os2 == [os EXCEPT ![id] = FdtFile(table)]
             new == InstanceOf(FdtFile(table))
  <2>1. fdt' = Sent(table) /\ files' = fs2 /\ objs' = Live(os2, fs2, infl)
    BY <1>3 DEF SendFdt
  <2>2. id \in FileId /\ os[id] = None /\ FdtFile(table) \in FileObject
    BY FreshType, FdtFileType
  <2>3. new.instance = table.instance /\ new.table = table.entries
    <3>1. table.instance \in Nat /\ table.instance <= MaxInstance
      <4>1. Cardinality(QueuedIn(fs)) \in Nat
        BY QueuedInFinite
      <4> QED
        BY <4>1, TransmitterAssumption DEF Budget, Table
    <3>2. FdtInstanceId(table.instance) = table.instance
      BY <3>1, FdtInstanceIdSmall
    <3> QED
      BY <3>2 DEF InstanceOf, FdtFile
  <2>4. Ids(os2, air) \subseteq Ids(os, air) \cup {new}
    <3>1. \A i \in FdtObjects(os2) : i = id \/ (i \in FdtObjects(os) /\ os2[i] = os[i])
      BY <1>1 DEF FdtObjects
    <3>2. os2[id] = FdtFile(table)
      BY <1>1, <2>2
    <3> HIDE DEF os2, id
    <3> QED
      BY <3>1, <3>2 DEF Ids
  <2>5. Ids(objs', air) \subseteq Ids(os, air) \cup {new}
    <3>1. os2 \in [FileId -> FileObject \cup {None}]
      BY <1>1, <2>2
    <3> HIDE DEF os2, fs2, new
    <3> QED
      BY <2>1, <2>4, <3>1, LiveInstances
  <2>6. Coherent(fdt', Ids(os, air) \cup {new})
    <3>1. fdt'.sent = table.instance /\ fdt'.instance = table.instance
          /\ fdt'.entries = table.entries
      BY <2>1 DEF Sent, Table
    <3>2. table.instance \in Nat /\ table.sent \in Nat
      BY DEF Table
    <3> HIDE DEF new
    <3> QED
      BY <2>3, <3>1, <3>2 DEF Coherent
  <2>7. Budget(fdt', files')
    <3>1. \A toi \in 1..ToiMax : fs2[toi] = fs[toi]
      BY DEF Heap, Toi
    <3>2. QueuedIn(fs2) = QueuedIn(fs)
      BY <3>1 DEF QueuedIn
    <3> QED
      BY <2>1, <3>2 DEF Budget, Sent, Table
  <2> QED
    BY <2>5, <2>6, <2>7, FewerInstances
<1> QED
  BY <1>2, <1>3

LEMMA EnqueueInstances ==
  ASSUME TypeInv, InstanceInv, RoomForTwo, RoomToSend,
         NEW entry \in Entry, NEW symLen \in Nat \ {0},
         Enqueue(entry, symLen), aired' = aired
  PROVE  InstanceInv'
<1> DEFINE id  == Fresh(objs)
           new == files[entry.toi] = None
           fs  == IF new THEN [files EXCEPT ![entry.toi] = id] ELSE files
           os  == IF new THEN [objs EXCEPT ![id] = DataFile(entry, symLen)] ELSE objs
           table == Add(fdt, entry)
<1>1. id \in FileId /\ objs[id] = None
  BY FreshType DEF RoomForTwo
<1>2. DataFile(entry, symLen) \in FileObject /\ DataFile(entry, symLen).toi = entry.toi
      /\ entry.toi # 0
  BY DataFileType DEF Entry
<1>3. /\ fdt \in Table /\ symbolLength \in Nat \ {0} /\ files \in [Toi -> FileId \cup {None}]
      /\ objs \in [FileId -> FileObject \cup {None}] /\ Heap(files, objs, inflight)
  BY DEF TypeInv, TypeOK
<1>4. Heap(fs, os, inflight)
  BY <1>1, <1>2, <1>3, InsertKeepsHeap
<1>5. \E i \in FileId : os[i] = None
  BY <1>1, <1>3 DEF RoomForTwo
<1>6. table \in Table /\ table.instance = NextInstance(fdt) /\ table.sent = fdt.sent
  BY <1>3, AddType DEF Add, Table
<1>7. Ids(os, aired) = Ids(objs, aired)
  <2>1. CASE new
    <3> DEFINE file == DataFile(entry, symLen)
    <3>1. os[id] = file /\ file.toi # 0 /\ \A i \in FileId : i # id => os[i] = objs[i]
      BY <1>1, <1>2, <1>3, <2>1
    <3> HIDE DEF id, file, os, fs, table, new
    <3> QED
      BY <1>1, <3>1, InsertDataInstances
  <2>2. CASE ~new
    BY <2>2
  <2> QED
    BY <2>1, <2>2
<1>8. Coherent(table, Ids(os, aired)) /\ table.instance <= fdt.instance + 1
  <2> HIDE DEF table, os
  <2> QED
    BY <1>3, <1>6, <1>7, ChangedTable DEF InstanceInv
<1>9. Budget(table, fs)
  <2>1. QueuedIn(fs) \subseteq QueuedIn(files) \cup {entry.toi}
    BY <1>3 DEF QueuedIn, Toi
  <2>2. /\ IsFiniteSet(QueuedIn(files) \cup {entry.toi})
        /\ Cardinality(QueuedIn(files) \cup {entry.toi}) <= Cardinality(QueuedIn(files)) + 1
        /\ Cardinality(QueuedIn(files) \cup {entry.toi}) \in Nat
    <3>1. IsFiniteSet(QueuedIn(files)) /\ Cardinality(QueuedIn(files)) \in Nat
      BY QueuedInFinite
    <3>2. CASE entry.toi \in QueuedIn(files)
      <4> DEFINE more == QueuedIn(files) \cup {entry.toi}
      <4>1. more = QueuedIn(files)
        BY <3>2
      <4> HIDE DEF more
      <4>2. IsFiniteSet(more) /\ Cardinality(more) <= Cardinality(QueuedIn(files)) + 1
            /\ Cardinality(more) \in Nat
        BY <3>1, <4>1
      <4> QED
        BY <4>2 DEF more
    <3>3. CASE entry.toi \notin QueuedIn(files)
      BY <3>1, <3>3, FS_AddElement
    <3> QED
      BY <3>2, <3>3
  <2>3. Cardinality(QueuedIn(fs)) <= Cardinality(QueuedIn(files) \cup {entry.toi})
    <3> HIDE DEF fs
    <3> QED
      BY <2>1, <2>2, FS_Subset
  <2>4. fdt.instance + Cardinality(QueuedIn(files)) + 2 <= MaxInstance
    BY DEF RoomToSend, Queued, QueuedIn
  <2>5. /\ Cardinality(QueuedIn(fs)) \in Nat /\ Cardinality(QueuedIn(files)) \in Nat
        /\ fdt.instance \in Nat /\ table.instance \in Nat /\ MaxInstance \in Nat
    BY <1>3, <1>6, QueuedInFinite, TransmitterAssumption DEF Table
  <2> HIDE DEF fs, table
  <2> QED
    BY <1>8, <2>2, <2>3, <2>4, <2>5 DEF Budget
<1>10. SendFdt(table, fs, os, inflight)
  BY DEF Enqueue
<1> HIDE DEF fs, os, table
<1> QED
  BY <1>3, <1>4, <1>5, <1>6, <1>8, <1>9, <1>10, SendFdtInstances DEF InstanceInv

LEMMA SendInstances ==
  ASSUME TypeInv, InstanceInv,
         (\E d \in Desc : Send(d)) \/ (\E data \in Data, meta \in Meta : SendBuffer(data, meta))
  PROVE  InstanceInv'
<1>1. ASSUME NEW d \in Desc, Send(d)
      PROVE  InstanceInv'
  <2> DEFINE toi == IF desc[d].toi = 0 THEN nextToi ELSE desc[d].toi
             symLen == MergedSymbolLength(d)
             entry == [desc[d] EXCEPT !.toi = toi]
  <2>1. desc[d] \in Description /\ nextToi \in 1..ToiMax /\ symbolLength \in Nat \ {0}
    BY DEF TypeInv, TypeOK
  <2>2. entry \in Entry
    BY <2>1 DEF Description, Toi, Entry
  <2>3. symLen \in Nat \ {0}
    BY <2>1, TransmitterAssumption DEF MergedSymbolLength
  <2>4. Enqueue(entry, symLen) /\ RoomForTwo /\ RoomToSend /\ aired' = aired
    BY <1>1 DEF Send
  <2> QED
    BY <2>2, <2>3, <2>4, EnqueueInstances
<1>2. ASSUME NEW data \in Data, NEW meta \in Meta, SendBuffer(data, meta)
      PROVE  InstanceInv'
  <2> DEFINE entry == [toi |-> nextToi, data |-> data, meta |-> meta]
  <2>1. entry \in Entry /\ symbolLength \in Nat \ {0}
    BY DEF TypeInv, TypeOK, Entry
  <2>2. Enqueue(entry, symbolLength) /\ RoomForTwo /\ RoomToSend /\ aired' = aired
    BY <1>2 DEF SendBuffer
  <2> QED
    BY <2>1, <2>2, EnqueueInstances
<1> QED
  BY <1>1, <1>2

\* The packet's object was an instance before it was completed.
LEMMA SendSucceedsInstances ==
  ASSUME TypeInv, QueueInv, InstanceInv, SendSucceeds
  PROVE  InstanceInv'
<1> DEFINE packet == Head(inflight)
           rest == Tail(inflight)
           id == packet.file
           file == MarkCompleted(objs[id], packet.picked, packet.carried)
           os == [objs EXCEPT ![id] = file]
           fs == [files EXCEPT ![file.toi] = None]
<1>1. inflight # <<>> /\ RoomForOne
  BY DEF SendSucceeds
<1>2. /\ file \in FileObject /\ Heap(files, os, rest) /\ \E i \in FileId : os[i] = None
  BY <1>1, CompletionType
<1>3. id \in FileId /\ objs[id] # None /\ objs[id] \in FileObject
  <2>1. packet = inflight[1] /\ 1 \in DOMAIN inflight
    BY <1>1, TailElements DEF TypeInv, TypeOK
  <2>2. inflight[1].file \in FileId /\ objs[inflight[1].file] # None
    BY <2>1, PacketsInFlight DEF TypeInv, Heap
  <2> QED
    BY <2>1, <2>2 DEF TypeInv, TypeOK
<1>4. file.toi = objs[id].toi /\ InstanceOf(file) = InstanceOf(objs[id])
  BY <1>3 DEF MarkCompleted, FileObject, FileOf, InstanceOf
<1>5. file.toi # 0 => files[file.toi] = id
  <2> HIDE DEF os, file
  <2>1. file = MarkCompleted(objs[id], packet.picked, packet.carried)
        /\ os = [objs EXCEPT ![id] = file]
    BY DEF file, os
  <2> QED
    BY <1>1, <2>1, CompletionPicks
<1>6. /\ fdt \in Table /\ symbolLength \in Nat \ {0} /\ files \in [Toi -> FileId \cup {None}]
      /\ objs \in [FileId -> FileObject \cup {None}] /\ file.toi \in Toi
  BY <1>2, TableAssumption DEF TypeInv, TypeOK, FileObject, FileOf, Toi
<1>7. Ids(os, aired') \subseteq Ids(objs, aired)
  <2>1. aired' = aired \/ (file.toi = 0 /\ aired' = aired \cup {InstanceOf(file)})
    BY DEF SendSucceeds
  <2>2. aired' = aired \/ (id \in FdtObjects(objs) /\ aired' = aired \cup {InstanceOf(objs[id])})
    BY <1>3, <1>4, <2>1 DEF FdtObjects
  <2>5. os[id] = file /\ \A i \in FileId : i # id => os[i] = objs[i]
    BY <1>3, <1>6
  <2>6. file # None
    BY <1>2, NoneAssumption
  <2> HIDE DEF file, id, os, fs, packet, rest
  <2>3. Ids(os, aired') = Ids(objs, aired')
    BY <1>3, <1>4, <2>5, <2>6, UpdateInstances
  <2>4. Ids(objs, aired') \subseteq Ids(objs, aired)
    BY <2>2 DEF Ids
  <2> QED
    BY <2>3, <2>4
<1>8. Coherent(fdt, Ids(os, aired')) /\ Budget(fdt, files)
  BY <1>7, FewerInstances DEF InstanceInv
<1>9. os \in [FileId -> FileObject \cup {None}]
  BY <1>2 DEF Heap
<1>10. CASE ~Complete(file)
  <2>1. objs' = Live(os, files, rest) /\ UNCHANGED <<files, fdt>>
    BY <1>10 DEF SendSucceeds
  <2>2. Ids(objs', aired') \subseteq Ids(os, aired')
    <3> HIDE DEF os, rest
    <3> QED
      BY <1>9, <2>1, LiveInstances
  <2> QED
    BY <1>8, <2>1, <2>2, FewerInstances DEF InstanceInv
<1>11. CASE Complete(file)
  <2>1. FileTransmitted(file.toi, os, rest)
    BY <1>11 DEF SendSucceeds
  <2>2. Heap(fs, os, rest)
    BY <1>2, <1>6, EraseKeepsHeap
  <2>3. CASE file.toi = 0
    <3>1. files' = fs /\ fdt' = fdt /\ objs' = Live(os, fs, rest)
      BY <2>1, <2>3 DEF FileTransmitted
    <3>2. QueuedIn(fs) = QueuedIn(files)
      BY <1>6, <2>3 DEF QueuedIn, Toi
    <3>3. Ids(objs', aired') \subseteq Ids(os, aired')
      <4> HIDE DEF os, rest, fs
      <4> QED
        BY <1>9, <3>1, LiveInstances
    <3> QED
      BY <1>8, <3>1, <3>2, <3>3, FewerInstances DEF InstanceInv, Budget
  <2>4. CASE file.toi # 0
    <3> DEFINE table == Remove(fdt, file.toi)
    <3>1. file.toi \in 1..ToiMax /\ files[file.toi] # None
      <4> HIDE DEF file, id
      <4>1. file.toi \in 1..ToiMax
        BY <1>6, <2>4, TableAssumption DEF Toi
      <4>2. files[file.toi] = id /\ id \in FileId
        BY <1>3, <1>5, <2>4
      <4> QED
        BY <4>1, <4>2, NoneAssumption
    <3>2. table \in Table /\ table.instance = NextInstance(fdt) /\ table.sent = fdt.sent
      <4>1. table \in Table
        BY <1>6, RemoveType
      <4> HIDE DEF file
      <4>2. table.instance = NextInstance(fdt) /\ table.sent = fdt.sent
        BY <1>6 DEF Remove, Table
      <4> QED
        BY <4>1, <4>2
    <3>3. SendFdt(table, fs, os, rest)
      BY <2>1, <2>4 DEF FileTransmitted
    <3>4. Coherent(table, Ids(os, aired')) /\ table.instance <= fdt.instance + 1
      <4> HIDE DEF table, os
      <4> QED
        BY <1>6, <1>8, <3>2, ChangedTable
    <3>5. Budget(table, fs)
      <4>1. QueuedIn(fs) = QueuedIn(files) \ {file.toi} /\ file.toi \in QueuedIn(files)
        BY <1>6, <3>1 DEF QueuedIn, Toi
      <4>2. Cardinality(QueuedIn(fs)) = Cardinality(QueuedIn(files)) - 1
        <5> HIDE DEF fs
        <5>1. IsFiniteSet(QueuedIn(files))
          BY QueuedInFinite
        <5> QED
          BY <4>1, <5>1, FS_RemoveElement
      <4>3. /\ Cardinality(QueuedIn(files)) \in Nat /\ fdt.instance \in Nat
            /\ table.instance \in Nat /\ MaxInstance \in Nat
        BY <1>6, <3>2, QueuedInFinite, TransmitterAssumption DEF Table
      <4> HIDE DEF fs, table
      <4> QED
        BY <1>8, <3>4, <4>2, <4>3 DEF Budget
    <3> HIDE DEF fs, os, rest, table
    <3>6. Coherent(fdt', Ids(objs', aired')) /\ Budget(fdt', files')
      BY <1>2, <1>6, <2>2, <3>2, <3>3, <3>4, <3>5, SendFdtInstances
    <3> QED
      BY <3>6 DEF InstanceInv
  <2> QED
    BY <2>3, <2>4
<1> QED
  BY <1>10, <1>11

LEMMA SendNextPacketInstances ==
  ASSUME TypeInv, InstanceInv, NEW r, NEW w, SendNextPacket(r, w),
         UNCHANGED <<files, fdt, aired>>
  PROVE  InstanceInv'
<1>1. CASE SendNothing(r, w)
  BY <1>1 DEF SendNothing, InstanceInv
<1>2. CASE ~SendNothing(r, w)
  <2> DEFINE id == files[Min(Incomplete)]
             file == MarkQueued(objs[id], NextSymbols(objs[id], maxPayload))
  <2>1. Incomplete # {} /\ SendPacket(id, r, w)
    BY <1>2 DEF SendNextPacket
  <2>2. id \in FileId /\ objs[id] \in FileObject /\ objs[id] # None
    BY <2>1, HeadOfQueue, NoneAssumption
  <2>3. objs' = [objs EXCEPT ![id] = file]
    BY <2>1 DEF SendPacket
  <2>4. file \in FileObject /\ file.toi = objs[id].toi
    BY <2>2, MarkQueuedType
  <2>5. InstanceOf(file) = InstanceOf(objs[id])
    BY <2>2 DEF MarkQueued, InstanceOf, FileObject, FileOf
  <2>6. objs'[id] = file /\ file # None /\ \A i \in FileId : i # id => objs'[i] = objs[i]
    BY <2>2, <2>3, <2>4, NoneAssumption DEF TypeInv, TypeOK
  <2>7. Ids(objs', aired) = Ids(objs, aired)
    <3> HIDE DEF id, file
    <3> QED
      BY <2>2, <2>4, <2>5, <2>6, UpdateInstances
  <2> QED
    BY <2>7 DEF InstanceInv
<1> QED
  BY <1>1, <1>2

LEMMA FdtSendTickInstances ==
  ASSUME TypeInv, InstanceInv, FdtSendTick
  PROVE  InstanceInv'
<1>1. aired' = aired
  BY DEF FdtSendTick
<1>2. CASE ~active
  BY <1>1, <1>2 DEF FdtSendTick, queue, InstanceInv
<1>3. CASE active
  <2>1. SendFdt(fdt, files, objs, inflight) /\ RoomForOne
    BY <1>3 DEF FdtSendTick
  <2>2. /\ fdt \in Table /\ symbolLength \in Nat \ {0} /\ \E i \in FileId : objs[i] = None
        /\ Heap(files, objs, inflight)
    BY <2>1 DEF TypeInv, TypeOK, RoomForOne
  <2> QED
    BY <1>1, <2>1, <2>2, SendFdtInstances DEF InstanceInv
<1> QED
  BY <1>2, <1>3

LEMMA StepInstanceInv ==
  ASSUME TypeInv, QueueInv, InstanceInv, [Next]_vars
  PROVE  InstanceInv'
<1>1. ASSUME UNCHANGED <<queue, aired>>
      PROVE  InstanceInv'
  BY <1>1 DEF queue, InstanceInv
<1>2. CASE UNCHANGED vars
  BY <1>1, <1>2 DEF vars
<1>3. CASE SetRateLimit \/ SetTunnel \/ SendTimerExpires \/ FdtTimerExpires \/ Deactivate
  BY <1>1, <1>3 DEF SetRateLimit, SetTunnel, SendTimerExpires, FdtTimerExpires, Deactivate
<1>4. ASSUME NEW d \in Desc, (\E data \in Data : SetContent(d, data))
                               \/ (\E meta \in Meta : SetMetadata(d, meta))
      PROVE  InstanceInv'
  BY <1>1, <1>4 DEF SetContent, SetMetadata
<1>5. CASE RunSendNextPacket
  <2>1. CASE active
    BY <1>5, <2>1, SendNextPacketInstances DEF RunSendNextPacket
  <2>2. CASE ~active
    BY <1>1, <1>5, <2>2 DEF RunSendNextPacket, queue
  <2> QED
    BY <2>1, <2>2
<1>6. CASE Activate
  BY <1>6, SendNextPacketInstances DEF Activate
<1>7. CASE SendFails
  <2>1. objs' = Live(objs, files, Tail(inflight)) /\ UNCHANGED <<files, fdt, aired>>
    BY <1>7 DEF SendFails
  <2>2. Ids(objs', aired) \subseteq Ids(objs, aired)
    BY <2>1, LiveInstances DEF TypeInv, TypeOK
  <2> QED
    BY <2>1, <2>2, FewerInstances DEF InstanceInv
<1> QED
  BY <1>2, <1>3, <1>4, <1>5, <1>6, <1>7, SendInstances, SendSucceedsInstances, FdtSendTickInstances
  DEF Next, ApplicationCalls, Handlers

LEMMA InitInstanceInv == Init => InstanceInv
<1> SUFFICES ASSUME Init PROVE InstanceInv
  OBVIOUS
<1>1. Ids(objs, aired) = {}
  BY DEF Init, Ids, FdtObjects
<1>2. QueuedIn(files) = {}
  BY DEF Init, QueuedIn, Toi
<1>3. Cardinality(QueuedIn(files)) = 0
  BY <1>2, FS_EmptySet
<1> QED
  BY <1>1, <1>3, TransmitterAssumption DEF Init, NewTable, InstanceInv, Coherent, Budget

\* Any two FDT documents made under one instance id, in a whole session, list the same
\* entries: add and remove take a new id once send_fdt has handed the old one over.
THEOREM InstanceIdsNameTables == Spec => []InstanceIdentifiesTable
<1>1. InstanceInv => InstanceIdentifiesTable
  BY DEF InstanceInv, Coherent, Ids, InstanceIdentifiesTable, Instances
<1>2. TypeInv /\ QueueInv /\ InstanceInv /\ [Next]_vars => InstanceInv'
  BY StepInstanceInv
<1>3. Spec => []InstanceInv
  BY <1>2, InitInstanceInv, TypeInvariant, QueueInvariant, PTL DEF Spec
<1> QED
  BY <1>1, <1>3, PTL

-----------------------------------------------------------------------------
(* The documents and the objects *)

\* The document of a table.
DocumentOf(table) == [instance |-> table.instance, entries |-> EntriesOf(table.entries)]

\* Documents and objects that still may be sent were recorded.
Recorded(os) == DocumentsIn(os) \subseteq docs /\ EntriesIn(os) \subseteq objects

\* The identifier being built is the last one made or the next, and a table with entries
\* has been made.
Settled(table, made) ==
  /\ table.instance \in {table.sent, table.sent + 1}
  /\ table.entries # NoEntries => table.instance = table.sent /\ DocumentOf(table) \in made

OffersInv == Recorded(objs) /\ Settled(fdt, docs)

-----------------------------------------------------------------------------
(* The heap *)

LEMMA FewerObjects ==
  ASSUME NEW os, NEW os2,
         \A id \in FileId : os2[id] # None => os2[id] = os[id]
  PROVE  DocumentsIn(os2) \subseteq DocumentsIn(os) /\ EntriesIn(os2) \subseteq EntriesIn(os)
<1>1. \A id \in FdtObjects(os2) : id \in FdtObjects(os) /\ os2[id] = os[id]
  BY DEF FdtObjects
<1>2. ASSUME NEW id \in FileId, os2[id] # None, id \notin FdtObjects(os2)
      PROVE  id \notin FdtObjects(os) /\ os2[id] = os[id] /\ os[id] # None
  BY <1>2 DEF FdtObjects
<1> QED
  BY <1>1, <1>2 DEF DocumentsIn, EntriesIn

LEMMA LiveObjects ==
  ASSUME NEW os, NEW fs, NEW infl
  PROVE  /\ DocumentsIn(Live(os, fs, infl)) \subseteq DocumentsIn(os)
         /\ EntriesIn(Live(os, fs, infl)) \subseteq EntriesIn(os)
<1>1. \A id \in FileId : Live(os, fs, infl)[id] # None => Live(os, fs, infl)[id] = os[id]
  BY DEF Live
<1> QED
  BY <1>1, FewerObjects

\* Marking symbols changes neither.
LEMMA MarkedObjects ==
  ASSUME NEW os, NEW os2, NEW id, os[id] # None, os2[id] # None,
         os2[id].toi = os[id].toi, os2[id].instance = os[id].instance,
         os2[id].table = os[id].table, os2[id].entry = os[id].entry,
         \A i \in FileId : i # id => os2[i] = os[i]
  PROVE  DocumentsIn(os2) = DocumentsIn(os) /\ EntriesIn(os2) = EntriesIn(os)
<1>1. FdtObjects(os2) = FdtObjects(os)
  BY DEF FdtObjects
<1>2. {i \in FileId : os2[i] # None} = {i \in FileId : os[i] # None}
  OBVIOUS
<1>3. \A i \in FileId : /\ os2[i].instance = os[i].instance /\ os2[i].table = os[i].table
                        /\ os2[i].entry = os[i].entry
  OBVIOUS
<1>4. \A i \in FdtObjects(os) : i \in FileId
  BY DEF FdtObjects
<1>5. DocumentsIn(os2) = DocumentsIn(os)
  BY <1>1, <1>3, <1>4 DEF DocumentsIn
<1>6. EntriesIn(os2) = EntriesIn(os)
  BY <1>1, <1>2, <1>3 DEF EntriesIn
<1> QED
  BY <1>5, <1>6

\* A file's object is no document, and its entry is recorded.
LEMMA InsertedObject ==
  ASSUME NEW os, NEW os2, NEW id \in FileId, os[id] = None, os2[id] # None, os2[id].toi # 0,
         \A i \in FileId : i # id => os2[i] = os[i]
  PROVE  /\ DocumentsIn(os2) = DocumentsIn(os)
         /\ EntriesIn(os2) = EntriesIn(os) \cup {os2[id].entry}
<1>1. FdtObjects(os2) = FdtObjects(os)
  BY DEF FdtObjects
<1>2. \A i \in FdtObjects(os) : os2[i] = os[i]
  BY DEF FdtObjects
<1>3. DocumentsIn(os2) = DocumentsIn(os)
  BY <1>1, <1>2 DEF DocumentsIn
<1>4. {i \in FileId : os2[i] # None} \ FdtObjects(os2)
        = ({i \in FileId : os[i] # None} \ FdtObjects(os)) \cup {id}
  BY <1>1 DEF FdtObjects
<1>5. \A i \in {j \in FileId : os[j] # None} \ FdtObjects(os) : os2[i] = os[i]
  OBVIOUS
<1>6. EntriesIn(os2) = EntriesIn(os) \cup {os2[id].entry}
  BY <1>4, <1>5 DEF EntriesIn
<1> QED
  BY <1>3, <1>6

-----------------------------------------------------------------------------
(* send_fdt *)

\* A document is put in the heap if there are entries, and stays there; queued files do.
LEMMA SendFdtObjects ==
  ASSUME NEW table \in Table, NEW fs, NEW os, NEW infl, Heap(fs, os, infl),
         symbolLength \in Nat \ {0}, \E i \in FileId : os[i] = None,
         SendFdt(table, fs, os, infl), table.instance <= MaxInstance
  PROVE  /\ EntriesIn(objs') \subseteq EntriesIn(os)
         /\ \A toi \in 1..ToiMax : fs[toi] # None => objs'[fs[toi]] = os[fs[toi]]
         /\ table.entries = NoEntries =>
              fdt' = table /\ DocumentsIn(objs') \subseteq DocumentsIn(os)
         /\ table.entries # NoEntries =>
              /\ fdt' = Sent(table)
              /\ DocumentsIn(objs') \subseteq DocumentsIn(os) \cup {DocumentOf(table)}
              /\ DocumentOf(table) \in DocumentsIn(objs')
<1>1. os \in [FileId -> FileObject \cup {None}] /\ fs \in [Toi -> FileId \cup {None}]
  BY DEF Heap
<1>2. ASSUME NEW toi \in 1..ToiMax, fs[toi] # None
      PROVE  toi \in Toi /\ toi # 0 /\ fs[toi] \in FileId /\ os[fs[toi]] # None
  BY <1>1, <1>2, TableAssumption DEF Heap, Toi
<1>3. CASE table.entries = NoEntries
  <2>1. fdt' = table /\ files' = fs /\ objs' = Live(os, fs, infl)
    BY <1>3 DEF SendFdt
  <2>2. ASSUME NEW toi \in 1..ToiMax, fs[toi] # None
        PROVE  objs'[fs[toi]] = os[fs[toi]]
    BY <1>2, <2>1, <2>2 DEF Live, Referenced
  <2> QED
    BY <1>3, <2>1, <2>2, LiveObjects
<1>4. CASE table.entries # NoEntries
  <2> DEFINE id == Fresh(os)
             new == FdtFile(table)
             fs2 == [fs EXCEPT ![0] = id]
             os2 == [os EXCEPT ![id] = new]
  <2>1. fdt' = Sent(table) /\ files' = fs2 /\ objs' = Live(os2, fs2, infl)
    BY <1>4 DEF SendFdt
  <2>2. id \in FileId /\ os[id] = None /\ new \in FileObject /\ new.toi = 0 /\ new # None
    BY FreshType, FdtFileType, NoneAssumption
  <2>3. new.instance = table.instance /\ new.table = table.entries
    <3>1. table.instance \in Nat
      BY DEF Table
    <3> QED
      BY <3>1, FdtInstanceIdSmall DEF FdtFile
  <2>4. 0 \in Toi
    BY TableAssumption DEF Toi
  <2>5. os2[id] = new /\ (\A i \in FileId : i # id => os2[i] = os[i]) /\ fs2[0] = id
        /\ \A toi \in Toi : toi # 0 => fs2[toi] = fs[toi]
    BY <1>1, <2>2, <2>4
  <2> HIDE DEF os2, fs2, id, new
  <2>6. /\ FdtObjects(os2) = FdtObjects(os) \cup {id}
        /\ \A i \in FdtObjects(os) : os2[i] = os[i]
    BY <2>2, <2>5 DEF FdtObjects
  <2>7. DocumentsIn(os2) = DocumentsIn(os) \cup {DocumentOf(table)}
    BY <2>3, <2>5, <2>6 DEF DocumentsIn, DocumentOf
  <2>8. EntriesIn(os2) = EntriesIn(os)
    <3>1. {i \in FileId : os2[i] # None} \ FdtObjects(os2)
            = {i \in FileId : os[i] # None} \ FdtObjects(os)
      BY <2>2, <2>5, <2>6
    <3>2. \A i \in {j \in FileId : os[j] # None} \ FdtObjects(os) : os2[i] = os[i]
      BY <2>2, <2>5
    <3> QED
      BY <3>1, <3>2 DEF EntriesIn
  <2>9. objs'[id] = new
    BY <2>1, <2>2, <2>4, <2>5 DEF Live, Referenced
  <2>10. DocumentOf(table) \in DocumentsIn(objs')
    <3>1. id \in FdtObjects(objs')
      BY <2>2, <2>9 DEF FdtObjects
    <3> QED
      BY <2>3, <2>9, <3>1 DEF DocumentsIn, DocumentOf
  <2>11. ASSUME NEW toi \in 1..ToiMax, fs[toi] # None
         PROVE  objs'[fs[toi]] = os[fs[toi]]
    <3>1. toi \in Toi /\ fs2[toi] = fs[toi] /\ fs[toi] \in FileId /\ fs[toi] # id
      BY <1>2, <2>2, <2>5, <2>11
    <3> QED
      BY <2>1, <2>5, <3>1 DEF Live, Referenced
  <2> QED
    BY <1>4, <2>1, <2>7, <2>8, <2>10, <2>11, LiveObjects
<1> QED
  BY <1>3, <1>4

-----------------------------------------------------------------------------
(* Steps *)

LEMMA EmptyTable ==
  ASSUME NEW table \in Table
  PROVE  EntriesOf(table.entries) = {} <=> table.entries = NoEntries
<1>1. table.entries \in [Entry -> Nat]
  BY DEF Table, Bags
<1>2. ASSUME EntriesOf(table.entries) = {}
      PROVE  table.entries = NoEntries
  <2>1. \A e \in Entry : table.entries[e] = 0
    BY <1>1, <1>2 DEF EntriesOf
  <2> QED
    BY <1>1, <2>1 DEF NoEntries
<1>3. ASSUME table.entries = NoEntries
      PROVE  EntriesOf(table.entries) = {}
  BY <1>3 DEF EntriesOf, NoEntries
<1> QED
  BY <1>2, <1>3

\* A table that changed is announced.
LEMMA ChangeAnnounces ==
  ASSUME fdt \in Table, Settled(fdt, docs), NEW table \in Table,
         table.instance = NextInstance(fdt), table.sent = fdt.sent,
         table.instance <= MaxInstance,
         NEW fs, NEW os, NEW infl, Heap(fs, os, infl), symbolLength \in Nat \ {0},
         \E i \in FileId : os[i] = None, SendFdt(table, fs, os, infl),
         DocumentsIn(os) \subseteq docs, Records
  PROVE  Sender!Announce(EntriesOf(table.entries)) /\ OffersInv'
<1>1. table.instance = fdt.sent + 1 /\ fdt.sent \in Nat /\ table.instance \in Nat
  BY DEF Settled, NextInstance, Table
<1>2. Recorded(objs)'
  BY DEF Records, Recorded
<1>3. docs' = docs \cup DocumentsIn(objs')
  BY DEF Records
<1>4. CASE table.entries = NoEntries
  <2>1. fdt' = table /\ DocumentsIn(objs') \subseteq docs
    BY <1>4, SendFdtObjects
  <2>2. EntriesOf(table.entries) = {}
    BY <1>4, EmptyTable
  <2>3. Sender!Announce(EntriesOf(table.entries))
    BY <1>3, <2>1, <2>2 DEF Sender!Announce
  <2>4. Settled(fdt, docs)'
    BY <1>1, <1>4, <2>1 DEF Settled
  <2> QED
    BY <1>2, <2>3, <2>4 DEF OffersInv
<1>5. CASE table.entries # NoEntries
  <2>1. /\ fdt' = Sent(table) /\ DocumentOf(table) \in DocumentsIn(objs')
        /\ DocumentsIn(objs') \subseteq docs \cup {DocumentOf(table)}
    BY <1>5, SendFdtObjects
  <2>2. docs' = docs \cup {DocumentOf(table)}
    BY <1>3, <2>1
  <2>3. /\ fdt'.sent = table.instance /\ fdt'.instance = table.instance
        /\ fdt'.entries = table.entries
    BY <2>1 DEF Sent, Table
  <2>4. EntriesOf(table.entries) # {}
    BY <1>5, EmptyTable
  <2>5. Sender!Announce(EntriesOf(table.entries))
    BY <1>1, <2>2, <2>3, <2>4 DEF Sender!Announce, DocumentOf
  <2>6. Settled(fdt, docs)'
    BY <1>1, <2>2, <2>3 DEF Settled, DocumentOf
  <2> QED
    BY <1>2, <2>5, <2>6 DEF OffersInv
<1> QED
  BY <1>4, <1>5

\* What FluteSender's variables are mapped to, unchanged.
Unseen == UNCHANGED <<fdt.entries, fdt.sent, docs, objects>>

\* A repetition of the FDT makes the document that there was.
LEMMA RepeatUnseen ==
  ASSUME TypeInv, OffersInv, RoomForOne, fdt.instance <= MaxInstance, Records,
         SendFdt(fdt, files, objs, inflight)
  PROVE  Unseen /\ OffersInv'
<1>1. /\ fdt \in Table /\ symbolLength \in Nat \ {0} /\ \E i \in FileId : objs[i] = None
      /\ Heap(files, objs, inflight)
  BY DEF TypeInv, TypeOK, RoomForOne
<1>2. /\ DocumentsIn(objs) \subseteq docs /\ EntriesIn(objs) \subseteq objects
      /\ Settled(fdt, docs)
  BY DEF OffersInv, Recorded
<1>3. docs' = docs \cup DocumentsIn(objs') /\ objects' = objects \cup EntriesIn(objs')
  BY DEF Records
<1>4. EntriesIn(objs') \subseteq EntriesIn(objs)
  BY <1>1, SendFdtObjects
<1>5. CASE fdt.entries = NoEntries
  <2>1. fdt' = fdt /\ DocumentsIn(objs') \subseteq DocumentsIn(objs)
    BY <1>1, <1>5, SendFdtObjects
  <2> QED
    BY <1>2, <1>3, <1>4, <2>1 DEF Unseen, OffersInv, Recorded
<1>6. CASE fdt.entries # NoEntries
  <2>1. /\ fdt' = Sent(fdt)
        /\ DocumentsIn(objs') \subseteq DocumentsIn(objs) \cup {DocumentOf(fdt)}
    BY <1>1, <1>6, SendFdtObjects
  <2>2. fdt.instance = fdt.sent /\ DocumentOf(fdt) \in docs
    BY <1>2, <1>6 DEF Settled
  <2>3. fdt' = fdt
    BY <1>1, <2>1, <2>2 DEF Sent, Table
  <2> QED
    BY <1>2, <1>3, <1>4, <2>1, <2>2, <2>3 DEF Unseen, OffersInv, Recorded
<1> QED
  BY <1>5, <1>6

\* So does a step that leaves the table as it is and makes no object.
LEMMA HeapUnseen ==
  ASSUME OffersInv, Records, fdt' = fdt,
         DocumentsIn(objs') \subseteq DocumentsIn(objs), EntriesIn(objs') \subseteq EntriesIn(objs)
  PROVE  Unseen /\ OffersInv'
<1>1. docs' = docs \cup DocumentsIn(objs') /\ objects' = objects \cup EntriesIn(objs')
  BY DEF Records
<1> QED
  BY <1>1 DEF Unseen, OffersInv, Recorded

\* The instances left are at least as many as the one that a change takes.
LEMMA InstancesLeft ==
  ASSUME TypeInv, InstanceInv
  PROVE  fdt.instance <= MaxInstance
<1>1. Cardinality(QueuedIn(files)) \in Nat
  BY QueuedInFinite
<1> QED
  BY <1>1, TransmitterAssumption DEF TypeInv, TypeOK, Table, InstanceInv, Budget

\* A call of send offers a file.
LEMMA EnqueueOffers ==
  ASSUME TypeInv, QueueInv, InstanceInv, OffersInv, RoomForTwo, RoomToSend, Records,
         NEW entry \in Entry, NEW symLen \in Nat \ {0}, Enqueue(entry, symLen)
  PROVE  Sender!Offer(entry) /\ OffersInv'
<1> DEFINE id  == Fresh(objs)
           new == files[entry.toi] = None
           fs  == IF new THEN [files EXCEPT ![entry.toi] = id] ELSE files
           os  == IF new THEN [objs EXCEPT ![id] = DataFile(entry, symLen)] ELSE objs
           table == Add(fdt, entry)
<1>1. id \in FileId /\ objs[id] = None
  BY FreshType DEF RoomForTwo
<1>2. /\ DataFile(entry, symLen) \in FileObject /\ DataFile(entry, symLen).toi = entry.toi
      /\ DataFile(entry, symLen).entry = entry /\ entry.toi \in 1..ToiMax /\ entry.toi # 0
      /\ entry.toi \in Toi /\ DataFile(entry, symLen) # None
  <2>1. entry.toi \in 1..ToiMax
    BY DEF Entry
  <2> QED
    BY <2>1, DataFileType, NoneAssumption, TableAssumption DEF DataFile, Toi
<1>3. /\ fdt \in Table /\ symbolLength \in Nat \ {0} /\ files \in [Toi -> FileId \cup {None}]
      /\ objs \in [FileId -> FileObject \cup {None}] /\ Heap(files, objs, inflight)
  BY DEF TypeInv, TypeOK
<1>4. Heap(fs, os, inflight)
  BY <1>1, <1>2, <1>3, InsertKeepsHeap
<1>5. \E i \in FileId : os[i] = None
  BY <1>1, <1>3 DEF RoomForTwo
<1>6. /\ table \in Table /\ table.instance = NextInstance(fdt) /\ table.sent = fdt.sent
      /\ table.entries = [fdt.entries EXCEPT ![entry] = @ + 1]
  BY <1>3, AddType DEF Add, Table
<1>7. SendFdt(table, fs, os, inflight)
  BY DEF Enqueue
<1>8. table.instance <= MaxInstance
  <2>1. IsFiniteSet(Queued) /\ Cardinality(Queued) \in Nat
    BY QueuedInFinite DEF Queued, QueuedIn
  <2>2. fdt.instance + Cardinality(Queued) + 2 <= MaxInstance
    BY DEF RoomToSend
  <2> HIDE DEF table
  <2> QED
    BY <1>3, <1>6, <2>1, <2>2, TransmitterAssumption DEF NextInstance, Table
<1>9. EntriesOf(table.entries) = EntriesOf(fdt.entries) \cup {entry}
  <2>1. fdt.entries \in [Entry -> Nat]
    BY <1>3 DEF Table, Bags
  <2> HIDE DEF table
  <2> QED
    BY <1>6, <2>1 DEF EntriesOf
<1>10. /\ DocumentsIn(os) = DocumentsIn(objs)
       /\ EntriesIn(os) = IF new THEN EntriesIn(objs) \cup {entry} ELSE EntriesIn(objs)
  <2>1. CASE new
    <3> DEFINE file == DataFile(entry, symLen)
    <3>1. os[id] = file /\ \A i \in FileId : i # id => os[i] = objs[i]
      BY <1>1, <1>3, <2>1
    <3> HIDE DEF id, file, os, fs, table, new
    <3> QED
      BY <1>1, <1>2, <2>1, <3>1, InsertedObject DEF file
  <2>2. CASE ~new
    BY <2>2
  <2> QED
    BY <2>1, <2>2
<1>11. Sender!Announce(EntriesOf(table.entries)) /\ OffersInv'
  <2>1. Settled(fdt, docs) /\ DocumentsIn(os) \subseteq docs
    BY <1>10 DEF OffersInv, Recorded
  <2> HIDE DEF fs, os, table
  <2> QED
    BY <1>3, <1>4, <1>5, <1>6, <1>7, <1>8, <2>1, ChangeAnnounces
<1>12. new <=> Sender!Listing(entry.toi) = {}
  <2>1. new <=> entry.toi \notin Listed(fdt.entries)
    BY <1>2 DEF QueueInv, Matches
  <2> QED
    BY <1>2, <2>1 DEF Sender!Listing, Listed, EntriesOf
<1>13. objects' = IF new THEN objects \cup {entry} ELSE objects
  <2>1. objects' = objects \cup EntriesIn(objs') /\ EntriesIn(objs) \subseteq objects
    BY DEF Records, OffersInv, Recorded
  <2>2. EntriesIn(objs') \subseteq EntriesIn(os)
    <3> HIDE DEF fs, os, table
    <3> QED
      BY <1>3, <1>4, <1>5, <1>6, <1>7, <1>8, SendFdtObjects
  <2>3. CASE new
    <3>1. fs[entry.toi] = id /\ os[id] = DataFile(entry, symLen) /\ id # None
      BY <1>1, <1>2, <1>3, <2>3, NoneAssumption
    <3>2. objs'[fs[entry.toi]] = os[fs[entry.toi]]
      <4>1. \A toi \in 1..ToiMax : fs[toi] # None => objs'[fs[toi]] = os[fs[toi]]
        <5> HIDE DEF fs, os, table
        <5> QED
          BY <1>3, <1>4, <1>5, <1>6, <1>7, <1>8, SendFdtObjects
      <4> HIDE DEF fs, os, id
      <4> QED
        BY <1>2, <3>1, <4>1
    <3> HIDE DEF fs, os, id
    <3>3. objs'[id] = DataFile(entry, symLen)
      BY <3>1, <3>2
    <3>4. entry \in EntriesIn(objs')
      BY <1>1, <1>2, <3>3 DEF EntriesIn, FdtObjects
    <3> QED
      BY <1>10, <2>1, <2>2, <2>3, <3>4
  <2>4. CASE ~new
    <3> HIDE DEF fs, os, id
    <3> QED
      BY <1>10, <2>1, <2>2, <2>4
  <2> QED
    BY <2>3, <2>4
<1> HIDE DEF new, table, os, fs, id
<1> QED
  BY <1>9, <1>11, <1>12, <1>13 DEF Sender!Offer

LEMMA SendOffers ==
  ASSUME TypeInv, QueueInv, InstanceInv, OffersInv, Records,
         (\E d \in Desc : Send(d)) \/ (\E data \in Data, meta \in Meta : SendBuffer(data, meta))
  PROVE  (\E entry \in Entry : Sender!Offer(entry)) /\ OffersInv'
<1>1. ASSUME NEW d \in Desc, Send(d)
      PROVE  (\E entry \in Entry : Sender!Offer(entry)) /\ OffersInv'
  <2> DEFINE toi == IF desc[d].toi = 0 THEN nextToi ELSE desc[d].toi
             symLen == MergedSymbolLength(d)
             entry == [desc[d] EXCEPT !.toi = toi]
  <2>1. desc[d] \in Description /\ nextToi \in 1..ToiMax /\ symbolLength \in Nat \ {0}
    BY DEF TypeInv, TypeOK
  <2>2. entry \in Entry
    BY <2>1 DEF Description, Toi, Entry
  <2>3. symLen \in Nat \ {0}
    BY <2>1, TransmitterAssumption DEF MergedSymbolLength
  <2>4. Enqueue(entry, symLen) /\ RoomForTwo /\ RoomToSend
    BY <1>1 DEF Send
  <2> HIDE DEF entry, symLen
  <2> QED
    BY <2>2, <2>3, <2>4, EnqueueOffers
<1>2. ASSUME NEW data \in Data, NEW meta \in Meta, SendBuffer(data, meta)
      PROVE  (\E entry \in Entry : Sender!Offer(entry)) /\ OffersInv'
  <2> DEFINE entry == [toi |-> nextToi, data |-> data, meta |-> meta]
  <2>1. entry \in Entry /\ symbolLength \in Nat \ {0}
    BY DEF TypeInv, TypeOK, Entry
  <2>2. Enqueue(entry, symbolLength) /\ RoomForTwo /\ RoomToSend
    BY <1>2 DEF SendBuffer
  <2> HIDE DEF entry
  <2> QED
    BY <2>1, <2>2, EnqueueOffers
<1> QED
  BY <1>1, <1>2

\* The completion of a file withdraws it; that of a packet before, or of a document of the
\* FDT, whichever document is queued then, is not seen.
LEMMA SendSucceedsOffers ==
  ASSUME TypeInv, QueueInv, InstanceInv, OffersInv, Records, SendSucceeds
  PROVE  ((\E toi \in 1..ToiMax : Sender!Withdraw(toi)) \/ Unseen) /\ OffersInv'
<1> DEFINE packet == Head(inflight)
           rest == Tail(inflight)
           id == packet.file
           file == MarkCompleted(objs[id], packet.picked, packet.carried)
           os == [objs EXCEPT ![id] = file]
           fs == [files EXCEPT ![file.toi] = None]
<1>1. inflight # <<>> /\ RoomForOne
  BY DEF SendSucceeds
<1>2. /\ file \in FileObject /\ Heap(files, os, rest) /\ \E i \in FileId : os[i] = None
  BY <1>1, CompletionType
<1>3. id \in FileId /\ objs[id] # None /\ objs[id] \in FileObject
  <2>1. packet = inflight[1] /\ 1 \in DOMAIN inflight
    BY <1>1, TailElements DEF TypeInv, TypeOK
  <2>2. inflight[1].file \in FileId /\ objs[inflight[1].file] # None
    BY <2>1, PacketsInFlight DEF TypeInv, Heap
  <2> QED
    BY <2>1, <2>2 DEF TypeInv, TypeOK
<1>4. /\ file.toi = objs[id].toi /\ file.instance = objs[id].instance
      /\ file.table = objs[id].table /\ file.entry = objs[id].entry
  BY <1>3 DEF MarkCompleted, FileObject, FileOf
<1>5. file.toi # 0 => files[file.toi] = id
  <2> HIDE DEF os, file
  <2>1. file = MarkCompleted(objs[id], packet.picked, packet.carried)
        /\ os = [objs EXCEPT ![id] = file]
    BY DEF file, os
  <2> QED
    BY <1>1, <2>1, CompletionPicks
<1>6. /\ fdt \in Table /\ symbolLength \in Nat \ {0} /\ files \in [Toi -> FileId \cup {None}]
      /\ objs \in [FileId -> FileObject \cup {None}] /\ file.toi \in Toi
  BY <1>2, TableAssumption DEF TypeInv, TypeOK, FileObject, FileOf, Toi
<1>7. DocumentsIn(os) = DocumentsIn(objs) /\ EntriesIn(os) = EntriesIn(objs)
  <2>1. os[id] = file /\ (\A i \in FileId : i # id => os[i] = objs[i]) /\ file # None
    BY <1>2, <1>3, <1>6, NoneAssumption
  <2> HIDE DEF file, id, os, fs, packet, rest
  <2> QED
    BY <1>3, <1>4, <2>1, MarkedObjects
<1>8. CASE ~Complete(file)
  <2>1. objs' = Live(os, files, rest) /\ fdt' = fdt
    BY <1>8 DEF SendSucceeds
  <2> HIDE DEF os, rest
  <2> QED
    BY <1>7, <2>1, LiveObjects, HeapUnseen
<1>9. CASE Complete(file)
  <2>1. FileTransmitted(file.toi, os, rest)
    BY <1>9 DEF SendSucceeds
  <2>2. CASE file.toi = 0
    <3>1. fdt' = fdt /\ objs' = Live(os, fs, rest)
      BY <2>1, <2>2 DEF FileTransmitted
    <3> HIDE DEF os, rest, fs
    <3> QED
      BY <1>7, <3>1, LiveObjects, HeapUnseen
  <2>3. CASE file.toi # 0
    <3> DEFINE table == Remove(fdt, file.toi)
               toi == file.toi
    <3>1. toi \in 1..ToiMax /\ files[toi] # None
      <4> HIDE DEF file, id
      <4>1. toi \in 1..ToiMax
        BY <1>6, <2>3, TableAssumption DEF Toi
      <4>2. files[toi] = id /\ id \in FileId
        BY <1>3, <1>5, <2>3
      <4> QED
        BY <4>1, <4>2, NoneAssumption
    <3>2. Heap(fs, os, rest)
      BY <1>2, <1>6, EraseKeepsHeap
    <3>3. /\ table \in Table /\ table.instance = NextInstance(fdt) /\ table.sent = fdt.sent
          /\ table.entries = [e \in Entry |-> IF e.toi = toi THEN 0 ELSE fdt.entries[e]]
      <4>1. /\ table \in Table
            /\ table.entries = [e \in Entry |-> IF e.toi = toi THEN 0 ELSE fdt.entries[e]]
        BY <1>6, RemoveType
      <4> HIDE DEF file
      <4>2. table.instance = NextInstance(fdt) /\ table.sent = fdt.sent
        BY <1>6 DEF Remove, Table
      <4> QED
        BY <4>1, <4>2
    <3>4. SendFdt(table, fs, os, rest)
      BY <2>1, <2>3 DEF FileTransmitted
    <3>5. table.instance <= MaxInstance
      <4>1. Cardinality(QueuedIn(files)) \in Nat \ {0}
        <5> HIDE DEF toi
        <5>1. toi \in QueuedIn(files)
          BY <3>1 DEF QueuedIn
        <5> QED
          BY <5>1, QueuedInFinite, FS_EmptySet
      <4>2. fdt.instance + Cardinality(QueuedIn(files)) <= MaxInstance
        BY DEF InstanceInv, Budget
      <4> HIDE DEF table
      <4> QED
        BY <1>6, <3>3, <4>1, <4>2, TransmitterAssumption DEF NextInstance, Table
    <3>6. EntriesOf(table.entries) = EntriesOf(fdt.entries) \ Sender!Listing(toi)
      <4>1. fdt.entries \in [Entry -> Nat]
        BY <1>6 DEF Table, Bags
      <4> HIDE DEF table, toi
      <4> QED
        BY <3>3, <4>1 DEF EntriesOf, Sender!Listing
    <3>7. DocumentsIn(os) \subseteq docs /\ Settled(fdt, docs)
      BY <1>7 DEF OffersInv, Recorded
    <3> HIDE DEF fs, os, rest, table, file
    <3>8. Sender!Announce(EntriesOf(table.entries)) /\ OffersInv'
      BY <1>2, <1>6, <3>2, <3>3, <3>4, <3>5, <3>7, ChangeAnnounces
    <3>9. objects' = objects
      <4>1. objects' = objects \cup EntriesIn(objs') /\ EntriesIn(objs) \subseteq objects
        BY DEF Records, OffersInv, Recorded
      <4>2. EntriesIn(objs') \subseteq EntriesIn(os)
        BY <1>2, <1>6, <3>2, <3>3, <3>4, <3>5, SendFdtObjects
      <4> QED
        BY <1>7, <4>1, <4>2
    <3>10. Sender!Withdraw(toi)
      BY <3>6, <3>8, <3>9 DEF Sender!Withdraw
    <3> QED
      BY <3>1, <3>8, <3>10
  <2> QED
    BY <2>2, <2>3
<1> QED
  BY <1>8, <1>9

LEMMA SendNextPacketUnseen ==
  ASSUME TypeInv, OffersInv, Records, NEW r, NEW w, SendNextPacket(r, w), fdt' = fdt
  PROVE  Unseen /\ OffersInv'
<1>1. CASE SendNothing(r, w)
  BY <1>1, HeapUnseen DEF SendNothing
<1>2. CASE ~SendNothing(r, w)
  <2> DEFINE id == files[Min(Incomplete)]
             file == MarkQueued(objs[id], NextSymbols(objs[id], maxPayload))
  <2>1. Incomplete # {} /\ SendPacket(id, r, w)
    BY <1>2 DEF SendNextPacket
  <2>2. id \in FileId /\ objs[id] \in FileObject /\ objs[id] # None
    BY <2>1, HeadOfQueue, NoneAssumption
  <2>3. objs' = [objs EXCEPT ![id] = file]
    BY <2>1 DEF SendPacket
  <2>4. file \in FileObject /\ file.toi = objs[id].toi
    BY <2>2, MarkQueuedType
  <2>5. file.instance = objs[id].instance /\ file.table = objs[id].table
        /\ file.entry = objs[id].entry
    BY <2>2 DEF MarkQueued, FileObject, FileOf
  <2>6. objs'[id] = file /\ file # None /\ \A i \in FileId : i # id => objs'[i] = objs[i]
    BY <2>2, <2>3, <2>4, NoneAssumption DEF TypeInv, TypeOK
  <2> HIDE DEF id, file
  <2>7. DocumentsIn(objs') = DocumentsIn(objs) /\ EntriesIn(objs') = EntriesIn(objs)
    BY <2>2, <2>4, <2>5, <2>6, MarkedObjects
  <2> QED
    BY <2>7, HeapUnseen
<1> QED
  BY <1>1, <1>2

LEMMA StepOffers ==
  ASSUME TypeInv, QueueInv, InstanceInv, OffersInv, Next, Records
  PROVE  /\ \/ \E entry \in Entry : Sender!Offer(entry)
            \/ \E toi \in 1..ToiMax : Sender!Withdraw(toi)
            \/ Unseen
         /\ OffersInv'
<1>1. ASSUME UNCHANGED queue
      PROVE  Unseen /\ OffersInv'
  BY <1>1, HeapUnseen DEF queue
<1>2. CASE SetRateLimit \/ SetTunnel \/ SendTimerExpires \/ FdtTimerExpires \/ Deactivate
  BY <1>1, <1>2 DEF SetRateLimit, SetTunnel, SendTimerExpires, FdtTimerExpires, Deactivate
<1>3. ASSUME NEW d \in Desc, (\E data \in Data : SetContent(d, data))
                               \/ (\E meta \in Meta : SetMetadata(d, meta))
      PROVE  Unseen /\ OffersInv'
  BY <1>1, <1>3 DEF SetContent, SetMetadata
<1>4. CASE RunSendNextPacket
  <2>1. CASE active
    BY <1>4, <2>1, SendNextPacketUnseen DEF RunSendNextPacket
  <2>2. CASE ~active
    BY <1>1, <1>4, <2>2 DEF RunSendNextPacket, queue
  <2> QED
    BY <2>1, <2>2
<1>5. CASE Activate
  BY <1>5, SendNextPacketUnseen DEF Activate
<1>6. CASE SendFails
  <2>1. objs' = Live(objs, files, Tail(inflight)) /\ fdt' = fdt
    BY <1>6 DEF SendFails
  <2> QED
    BY <2>1, LiveObjects, HeapUnseen
<1>7. CASE FdtSendTick
  <2>1. CASE active
    BY <1>7, <2>1, InstancesLeft, RepeatUnseen DEF FdtSendTick
  <2>2. CASE ~active
    BY <1>1, <1>7, <2>2 DEF FdtSendTick
  <2> QED
    BY <2>1, <2>2
<1> QED
  BY <1>2, <1>3, <1>4, <1>5, <1>6, <1>7, SendOffers, SendSucceedsOffers
  DEF Next, ApplicationCalls, Handlers

LEMMA StutterOffers ==
  ASSUME OffersInv, UNCHANGED offersVars
  PROVE  Unseen /\ OffersInv'
<1>1. UNCHANGED <<fdt, objs, docs, objects>>
  BY DEF offersVars, vars, queue
<1> QED
  BY <1>1 DEF Unseen, OffersInv, Recorded, Settled, DocumentOf, DocumentsIn, EntriesIn, FdtObjects

LEMMA InitOffersInv == InitOffers => Sender!SenderInit /\ OffersInv
<1> SUFFICES ASSUME InitOffers PROVE Sender!SenderInit /\ OffersInv
  OBVIOUS
<1>1. /\ objs = [id \in FileId |-> None] /\ fdt = NewTable /\ docs = {} /\ objects = {}
  BY DEF InitOffers, InitSteady, Init
<1>2. EntriesOf(fdt.entries) = {} /\ fdt.sent = 0 /\ fdt.instance = 1 /\ fdt.entries = NoEntries
  BY <1>1 DEF EntriesOf, NewTable, NoEntries
<1>3. DocumentsIn(objs) = {} /\ EntriesIn(objs) = {}
  BY <1>1 DEF DocumentsIn, EntriesIn, FdtObjects
<1> QED
  BY <1>1, <1>2, <1>3 DEF Sender!SenderInit, OffersInv, Recorded, Settled

\* The recording transmitter is a transmitter.
LEMMA OffersAreSteps == OffersSpec => Spec
<1>1. InitOffers => Init
  BY DEF InitOffers, InitSteady
<1>2. [Next /\ StaysSteady /\ Records]_offersVars => [Next]_vars
  BY DEF offersVars
<1> QED
  BY <1>1, <1>2, PTL DEF OffersSpec, Spec

\* The transmitter implements FluteSender: through sends, resends, completions, failed
\* sends and repeats of the FDT, a document is made exactly when the table changes, under
\* the next instance id and with the entries the table then lists, and an object of a file
\* only when none is queued under its TOI.
THEOREM OffersImplemented == OffersSpec => OffersAreSent
<1>1. InitOffers => Sender!SenderInit /\ OffersInv
  BY InitOffersInv
<1>2. TypeInv /\ QueueInv /\ InstanceInv /\ OffersInv
      /\ [Next /\ StaysSteady /\ Records]_offersVars
      => OffersInv' /\ [Sender!SenderNext]_Sender!senderVars
  <2> SUFFICES ASSUME TypeInv, QueueInv, InstanceInv, OffersInv,
                      [Next /\ StaysSteady /\ Records]_offersVars
               PROVE  OffersInv' /\ [Sender!SenderNext]_Sender!senderVars
    OBVIOUS
  <2>1. Sender!Entry = Entry
    BY DEF Sender!Entry, Entry
  <2>2. Unseen => UNCHANGED Sender!senderVars
    BY DEF Unseen, Sender!senderVars
  <2>3. CASE Next /\ Records
    BY <2>1, <2>2, <2>3, StepOffers DEF Sender!SenderNext
  <2>4. CASE UNCHANGED offersVars
    BY <2>2, <2>4, StutterOffers
  <2> QED
    BY <2>3, <2>4
<1>3. TypeInv /\ QueueInv /\ InstanceInv /\ [Next]_vars => InstanceInv'
  BY StepInstanceInv
<1>4. Spec => []InstanceInv
  BY <1>3, InitInstanceInv, TypeInvariant, QueueInvariant, PTL DEF Spec
<1> QED
  BY <1>1, <1>2, <1>4, OffersAreSteps, TypeInvariant, QueueInvariant, PTL
  DEF OffersSpec, OffersAreSent, Sender!SenderSpec
================================================================================
