------------------------------ MODULE PacketProofs -----------------------------
(***************************************************************************)
(* The size, the pace and the symbols of the packets.  No packet is longer *)
(* than the path MTU, for every content, symbol length and MTU, and        *)
(* whenever the tunnel is set or removed: the symbols a packet carries fit *)
(* the payload left when it was cut, under the headers and the tunnel of   *)
(* that moment, and its object keeps its shape.  An application that       *)
(* activates only when the handlers have run has one send loop, which the  *)
(* rate limit paces.  And symbols are not lost: while the socket takes     *)
(* every packet, a symbol that is queued is in flight, and, with symbol    *)
(* lengths aligned to the FEC payload id and a tunnel that stays as it is, *)
(* what a packet picks it carries.                                         *)
(***************************************************************************)
EXTENDS QueueProofs, MCTransmitter

\* The length of the IP packet of a packet of the object `file'.
Bytes(file, packet) ==
  IpUdp + AlcHeader(file.toi) + FecPayloadId + PayloadLength(file, packet.carried)
    + TunnelOverhead(packet.tunnelled)

\* PacketsFitMtu of a heap and the packets in flight.
Fit(os, infl) == \A k \in DOMAIN infl : Bytes(os[infl[k].file], infl[k]) <= Mtu

FitInv == Fit(objs, inflight)

LEMMA FitMeaning == FitInv => PacketsFitMtu
  BY DEF FitInv, Fit, Bytes, PacketsFitMtu, IpLength

-----------------------------------------------------------------------------
(* The payload of one packet *)

LEMMA MaxOfBounded ==
  ASSUME NEW n \in Nat, NEW S \in SUBSET (1..n), S # {}
  PROVE  \E i \in S : \A j \in S : j <= i
<1> DEFINE T == {n - i : i \in S}
<1>1. \A i \in S : i \in Nat /\ n - i \in Nat
  OBVIOUS
<1>2. T \in SUBSET Nat /\ T # {}
  BY <1>1
<1>3. PICK x \in T : \A y \in T : x <= y
  <2> HIDE DEF T
  <2> QED
    BY <1>2, LeastOfNaturals
<1>4. PICK i \in S : x = n - i
  BY <1>3
<1>5. ASSUME NEW j \in S
      PROVE  j <= i
  <2>1. n - i <= n - j
    BY <1>3, <1>4, <1>5
  <2> QED
    BY <1>1, <1>4, <2>1
<1> QED
  BY <1>5

LEMMA ProductMonotone ==
  ASSUME NEW a \in Nat, NEW b \in Nat, NEW s \in Nat, a <= b
  PROVE  a * s <= b * s
<1>1. PICK d \in Nat : b = a + d
  <2>1. b - a \in Nat /\ b = a + (b - a)
    OBVIOUS
  <2> QED
    BY <2>1
<1>2. b * s = a * s + d * s /\ d * s \in Nat /\ a * s \in Nat
  BY <1>1
<1> QED
  BY <1>2

\* to_payload stops at the first symbol that does not fit, so what precedes the last
\* symbol written leaves room for it.
LEMMA PayloadFits ==
  ASSUME NEW file \in FileObject, NEW room \in Nat,
         NEW picked, picked \subseteq DOMAIN file.symbols
  PROVE  LET length == PayloadLength(file, Carried(file, picked, room))
         IN length \in Int /\ length <= room
<1> DEFINE carried == Carried(file, picked, room)
           last == CHOOSE i \in carried : Before(i, carried) = carried \ {i}
           len == Len(file.symbols)
<1>1. /\ DOMAIN file.symbols = 1..len /\ len \in Nat
      /\ file.symbolLength \in Nat /\ file.length \in Nat
  BY DEF FileObject, FileOf
<1>2. CASE carried = {}
  BY <1>2 DEF PayloadLength
<1>3. CASE carried # {}
  <2>1. carried \in SUBSET (1..len) /\ carried \subseteq picked
    BY <1>1 DEF Carried
  <2>2. PICK i \in carried : \A j \in carried : j <= i
    <3> HIDE DEF carried, len
    <3> QED
      BY <1>1, <1>3, <2>1, MaxOfBounded
  <2>3. Before(i, carried) = carried \ {i}
    <3>1. \A j \in carried : j < i <=> j # i
      <4> HIDE DEF carried, last
      <4> QED
        BY <1>1, <2>1, <2>2
    <3> HIDE DEF carried
    <3> QED
      BY <3>1 DEF Before
  <2>4. last \in carried /\ Before(last, carried) = carried \ {last}
    <3> HIDE DEF carried
    <3> QED
      BY <2>2, <2>3
  <2> DEFINE before == Before(last, picked)
  <2> HIDE DEF last
  <2>5. /\ IsFiniteSet(carried) /\ Cardinality(carried) \in Nat
        /\ IsFiniteSet(before) /\ Cardinality(before) \in Nat
    <3>1. IsFiniteSet(1..len)
      <4> HIDE DEF len
      <4>1. 1 \in Int /\ len \in Int
        BY <1>1
      <4> QED
        BY <4>1, FS_Interval
    <3>2. before \in SUBSET (1..len)
      BY <1>1 DEF Before
    <3> HIDE DEF carried, before, len
    <3> QED
      BY <2>1, <3>1, <3>2, FS_Subset, FS_CardinalityType
  <2>6. Cardinality(carried) - 1 \in Nat /\ Cardinality(carried) - 1 <= Cardinality(before)
    <3>1. carried \ {last} \in SUBSET before
      BY <2>1, <2>4 DEF Before
    <3> HIDE DEF carried, before
    <3>2. Cardinality(carried \ {last}) = Cardinality(carried) - 1
      BY <2>4, <2>5, FS_RemoveElement
    <3>3. /\ Cardinality(carried \ {last}) \in Nat
          /\ Cardinality(carried \ {last}) <= Cardinality(before)
      BY <2>5, <3>1, FS_Subset, FS_CardinalityType
    <3> QED
      BY <3>2, <3>3
  <2>7. Cardinality(before) * file.symbolLength + SymbolLength(file, last) <= room
    BY <2>4 DEF Carried
  <2>8. SymbolLength(file, last) \in Int
    BY <1>1, <2>1, <2>4 DEF SymbolLength
  <2>9. PayloadLength(file, carried)
          = (Cardinality(carried) - 1) * file.symbolLength + SymbolLength(file, last)
    BY <1>3 DEF PayloadLength, last
  <2> HIDE DEF carried, before
  <2>10. (Cardinality(carried) - 1) * file.symbolLength
           <= Cardinality(before) * file.symbolLength
    BY <1>1, <2>5, <2>6, ProductMonotone
  <2>11. /\ (Cardinality(carried) - 1) * file.symbolLength \in Nat
         /\ Cardinality(before) * file.symbolLength \in Nat
    BY <1>1, <2>5, <2>6
  <2> QED
    BY <2>7, <2>8, <2>9, <2>10, <2>11 DEF carried
<1> QED
  BY <1>2, <1>3

\* Objects of one shape make packets of one length.
SameShape(file, file2) ==
  /\ file2.toi = file.toi /\ file2.length = file.length
  /\ file2.symbolLength = file.symbolLength /\ Len(file2.symbols) = Len(file.symbols)

LEMMA ShapeKeepsBytes ==
  ASSUME NEW file, NEW file2, NEW packet, SameShape(file, file2)
  PROVE  Bytes(file2, packet) = Bytes(file, packet)
  BY DEF SameShape, Bytes, PayloadLength, SymbolLength

LEMMA MarkedShape ==
  ASSUME NEW file \in FileObject, NEW picked, NEW carried
  PROVE  SameShape(file, MarkQueued(file, picked))
         /\ SameShape(file, MarkCompleted(file, picked, carried))
  BY DEF SameShape, MarkQueued, MarkCompleted, FileObject, FileOf

-----------------------------------------------------------------------------
(* Every step *)

LEMMA SameObjectsFit ==
  ASSUME NEW os, NEW os2, NEW infl, Fit(os, infl),
         \A k \in DOMAIN infl : os2[infl[k].file] = os[infl[k].file]
  PROVE  Fit(os2, infl)
  BY DEF Fit

\* The packets in flight do not notice what a step does to an object they are not of,
\* nor the marks it leaves on their own.
LEMMA UpdateKeepsFit ==
  ASSUME NEW os, NEW infl, Fit(os, infl), NEW id \in FileId, NEW file,
         os \in [FileId -> FileObject \cup {None}], SameShape(os[id], file),
         \A k \in DOMAIN infl : infl[k].file \in FileId
  PROVE  Fit([os EXCEPT ![id] = file], infl)
<1> DEFINE os2 == [os EXCEPT ![id] = file]
<1> SUFFICES ASSUME NEW k \in DOMAIN infl
             PROVE  Bytes(os2[infl[k].file], infl[k]) <= Mtu
  BY DEF Fit
<1>1. Bytes(os[infl[k].file], infl[k]) <= Mtu
  BY DEF Fit
<1>2. CASE infl[k].file = id
  BY <1>1, <1>2, ShapeKeepsBytes
<1>3. CASE infl[k].file # id
  BY <1>1, <1>3
<1> QED
  BY <1>2, <1>3

LEMMA TailFits ==
  ASSUME NEW os, NEW infl \in Seq(Packet), infl # <<>>, Fit(os, infl)
  PROVE  Fit(os, Tail(infl))
<1>1. \A k \in DOMAIN Tail(infl) : k + 1 \in DOMAIN infl /\ Tail(infl)[k] = infl[k + 1]
  BY TailElements
<1> QED
  BY <1>1 DEF Fit

LEMMA PacketFits ==
  ASSUME TypeInv, NEW id \in FileId, objs[id] \in FileObject
  PROVE  Bytes(objs[id], PacketOf(id)) <= Mtu
<1> DEFINE file == objs[id]
           picked == NextSymbols(file, maxPayload)
           carried == Carried(file, picked, maxPayload)
<1>1. tunnelled \in BOOLEAN /\ maxPayload \in Nat /\ maxPayload = MaxPayload(tunnelled)
  BY DEF TypeInv, TypeOK
<1>2. picked \subseteq DOMAIN file.symbols
  BY DEF NextSymbols, Pending
<1>3. PayloadLength(file, carried) \in Int /\ PayloadLength(file, carried) <= maxPayload
  <2> HIDE DEF picked
  <2> QED
    BY <1>1, <1>2, PayloadFits
<1>4. PacketOf(id).carried = carried /\ PacketOf(id).tunnelled = tunnelled
  BY DEF PacketOf
<1>5. AlcHeader(file.toi) <= AlcHeader(0) /\ AlcHeader(file.toi) \in Nat
  BY DEF AlcHeader
<1> HIDE DEF carried, picked, file
<1>6. Bytes(file, PacketOf(id))
        = IpUdp + AlcHeader(file.toi) + FecPayloadId + PayloadLength(file, carried)
            + TunnelOverhead(tunnelled)
  BY <1>4 DEF Bytes
<1> QED
  BY <1>1, <1>3, <1>5, <1>6, TransmitterAssumption
  DEF MaxPayload, IpUdp, AlcHeader, FecPayloadId, TunnelOverhead, file

LEMMA SendPacketFits ==
  ASSUME TypeInv, Fit(objs, inflight), NEW id \in FileId, objs[id] \in FileObject,
         NEW r, NEW w, SendPacket(id, r, w)
  PROVE  Fit(objs', inflight')
<1> DEFINE picked == NextSymbols(objs[id], maxPayload)
           packet == PacketOf(id)
           file == MarkQueued(objs[id], picked)
<1>1. /\ objs' = [objs EXCEPT ![id] = file]
      /\ inflight' = Append(inflight, packet) /\ inflight \in Seq(Packet)
      /\ objs \in [FileId -> FileObject \cup {None}]
  BY DEF SendPacket, TypeInv, TypeOK
<1>2. SameShape(objs[id], file)
  BY MarkedShape
<1>3. Fit(objs', inflight)
  <2>1. \A k \in DOMAIN inflight : inflight[k].file \in FileId
    BY PacketsInFlight DEF TypeInv
  <2> HIDE DEF file
  <2> QED
    BY <1>1, <1>2, <2>1, UpdateKeepsFit
<1>4. Bytes(objs'[packet.file], packet) <= Mtu
  <2>1. packet.file = id
    BY DEF PacketOf
  <2>2. Bytes(objs[id], packet) <= Mtu
    BY PacketFits
  <2> HIDE DEF packet, file
  <2>3. Bytes(file, packet) = Bytes(objs[id], packet)
    BY <1>2, ShapeKeepsBytes
  <2> QED
    BY <1>1, <2>1, <2>2, <2>3
<1> HIDE DEF packet, file
<1>5. /\ DOMAIN inflight' = 1..(Len(inflight) + 1) /\ DOMAIN inflight = 1..Len(inflight)
      /\ Len(inflight) \in Nat
      /\ \A k \in DOMAIN inflight : inflight'[k] = inflight[k]
      /\ inflight'[Len(inflight) + 1] = packet
  BY <1>1
<1>6. \A k \in DOMAIN inflight' : k \in DOMAIN inflight \/ k = Len(inflight) + 1
  BY <1>5
<1> QED
  BY <1>3, <1>4, <1>5, <1>6 DEF Fit

LEMMA SendNextPacketFits ==
  ASSUME TypeInv, Fit(objs, inflight), NEW r, NEW w, SendNextPacket(r, w)
  PROVE  Fit(objs', inflight')
<1>1. CASE SendNothing(r, w)
  BY <1>1 DEF SendNothing
<1>2. CASE ~SendNothing(r, w)
  <2> DEFINE id == files[Min(Incomplete)]
  <2>1. Incomplete # {} /\ SendPacket(id, r, w)
    BY <1>2 DEF SendNextPacket
  <2>2. id \in FileId /\ objs[id] \in FileObject
    BY <2>1, HeadOfQueue
  <2> QED
    BY <2>1, <2>2, SendPacketFits
<1> QED
  BY <1>1, <1>2

LEMMA EnqueueFits ==
  ASSUME TypeInv, RoomForTwo, Fit(objs, inflight), NEW entry \in Entry,
         NEW symLen \in Nat \ {0}, Enqueue(entry, symLen), inflight' = inflight
  PROVE  Fit(objs', inflight')
<1> DEFINE id  == Fresh(objs)
           new == files[entry.toi] = None
           fs  == IF new THEN [files EXCEPT ![entry.toi] = id] ELSE files
           os  == IF new THEN [objs EXCEPT ![id] = DataFile(entry, symLen)] ELSE objs
<1>1. id \in FileId /\ objs[id] = None
  BY FreshType DEF RoomForTwo
<1>2. DataFile(entry, symLen) \in FileObject /\ DataFile(entry, symLen).toi = entry.toi
  BY DataFileType
<1>3. Heap(fs, os, inflight)
  BY <1>1, <1>2, InsertKeepsHeap DEF TypeInv
<1>4. \E i \in FileId : os[i] = None
  BY <1>1 DEF RoomForTwo, TypeInv, TypeOK
<1>5. Add(fdt, entry) \in Table /\ symbolLength \in Nat \ {0}
  BY AddType DEF TypeInv, TypeOK
<1>6. SendFdt(Add(fdt, entry), fs, os, inflight)
  BY DEF Enqueue
<1>7. \A k \in DOMAIN inflight : os[inflight[k].file] = objs[inflight[k].file]
  BY <1>1, PacketsInFlight DEF TypeInv, Heap
<1> HIDE DEF os, fs
<1>8. \A k \in DOMAIN inflight : objs'[inflight[k].file] = os[inflight[k].file]
  BY <1>3, <1>4, <1>5, <1>6, SendFdtKeepsObjects
<1> QED
  BY <1>7, <1>8, SameObjectsFit

LEMMA SendFits ==
  ASSUME TypeInv, Fit(objs, inflight),
         (\E d \in Desc : Send(d)) \/ (\E data \in Data, meta \in Meta : SendBuffer(data, meta))
  PROVE  Fit(objs', inflight')
<1>1. ASSUME NEW d \in Desc, Send(d)
      PROVE  Fit(objs', inflight')
  <2> DEFINE toi == IF desc[d].toi = 0 THEN nextToi ELSE desc[d].toi
             symLen == MergedSymbolLength(d)
             entry == [desc[d] EXCEPT !.toi = toi]
  <2>1. desc[d] \in Description /\ nextToi \in 1..ToiMax /\ symbolLength \in Nat \ {0}
    BY DEF TypeInv, TypeOK
  <2>2. entry \in Entry
    BY <2>1 DEF Description, Toi, Entry
  <2>3. symLen \in Nat \ {0}
    BY <2>1, TransmitterAssumption DEF MergedSymbolLength
  <2>4. Enqueue(entry, symLen) /\ RoomForTwo /\ inflight' = inflight
    BY <1>1 DEF Send
  <2> QED
    BY <2>2, <2>3, <2>4, EnqueueFits
<1>2. ASSUME NEW data \in Data, NEW meta \in Meta, SendBuffer(data, meta)
      PROVE  Fit(objs', inflight')
  <2> DEFINE entry == [toi |-> nextToi, data |-> data, meta |-> meta]
  <2>1. entry \in Entry /\ symbolLength \in Nat \ {0}
    BY DEF TypeInv, TypeOK, Entry
  <2>2. Enqueue(entry, symbolLength) /\ RoomForTwo /\ inflight' = inflight
    BY <1>2 DEF SendBuffer
  <2> QED
    BY <2>1, <2>2, EnqueueFits
<1> QED
  BY <1>1, <1>2

LEMMA SendSucceedsFits ==
  ASSUME TypeInv, QueueInv, Fit(objs, inflight), SendSucceeds
  PROVE  Fit(objs', inflight')
<1> DEFINE packet == Head(inflight)
           rest == Tail(inflight)
           file == MarkCompleted(objs[packet.file], packet.picked, packet.carried)
           os   == [objs EXCEPT ![packet.file] = file]
           fs   == [files EXCEPT ![file.toi] = None]
<1>1. inflight # <<>> /\ RoomForOne /\ inflight' = rest
  BY DEF SendSucceeds
<1>2. /\ file \in FileObject /\ Heap(files, os, rest) /\ \E i \in FileId : os[i] = None
  BY <1>1, CompletionType
<1>3. packet.file \in FileId /\ objs[packet.file] \in FileObject
  <2>1. inflight \in Seq(Packet) /\ objs \in [FileId -> FileObject \cup {None}]
    BY DEF TypeInv, TypeOK
  <2>2. packet = inflight[1] /\ 1 \in DOMAIN inflight
    BY <1>1, <2>1, TailElements
  <2> QED
    BY <2>1, <2>2, PacketsInFlight DEF TypeInv, Heap
<1>4. Fit(os, rest)
  <2>1. SameShape(objs[packet.file], file)
    BY <1>3, MarkedShape
  <2>2. inflight \in Seq(Packet) /\ objs \in [FileId -> FileObject \cup {None}]
    BY DEF TypeInv, TypeOK
  <2>3. \A k \in DOMAIN inflight : inflight[k].file \in FileId
    BY PacketsInFlight DEF TypeInv
  <2> HIDE DEF file, packet
  <2>4. Fit(os, inflight)
    BY <1>3, <2>1, <2>2, <2>3, UpdateKeepsFit
  <2> QED
    BY <1>1, <2>2, <2>4, TailFits
<1>5. \A k \in DOMAIN rest : objs'[rest[k].file] = os[rest[k].file]
  <2>1. CASE ~Complete(file)
    <3>1. objs' = Live(os, files, rest)
      BY <2>1 DEF SendSucceeds
    <3> HIDE DEF os, rest
    <3> QED
      BY <1>2, <3>1, LiveKeepsObjects
  <2>2. CASE Complete(file)
    <3>1. FileTransmitted(file.toi, os, rest)
      BY <2>2 DEF SendSucceeds
    <3>2. file.toi \in Toi
      BY <1>2, TableAssumption DEF FileObject, FileOf, Toi
    <3>3. Heap(fs, os, rest)
      BY <1>2, <3>2, EraseKeepsHeap
    <3>4. CASE file.toi = 0
      <4>1. objs' = Live(os, fs, rest)
        BY <3>1, <3>4 DEF FileTransmitted
      <4> HIDE DEF os, rest, fs
      <4> QED
        BY <3>3, <4>1, LiveKeepsObjects
    <3>5. CASE file.toi # 0
      <4>1. SendFdt(Remove(fdt, file.toi), fs, os, rest)
        BY <3>1, <3>5 DEF FileTransmitted
      <4>2. Remove(fdt, file.toi) \in Table /\ symbolLength \in Nat \ {0}
        BY <3>2, <3>5, RemoveType DEF TypeInv, TypeOK, Toi
      <4> HIDE DEF os, rest, fs, file
      <4> QED
        BY <1>2, <3>3, <4>1, <4>2, SendFdtKeepsObjects
    <3> QED
      BY <3>4, <3>5
  <2> QED
    BY <2>1, <2>2
<1> HIDE DEF os, rest
<1> QED
  BY <1>1, <1>4, <1>5, SameObjectsFit

LEMMA SendFailsFits ==
  ASSUME TypeInv, Fit(objs, inflight), SendFails
  PROVE  Fit(objs', inflight')
<1> DEFINE rest == Tail(inflight)
<1>1. inflight # <<>> /\ inflight' = rest /\ objs' = Live(objs, files, rest)
  BY DEF SendFails
<1>2. Heap(files, objs, rest)
  BY <1>1, TailKeepsHeap DEF TypeInv
<1>3. Fit(objs, rest)
  BY <1>1, TailFits DEF TypeInv, TypeOK
<1> HIDE DEF rest
<1>4. \A k \in DOMAIN rest : objs'[rest[k].file] = objs[rest[k].file]
  BY <1>1, <1>2, LiveKeepsObjects
<1> QED
  BY <1>1, <1>3, <1>4, SameObjectsFit

LEMMA FdtSendTickFits ==
  ASSUME TypeInv, Fit(objs, inflight), FdtSendTick
  PROVE  Fit(objs', inflight')
<1>1. inflight' = inflight
  BY DEF FdtSendTick
<1>2. CASE ~active
  BY <1>1, <1>2 DEF FdtSendTick, queue
<1>3. CASE active
  <2>1. SendFdt(fdt, files, objs, inflight) /\ RoomForOne
    BY <1>3 DEF FdtSendTick
  <2>2. /\ fdt \in Table /\ symbolLength \in Nat \ {0} /\ \E i \in FileId : objs[i] = None
        /\ Heap(files, objs, inflight)
    BY <2>1 DEF TypeInv, TypeOK, RoomForOne
  <2> QED
    BY <1>1, <2>1, <2>2, SendFdtKeepsObjects, SameObjectsFit
<1> QED
  BY <1>2, <1>3

LEMMA StepFits ==
  ASSUME TypeInv, QueueInv, Fit(objs, inflight), [Next]_vars
  PROVE  Fit(objs', inflight')
<1>1. ASSUME UNCHANGED <<queue, inflight>>
      PROVE  Fit(objs', inflight')
  BY <1>1 DEF queue
<1>2. CASE UNCHANGED vars
  BY <1>1, <1>2 DEF vars
<1>3. CASE SetRateLimit \/ SetTunnel \/ SendTimerExpires \/ FdtTimerExpires \/ Deactivate
  BY <1>1, <1>3 DEF SetRateLimit, SetTunnel, SendTimerExpires, FdtTimerExpires, Deactivate
<1>4. ASSUME NEW d \in Desc, (\E data \in Data : SetContent(d, data))
                               \/ (\E meta \in Meta : SetMetadata(d, meta))
      PROVE  Fit(objs', inflight')
  BY <1>1, <1>4 DEF SetContent, SetMetadata
<1>5. CASE RunSendNextPacket
  <2>1. CASE active
    BY <1>5, <2>1, SendNextPacketFits DEF RunSendNextPacket
  <2>2. CASE ~active
    BY <1>5, <2>2 DEF RunSendNextPacket
  <2> QED
    BY <2>1, <2>2
<1>6. CASE Activate
  BY <1>6, SendNextPacketFits DEF Activate
<1> QED
  BY <1>2, <1>3, <1>4, <1>5, <1>6, SendFits, SendSucceedsFits, SendFailsFits, FdtSendTickFits
  DEF Next, ApplicationCalls, Handlers

\* No IP packet is longer than the path MTU, with or without the tunnel that carries it,
\* for any file, FDT, symbol length and change of the tunnel: send_next_packet cuts by
\* _max_payload, which udp_tunnel_address keeps in step with the tunnel.
THEOREM PacketsFit == Spec => []PacketsFitMtu
<1>1. Init => FitInv
  BY DEF Init, FitInv, Fit
<1>2. TypeInv /\ QueueInv /\ FitInv /\ [Next]_vars => FitInv'
  BY StepFits DEF FitInv
<1> QED
  BY <1>1, <1>2, FitMeaning, TypeInvariant, QueueInvariant, PTL DEF Spec

-----------------------------------------------------------------------------
(* The pace of one send loop *)

\* That the last activation's chain is gone when the handlers have run is because a
\* deactivation leaves no wait.
PaceInv == SingleSendLoop /\ (~active => waiting = "none")

LEMMA SendNextPacketPace ==
  ASSUME NEW r \in Nat, r = 0, SendNextPacket(r, "none")
  PROVE  SingleSendLoop'
  BY DEF SendNextPacket, SendNothing, SendPacket, Rearm, SingleSendLoop

LEMMA StepPace ==
  ASSUME TypeInv, PaceInv, [Next /\ DrainedActivation /\ ~tunnelled']_vars
  PROVE  PaceInv' /\ (PacketLeaves /\ rateLimited => waiting # "rate")
<1>1. /\ ready \in Nat /\ inflight \in Seq(Packet)
      /\ ready > 0 => ready = 1 /\ waiting = "none"
      /\ ~active => waiting = "none"
  BY DEF TypeInv, TypeOK, PaceInv, SingleSendLoop
<1>2. ASSUME UNCHANGED <<active, inflight, loop>>
      PROVE  PaceInv' /\ ~PacketLeaves
  BY <1>1, <1>2 DEF PaceInv, SingleSendLoop, PacketLeaves, loop
<1>3. CASE UNCHANGED vars
  BY <1>2, <1>3 DEF vars
<1>4. CASE SetRateLimit \/ SetTunnel \/ FdtTimerExpires \/ FdtSendTick
           \/ (\E d \in Desc : Send(d))
           \/ (\E data \in Data, meta \in Meta : SendBuffer(data, meta))
           \/ (\E d \in Desc, data \in Data : SetContent(d, data))
           \/ (\E d \in Desc, meta \in Meta : SetMetadata(d, meta))
  BY <1>2, <1>4 DEF SetRateLimit, SetTunnel, FdtTimerExpires, FdtSendTick, Send, SendBuffer,
                    SetContent, SetMetadata
<1>5. CASE SendSucceeds \/ SendFails
  <2>1. UNCHANGED <<active, loop>> /\ inflight # <<>> /\ inflight' = Tail(inflight)
    BY <1>5 DEF SendSucceeds, SendFails
  <2>2. Len(inflight') < Len(inflight) /\ Len(inflight) \in Nat /\ Len(inflight') \in Nat
    BY <1>1, <2>1
  <2> QED
    BY <2>1, <2>2 DEF PaceInv, SingleSendLoop, PacketLeaves, loop
<1>6. CASE SendTimerExpires \/ Deactivate
  <2>1. inflight' = inflight /\ waiting' = "none"
        /\ ready' = IF waiting = "none" THEN ready ELSE ready + 1
    BY <1>6 DEF SendTimerExpires, Deactivate, Rearm
  <2> QED
    BY <1>1, <2>1 DEF PaceInv, SingleSendLoop, PacketLeaves
<1>7. CASE RunSendNextPacket
  <2>1. ready = 1 /\ waiting = "none" /\ active' = active
    BY <1>1, <1>7 DEF RunSendNextPacket
  <2>2. CASE active
    BY <1>7, <2>1, <2>2, SendNextPacketPace DEF RunSendNextPacket, PaceInv
  <2>3. CASE ~active
    BY <1>7, <2>1, <2>3 DEF RunSendNextPacket, PaceInv, SingleSendLoop
  <2> QED
    BY <2>1, <2>2, <2>3
<1>8. CASE Activate /\ DrainedActivation
  <2>1. ready = 0 /\ waiting = "none" /\ active' /\ SendNextPacket(ready, waiting)
    BY <1>1, <1>8 DEF Activate, DrainedActivation
  <2> QED
    BY <2>1, SendNextPacketPace DEF PaceInv
<1> QED
  BY <1>3, <1>4, <1>5, <1>6, <1>7, <1>8 DEF Next, ApplicationCalls, Handlers

LEMMA PacedInvariant ==
  PacedSpec => /\ []PaceInv
               /\ [][PacketLeaves /\ rateLimited => waiting # "rate"]_vars
<1>1. Init => PaceInv
  BY DEF Init, PaceInv, SingleSendLoop
<1>2. TypeInv /\ PaceInv /\ [Next /\ DrainedActivation /\ ~tunnelled']_vars => PaceInv'
  BY StepPace
<1>3. TypeInv /\ PaceInv /\ [Next /\ DrainedActivation /\ ~tunnelled']_vars
        => [PacketLeaves /\ rateLimited => waiting # "rate"]_vars
  BY StepPace
<1>4. PacedSpec => Spec
  BY PTL DEF PacedSpec, Spec
<1> QED
  BY <1>1, <1>2, <1>3, <1>4, TypeInvariant, PTL DEF PacedSpec

\* An application that activates only when send_next_packet's queued handlers have run
\* has one chain of them: deactivate's cancellation, a timer and a post never make two.
THEOREM OneSendLoop == PacedSpec => []SingleSendLoop
  BY PacedInvariant, PTL DEF PaceInv

\* And then no packet leaves before the wait that the packet before it earned has
\* ended: the one handler that could send it is the one that wait is for.
THEOREM PaceIsKept == PacedSpec => PacketsArePaced
  BY PacedInvariant DEF PacketsArePaced

-----------------------------------------------------------------------------
(* The objects a step makes and keeps *)

\* Symbol lengths a file may be cut by.
SymbolLengths == ({symbolLength} \cup {SymbolLengthOf[d] : d \in Desc}) \ {0}

\* An object a step makes: a document of the FDT, or a file.
NewObject(file) ==
  \/ \E table \in Table : file = FdtFile(table)
  \/ \E entry \in Entry, symLen \in SymbolLengths : file = DataFile(entry, symLen)

LEMMA SymbolLengthsType ==
  ASSUME TypeInv
  PROVE  /\ SymbolLengths \subseteq Nat \ {0} /\ symbolLength \in SymbolLengths
         /\ \A d \in Desc : MergedSymbolLength(d) \in SymbolLengths
  BY TransmitterAssumption DEF TypeInv, TypeOK, SymbolLengths, MergedSymbolLength

LEMMA LiveObjects ==
  ASSUME NEW os, NEW fs, NEW infl, NEW id \in FileId
  PROVE  Live(os, fs, infl)[id] = os[id] \/ Live(os, fs, infl)[id] = None
  BY DEF Live

\* send_fdt leaves every object as it was, or drops it, or makes it anew.
LEMMA SendFdtObjects ==
  ASSUME NEW table \in Table, NEW fs, NEW os, NEW infl, os \in [FileId -> FileObject \cup {None}],
         \E i \in FileId : os[i] = None, SendFdt(table, fs, os, infl),
         NEW id \in FileId, objs'[id] # None
  PROVE  objs'[id] = os[id] \/ (os[id] = None /\ NewObject(objs'[id]))
<1>1. CASE table.entries = NoEntries
  <2>1. objs' = Live(os, fs, infl)
    BY <1>1 DEF SendFdt
  <2> QED
    BY <2>1, LiveObjects
<1>2. CASE table.entries # NoEntries
  <2> DEFINE fresh == Fresh(os)
             os2 == [os EXCEPT ![fresh] = FdtFile(table)]
  <2>1. objs' = Live(os2, [fs EXCEPT ![0] = fresh], infl)
    BY <1>2 DEF SendFdt
  <2>2. fresh \in FileId /\ os[fresh] = None
    BY FreshType
  <2>3. os2[id] = os[id] \/ (os[id] = None /\ os2[id] = FdtFile(table))
    BY <2>2
  <2> HIDE DEF os2, fresh
  <2> QED
    BY <2>1, <2>3, LiveObjects DEF NewObject
<1> QED
  BY <1>1, <1>2

LEMMA EnqueueObjects ==
  ASSUME TypeInv, RoomForTwo, NEW entry \in Entry, NEW symLen \in SymbolLengths,
         Enqueue(entry, symLen), NEW id \in FileId, objs'[id] # None
  PROVE  objs'[id] = objs[id] \/ (objs[id] = None /\ NewObject(objs'[id]))
<1> DEFINE fresh == Fresh(objs)
           new == files[entry.toi] = None
           fs  == IF new THEN [files EXCEPT ![entry.toi] = fresh] ELSE files
           os  == IF new THEN [objs EXCEPT ![fresh] = DataFile(entry, symLen)] ELSE objs
<1>1. fresh \in FileId /\ objs[fresh] = None
  BY FreshType DEF RoomForTwo
<1>2. DataFile(entry, symLen) \in FileObject
  BY DataFileType, SymbolLengthsType
<1>3. os \in [FileId -> FileObject \cup {None}] /\ \E i \in FileId : os[i] = None
  BY <1>1, <1>2 DEF TypeInv, TypeOK, RoomForTwo
<1>4. Add(fdt, entry) \in Table
  BY AddType DEF TypeInv, TypeOK
<1>5. SendFdt(Add(fdt, entry), fs, os, inflight)
  BY DEF Enqueue
<1>6. os[id] = objs[id] \/ (objs[id] = None /\ os[id] = DataFile(entry, symLen))
  BY <1>1 DEF TypeInv, TypeOK
<1>7. objs'[id] = os[id] \/ (os[id] = None /\ NewObject(objs'[id]))
  <2> HIDE DEF os, fs
  <2> QED
    BY <1>3, <1>4, <1>5, SendFdtObjects
<1> QED
  BY <1>2, <1>6, <1>7, NoneAssumption DEF NewObject

LEMMA SendObjects ==
  ASSUME TypeInv,
         (\E d \in Desc : Send(d)) \/ (\E data \in Data, meta \in Meta : SendBuffer(data, meta)),
         NEW id \in FileId, objs'[id] # None
  PROVE  objs'[id] = objs[id] \/ (objs[id] = None /\ NewObject(objs'[id]))
<1>1. ASSUME NEW d \in Desc, Send(d)
      PROVE  objs'[id] = objs[id] \/ (objs[id] = None /\ NewObject(objs'[id]))
  <2> DEFINE toi == IF desc[d].toi = 0 THEN nextToi ELSE desc[d].toi
             entry == [desc[d] EXCEPT !.toi = toi]
  <2>1. entry \in Entry
    BY <1>1 DEF TypeInv, TypeOK, Entry, Description, Toi
  <2>2. Enqueue(entry, MergedSymbolLength(d)) /\ RoomForTwo
    BY <1>1 DEF Send
  <2> HIDE DEF entry
  <2> QED
    BY <2>1, <2>2, EnqueueObjects, SymbolLengthsType
<1>2. ASSUME NEW data \in Data, NEW meta \in Meta, SendBuffer(data, meta)
      PROVE  objs'[id] = objs[id] \/ (objs[id] = None /\ NewObject(objs'[id]))
  <2> DEFINE entry == [toi |-> nextToi, data |-> data, meta |-> meta]
  <2>1. entry \in Entry
    BY DEF TypeInv, TypeOK, Entry
  <2>2. Enqueue(entry, symbolLength) /\ RoomForTwo
    BY <1>2 DEF SendBuffer
  <2> HIDE DEF entry
  <2> QED
    BY <2>1, <2>2, EnqueueObjects, SymbolLengthsType
<1> QED
  BY <1>1, <1>2

LEMMA FdtSendTickObjects ==
  ASSUME TypeInv, FdtSendTick, NEW id \in FileId, objs'[id] # None
  PROVE  objs'[id] = objs[id] \/ (objs[id] = None /\ NewObject(objs'[id]))
<1>1. CASE ~active
  BY <1>1 DEF FdtSendTick, queue
<1>2. CASE active
  <2>1. SendFdt(fdt, files, objs, inflight) /\ RoomForOne
    BY <1>2 DEF FdtSendTick
  <2> QED
    BY <2>1, SendFdtObjects DEF TypeInv, TypeOK, RoomForOne
<1> QED
  BY <1>1, <1>2

\* The end of a packet's send marks its object, drops what nothing refers to any more, and
\* may make a document of the FDT.
LEMMA SendSucceedsObjects ==
  ASSUME TypeInv, SendSucceeds, NEW id \in FileId, objs'[id] # None
  PROVE  LET packet == Head(inflight)
             file == MarkCompleted(objs[packet.file], packet.picked, packet.carried)
             os == [objs EXCEPT ![packet.file] = file]
         IN objs'[id] = os[id] \/ (os[id] = None /\ NewObject(objs'[id]))
<1> DEFINE packet == Head(inflight)
           rest == Tail(inflight)
           file == MarkCompleted(objs[packet.file], packet.picked, packet.carried)
           os   == [objs EXCEPT ![packet.file] = file]
           fs   == [files EXCEPT ![file.toi] = None]
<1> SUFFICES objs'[id] = os[id] \/ (os[id] = None /\ NewObject(objs'[id]))
  OBVIOUS
<1>1. inflight # <<>> /\ RoomForOne /\ inflight' = rest
  BY DEF SendSucceeds
<1>2. /\ file \in FileObject /\ Heap(files, os, rest) /\ \E i \in FileId : os[i] = None
  BY <1>1, CompletionType
<1>3. os \in [FileId -> FileObject \cup {None}]
  <2> HIDE DEF os, rest
  <2> QED
    BY <1>2 DEF Heap
<1>4. CASE ~Complete(file)
  <2>1. objs' = Live(os, files, rest)
    BY <1>4 DEF SendSucceeds
  <2> HIDE DEF os, rest
  <2> QED
    BY <2>1, LiveObjects
<1>5. CASE Complete(file)
  <2>1. FileTransmitted(file.toi, os, rest)
    BY <1>5 DEF SendSucceeds
  <2>2. CASE file.toi = 0
    <3>1. objs' = Live(os, fs, rest)
      BY <2>1, <2>2 DEF FileTransmitted
    <3> HIDE DEF os, rest, fs
    <3> QED
      BY <3>1, LiveObjects
  <2>3. CASE file.toi # 0
    <3>1. SendFdt(Remove(fdt, file.toi), fs, os, rest)
      BY <2>1, <2>3 DEF FileTransmitted
    <3>2. Remove(fdt, file.toi) \in Table
      BY RemoveType DEF TypeInv, TypeOK
    <3> HIDE DEF os, rest, fs, file
    <3> QED
      BY <1>2, <1>3, <3>1, <3>2, SendFdtObjects
  <2> QED
    BY <2>2, <2>3
<1> QED
  BY <1>4, <1>5

\* A heap after a step that marks nothing.
Kept(os, os2) ==
  \A id \in FileId : os2[id] # None => os2[id] = os[id] \/ (os[id] = None /\ NewObject(os2[id]))

-----------------------------------------------------------------------------
(* No symbol is lost *)

\* QueuedSymbolsAreInFlight of every object, queued or not.
Accounted(os, infl) ==
  \A id \in FileId : os[id] # None =>
    \A i \in DOMAIN os[id].symbols : os[id].symbols[i] = "queued" =>
      \E k \in DOMAIN infl : infl[k].file = id /\ i \in infl[k].picked

AccountedInv == Accounted(objs, inflight)

LEMMA AccountedMeaning == TypeInv /\ AccountedInv => QueuedSymbolsAreInFlight
<1> SUFFICES ASSUME TypeInv, AccountedInv, NEW toi \in Toi, files[toi] # None
             PROVE  files[toi] \in FileId /\ objs[files[toi]] # None
  BY DEF AccountedInv, Accounted, QueuedSymbolsAreInFlight
<1> QED
  BY DEF TypeInv, Heap

\* No symbol of a new object is queued.
LEMMA NewObjectPending ==
  ASSUME NEW file, NewObject(file)
  PROVE  \A i \in DOMAIN file.symbols : file.symbols[i] = "pending"
<1>1. \E length, symLen : file.symbols = FreshSymbols(length, symLen)
  BY DEF NewObject, FdtFile, DataFile
<1> QED
  BY <1>1 DEF FreshSymbols

LEMMA SameObjectsAccounted ==
  ASSUME NEW os, NEW os2, NEW infl, Accounted(os, infl),
         Kept(os, os2)
  PROVE  Accounted(os2, infl)
  BY NewObjectPending DEF Accounted, Kept

LEMMA SendNextPacketAccounted ==
  ASSUME TypeInv, AccountedInv, NEW r, NEW w, SendNextPacket(r, w)
  PROVE  AccountedInv'
<1>1. CASE SendNothing(r, w)
  BY <1>1 DEF SendNothing, AccountedInv
<1>2. CASE ~SendNothing(r, w)
  <2> DEFINE id == files[Min(Incomplete)]
             picked == NextSymbols(objs[id], maxPayload)
             packet == PacketOf(id)
             file == MarkQueued(objs[id], picked)
  <2>1. Incomplete # {} /\ SendPacket(id, r, w)
    BY <1>2 DEF SendNextPacket
  <2>2. id \in FileId /\ objs[id] \in FileObject /\ objs[id] # None
    BY <2>1, HeadOfQueue, NoneAssumption
  <2>3. objs' = [objs EXCEPT ![id] = file] /\ inflight' = Append(inflight, packet)
        /\ inflight \in Seq(Packet) /\ objs \in [FileId -> FileObject \cup {None}]
    BY <2>1 DEF SendPacket, TypeInv, TypeOK
  <2>4. /\ DOMAIN file.symbols = DOMAIN objs[id].symbols
        /\ \A i \in DOMAIN file.symbols :
             file.symbols[i] = IF i \in picked THEN "queued" ELSE objs[id].symbols[i]
    BY <2>2 DEF MarkQueued, FileObject, FileOf
  <2>5. packet.file = id /\ packet.picked = picked
    BY DEF PacketOf
  <2> DEFINE last == Len(inflight) + 1
  <2>6. /\ last \in DOMAIN inflight' /\ inflight'[last] = packet
        /\ \A k \in DOMAIN inflight : k \in DOMAIN inflight' /\ inflight'[k] = inflight[k]
    <3> HIDE DEF packet
    <3> QED
      BY <2>3
  <2> HIDE DEF file, packet, picked, id, last
  <2> SUFFICES ASSUME NEW x \in FileId, objs'[x] # None,
                      NEW i \in DOMAIN objs'[x].symbols, objs'[x].symbols[i] = "queued"
               PROVE  \E k \in DOMAIN inflight' :
                        inflight'[k].file = x /\ i \in inflight'[k].picked
    BY DEF AccountedInv, Accounted
  <2>7. CASE x = id /\ i \in picked
    BY <2>5, <2>6, <2>7
  <2>8. CASE ~(x = id /\ i \in picked)
    <3>1. /\ objs[x] # None /\ i \in DOMAIN objs[x].symbols
          /\ objs[x].symbols[i] = "queued"
      BY <2>2, <2>3, <2>4, <2>8
    <3>2. PICK k \in DOMAIN inflight : inflight[k].file = x /\ i \in inflight[k].picked
      BY <3>1 DEF AccountedInv, Accounted
    <3> QED
      BY <2>6, <3>2
  <2> QED
    BY <2>7, <2>8
<1> QED
  BY <1>1, <1>2

LEMMA SendSucceedsAccounted ==
  ASSUME TypeInv, AccountedInv, SendSucceeds
  PROVE  AccountedInv'
<1> DEFINE packet == Head(inflight)
           file == MarkCompleted(objs[packet.file], packet.picked, packet.carried)
           os   == [objs EXCEPT ![packet.file] = file]
<1>1. inflight # <<>> /\ inflight' = Tail(inflight) /\ inflight \in Seq(Packet)
      /\ objs \in [FileId -> FileObject \cup {None}]
  BY DEF SendSucceeds, TypeInv, TypeOK
<1>2. packet = inflight[1] /\ 1 \in DOMAIN inflight
  BY <1>1, TailElements
<1>3. packet.file \in FileId /\ objs[packet.file] \in FileObject /\ objs[packet.file] # None
  BY <1>1, <1>2, PacketsInFlight DEF TypeInv, Heap
<1>4. /\ DOMAIN file.symbols = DOMAIN objs[packet.file].symbols
      /\ \A i \in DOMAIN file.symbols : file.symbols[i] = "queued" =>
           i \notin packet.picked /\ objs[packet.file].symbols[i] = "queued"
  BY <1>3 DEF MarkCompleted, FileObject, FileOf
<1>5. \A k \in DOMAIN inflight : k # 1 =>
        k - 1 \in DOMAIN inflight' /\ inflight'[k - 1] = inflight[k]
  <2>1. /\ DOMAIN inflight = 1..Len(inflight) /\ DOMAIN Tail(inflight) = 1..(Len(inflight) - 1)
        /\ Len(inflight) \in Nat
    BY <1>1
  <2>2. \A k \in DOMAIN Tail(inflight) : Tail(inflight)[k] = inflight[k + 1]
    BY <1>1, TailElements
  <2>3. \A k \in DOMAIN inflight : k # 1 =>
          k - 1 \in DOMAIN Tail(inflight) /\ k = (k - 1) + 1
    BY <2>1
  <2> QED
    BY <1>1, <2>2, <2>3
<1>6. Accounted(os, inflight')
  <2> HIDE DEF file, packet
  <2> SUFFICES ASSUME NEW x \in FileId, os[x] # None,
                      NEW i \in DOMAIN os[x].symbols, os[x].symbols[i] = "queued"
               PROVE  \E k \in DOMAIN inflight' :
                        inflight'[k].file = x /\ i \in inflight'[k].picked
    BY DEF Accounted
  <2>1. /\ objs[x] # None /\ i \in DOMAIN objs[x].symbols /\ objs[x].symbols[i] = "queued"
        /\ ~(x = packet.file /\ i \in packet.picked)
    BY <1>1, <1>3, <1>4
  <2>2. PICK k \in DOMAIN inflight : inflight[k].file = x /\ i \in inflight[k].picked
    BY <2>1 DEF AccountedInv, Accounted
  <2>3. k # 1
    BY <1>2, <2>1, <2>2
  <2> QED
    BY <1>5, <2>2, <2>3
<1>7. Kept(os, objs')
  BY SendSucceedsObjects DEF Kept
<1> HIDE DEF os
<1> QED
  BY <1>6, <1>7, SameObjectsAccounted DEF AccountedInv

LEMMA StepAccounted ==
  ASSUME TypeInv, AccountedInv, [ErrorFreeNext]_vars
  PROVE  AccountedInv'
<1>1. ASSUME UNCHANGED <<queue, inflight>>
      PROVE  AccountedInv'
  BY <1>1 DEF queue, AccountedInv
<1>2. CASE UNCHANGED vars
  BY <1>1, <1>2 DEF vars
<1>3. CASE SetRateLimit \/ SetTunnel \/ SendTimerExpires \/ FdtTimerExpires \/ Deactivate
  BY <1>1, <1>3 DEF SetRateLimit, SetTunnel, SendTimerExpires, FdtTimerExpires, Deactivate
<1>4. ASSUME NEW d \in Desc, (\E data \in Data : SetContent(d, data))
                               \/ (\E meta \in Meta : SetMetadata(d, meta))
      PROVE  AccountedInv'
  BY <1>1, <1>4 DEF SetContent, SetMetadata
<1>5. CASE RunSendNextPacket \/ Activate
  <2>1. CASE UNCHANGED <<objs, inflight>>
    BY <2>1 DEF AccountedInv
  <2>2. CASE ~UNCHANGED <<objs, inflight>>
    BY <1>5, <2>2, SendNextPacketAccounted DEF RunSendNextPacket, Activate
  <2> QED
    BY <2>1, <2>2
<1>6. CASE (\E d \in Desc : Send(d)) \/ (\E data \in Data, meta \in Meta : SendBuffer(data, meta))
  <2>1. inflight' = inflight
    BY <1>6 DEF Send, SendBuffer
  <2>2. Kept(objs, objs')
    BY <1>6, SendObjects DEF Kept
  <2> QED
    BY <2>1, <2>2, SameObjectsAccounted DEF AccountedInv
<1>7. CASE FdtSendTick
  <2>1. inflight' = inflight
    BY <1>7 DEF FdtSendTick
  <2>2. Kept(objs, objs')
    BY <1>7, FdtSendTickObjects DEF Kept
  <2> QED
    BY <2>1, <2>2, SameObjectsAccounted DEF AccountedInv
<1> QED
  BY <1>2, <1>3, <1>4, <1>5, <1>6, <1>7, SendSucceedsAccounted
  DEF ErrorFreeNext, ApplicationCalls, Handlers

\* The transmitter whose socket takes every packet, with nothing asked of its application.
ErrorFreeSpec == Init /\ [][ErrorFreeNext]_vars

\* While the socket takes every packet, a symbol that is neither sent nor free to be
\* picked is in a packet that is still to be reported: through resends, new FDTs that
\* replace those in flight, deactivations, and a tunnel that changes the packets' room,
\* no file waits for a report that nobody will make.
THEOREM NoSymbolIsLost == ErrorFreeSpec => []QueuedSymbolsAreInFlight
<1>1. Init => AccountedInv
  BY DEF Init, AccountedInv, Accounted
<1>2. TypeInv /\ AccountedInv /\ [ErrorFreeNext]_vars => AccountedInv'
  BY StepAccounted
<1>3. ErrorFreeSpec => Spec
  <2>1. [ErrorFreeNext]_vars => [Next]_vars
    BY DEF ErrorFreeNext, Next
  <2> QED
    BY <2>1, PTL DEF ErrorFreeSpec, Spec
<1> QED
  BY <1>1, <1>2, <1>3, AccountedMeaning, TypeInvariant, PTL DEF ErrorFreeSpec

-----------------------------------------------------------------------------
(* What a packet picks, it carries *)

LEMMA CeilDivision ==
  ASSUME NEW a \in Nat, NEW b \in Nat \ {0}
  PROVE  /\ CeilDiv(a, b) \in Nat
         /\ a <= b * CeilDiv(a, b) /\ b * CeilDiv(a, b) < a + b
<1> DEFINE q == (a + b - 1) \div b
<1>1. q \in Nat /\ b * q <= a + b - 1 /\ a + b - 1 < b * q + b
  OBVIOUS
<1>2. CeilDiv(a, b) = q
  BY DEF CeilDiv
<1> HIDE DEF q
<1> QED
  BY <1>1, <1>2

\* The symbols get_next_symbols picks for `room' bytes, which are as many as it takes to
\* cover four bytes less, are no more than fit.
FillsPayload(symLen, room) == CeilDiv(room - 4, symLen) * symLen <= room

\* No description asks for symbols of which the last one picked sticks out of the payload,
\* in a tunnel or not.
AlignedLengths ==
  \A d \in Desc : SymbolLengthOf[d] # 0 =>
    \A b \in BOOLEAN : FillsPayload(SymbolLengthOf[d], MaxPayload(b))

\* One symbol of the transmitter's own length is a payload.
LEMMA OwnLengthFills ==
  ASSUME NEW room \in Nat, room > 4
  PROVE  FillsPayload(room, room)
<1> DEFINE n == CeilDiv(room - 4, room)
<1>1. n \in Nat /\ room * n < 2 * room
  <2>1. room - 4 \in Nat /\ room \in Nat \ {0}
    OBVIOUS
  <2>2. n \in Nat /\ room * n < (room - 4) + room
    BY <2>1, CeilDivision
  <2> HIDE DEF n
  <2> QED
    BY <2>2
<1> HIDE DEF n
<1>2. n < 2
  <2> SUFFICES ASSUME 2 <= n PROVE FALSE
    BY <1>1
  <2>1. 2 * room <= n * room
    BY <1>1, ProductMonotone
  <2>2. n * room = room * n
    BY <1>1
  <2> QED
    BY <1>1, <2>1, <2>2
<1>3. n * room <= 1 * room
  BY <1>1, <1>2, ProductMonotone
<1> QED
  BY <1>3 DEF FillsPayload, n

\* An object whose symbols fill the payloads of `room' bytes: as many symbols as its length
\* takes, and of such a length.
Fills(file, room) ==
  /\ FillsPayload(file.symbolLength, room)
  /\ Len(file.symbols) = NofSourceSymbols(file.length, file.symbolLength)

LEMMA LastSymbol ==
  ASSUME NEW file \in FileObject, NEW i \in DOMAIN file.symbols,
         Len(file.symbols) = NofSourceSymbols(file.length, file.symbolLength)
  PROVE  SymbolLength(file, i) \in Int /\ SymbolLength(file, i) <= file.symbolLength
<1> DEFINE n == Len(file.symbols)
           s == file.symbolLength
<1>1. s \in Nat \ {0} /\ file.length \in Nat /\ n \in Nat /\ i \in 1..n
  BY DEF FileObject, FileOf
<1>2. CASE i < n
  BY <1>1, <1>2 DEF SymbolLength
<1>3. CASE i = n
  <2>1. n = CeilDiv(file.length, s)
    BY DEF NofSourceSymbols
  <2> HIDE DEF n, s
  <2>2. file.length <= s * n
    BY <1>1, <2>1, CeilDivision
  <2>3. s * n = (n - 1) * s + s /\ (n - 1) * s \in Int
    BY <1>1
  <2>4. SymbolLength(file, i) = file.length - (n - 1) * s
    BY <1>1, <1>3 DEF SymbolLength, n, s
  <2> QED
    BY <1>1, <2>2, <2>3, <2>4 DEF s
<1> QED
  BY <1>1, <1>2, <1>3

\* to_payload then writes every symbol that get_next_symbols picks.
LEMMA AllCarried ==
  ASSUME NEW file \in FileObject, NEW room \in Nat, room > 4, Fills(file, room)
  PROVE  Carried(file, NextSymbols(file, room), room) = NextSymbols(file, room)
<1> DEFINE picked == NextSymbols(file, room)
           s == file.symbolLength
           n == CeilDiv(room - 4, s)
<1>1. s \in Nat \ {0} /\ n \in Nat /\ n * s <= room
  <2>1. s \in Nat \ {0} /\ room - 4 \in Nat
    BY DEF FileObject, FileOf
  <2> QED
    BY <2>1, CeilDivision DEF Fills, FillsPayload
<1>2. /\ DOMAIN file.symbols = 1..Len(file.symbols) /\ Len(file.symbols) \in Nat
      /\ Pending(file) \subseteq DOMAIN file.symbols /\ picked \subseteq Pending(file)
  BY DEF FileObject, FileOf, Pending, NextSymbols
<1> SUFFICES ASSUME NEW i \in picked
             PROVE  Cardinality(Before(i, picked)) * s + SymbolLength(file, i) <= room
  BY DEF Carried
<1> DEFINE a == Cardinality(Before(i, picked))
<1>3. a \in Nat /\ a < n
  <2>1. IsFiniteSet(1..Len(file.symbols))
    <3>1. 1 \in Int /\ Len(file.symbols) \in Int
      BY <1>2
    <3> QED
      BY <3>1, FS_Interval
  <2>2. Before(i, Pending(file)) \subseteq 1..Len(file.symbols)
        /\ Before(i, picked) \subseteq Before(i, Pending(file))
    BY <1>2 DEF Before
  <2>3. Cardinality(Before(i, Pending(file))) < n
    BY DEF NextSymbols
  <2> HIDE DEF picked, n
  <2> QED
    BY <1>1, <2>1, <2>2, <2>3, FS_Subset, FS_CardinalityType
<1>4. SymbolLength(file, i) \in Int /\ SymbolLength(file, i) <= s
  <2>1. i \in DOMAIN file.symbols
    BY <1>2
  <2> QED
    BY <2>1, LastSymbol DEF Fills
<1> HIDE DEF a, n, s
<1>5. (a + 1) * s <= n * s
  BY <1>1, <1>3, ProductMonotone
<1>6. (a + 1) * s = a * s + s /\ a * s \in Nat /\ n * s \in Nat
  BY <1>1, <1>3
<1>7. a * s + SymbolLength(file, i) <= room
  BY <1>1, <1>4, <1>5, <1>6
<1> QED
  BY <1>7 DEF a, s

\* Of the objects under the TOIs `tois': each fills the payload, and no symbol of it was
\* marked complete unsent.
AllFill(os, room, tois) ==
  \A id \in FileId : os[id] # None /\ os[id].toi \in tois =>
    /\ Fills(os[id], room)
    /\ \A i \in DOMAIN os[id].symbols : os[id].symbols[i] # "swallowed"

\* PickedSymbolsFit of their packets.
AllPicksCarried(os, infl, tois) ==
  \A k \in DOMAIN infl :
    os[infl[k].file] # None /\ os[infl[k].file].toi \in tois => infl[k].carried = infl[k].picked

\* With a tunnel that stays as the constructor found it, the payload is one symbol of the
\* transmitter's length.
PicksInv(tois) ==
  /\ maxPayload = symbolLength
  /\ AllFill(objs, maxPayload, tois)
  /\ AllPicksCarried(objs, inflight, tois)

TunnelStays == tunnelled' = tunnelled

\* The FDT is cut by the transmitter's length whatever the descriptions ask for.
Aligned(tois) == tois = {0} \/ AlignedLengths

LEMMA PayloadRoom ==
  ASSUME TypeInv
  PROVE  maxPayload \in Nat /\ maxPayload > 4
<1>1. maxPayload \in Nat /\ (maxPayload = MaxPayload(TRUE) \/ maxPayload = MaxPayload(FALSE))
  BY DEF TypeInv, TypeOK
<1>2. MaxPayload(TRUE) > 4 /\ MaxPayload(FALSE) > 4
  BY PayloadValues, TransmitterAssumption
  DEF MaxPayload, TunnelOverhead, IpUdp, AlcHeader, FecPayloadId
<1> QED
  BY <1>1, <1>2

LEMMA NewObjectFills ==
  ASSUME TypeInv, maxPayload = symbolLength, NEW tois, Aligned(tois),
         NEW file, NewObject(file), file.toi \in tois
  PROVE  Fills(file, maxPayload)
<1>1. \A symLen \in SymbolLengths : FillsPayload(symLen, maxPayload) \/ ~AlignedLengths
  <2> SUFFICES ASSUME NEW symLen \in SymbolLengths, AlignedLengths
               PROVE  FillsPayload(symLen, maxPayload)
    OBVIOUS
  <2>1. CASE symLen = symbolLength
    BY <2>1, PayloadRoom, OwnLengthFills
  <2>2. ASSUME NEW d \in Desc, symLen = SymbolLengthOf[d]
        PROVE  FillsPayload(symLen, maxPayload)
    BY <2>2 DEF AlignedLengths, SymbolLengths, TypeInv, TypeOK
  <2> QED
    BY <2>1, <2>2 DEF SymbolLengths
<1>2. FillsPayload(symbolLength, maxPayload)
  BY PayloadRoom, OwnLengthFills
<1>3. /\ file.symbolLength \in SymbolLengths
      /\ file.symbols = FreshSymbols(file.length, file.symbolLength)
      /\ file.length \in Nat
      /\ FillsPayload(file.symbolLength, maxPayload)
  <2>1. CASE \E table \in Table : file = FdtFile(table)
    <3>1. PICK table \in Table : file = FdtFile(table)
      BY <2>1
    <3>2. file \in FileObject
      BY <3>1, FdtFileType DEF TypeInv, TypeOK
    <3> QED
      BY <1>2, <3>1, <3>2, SymbolLengthsType DEF FdtFile, FileObject, FileOf
  <2>2. CASE \E entry \in Entry, symLen \in SymbolLengths : file = DataFile(entry, symLen)
    <3>1. PICK entry \in Entry, symLen \in SymbolLengths : file = DataFile(entry, symLen)
      BY <2>2
    <3>2. file.toi # 0
      BY <3>1 DEF DataFile, Entry
    <3>3. AlignedLengths
      BY <3>2 DEF Aligned
    <3> QED
      BY <1>1, <3>1, <3>3, TransmitterAssumption DEF DataFile, Entry
  <2> QED
    BY <2>1, <2>2 DEF NewObject
<1>4. Len(file.symbols) = NofSourceSymbols(file.length, file.symbolLength)
  <2>1. NofSourceSymbols(file.length, file.symbolLength) \in Nat
    BY <1>3, SymbolLengthsType, CeilDivNat DEF NofSourceSymbols
  <2> QED
    BY <1>3, <2>1 DEF FreshSymbols
<1> QED
  BY <1>3, <1>4 DEF Fills

LEMMA ShapeFills ==
  ASSUME NEW file, NEW file2, NEW room, SameShape(file, file2), Fills(file, room)
  PROVE  Fills(file2, room)
  BY DEF SameShape, Fills

LEMMA KeptFill ==
  ASSUME TypeInv, maxPayload = symbolLength, NEW tois, Aligned(tois),
         NEW os, NEW os2, AllFill(os, maxPayload, tois), Kept(os, os2)
  PROVE  AllFill(os2, maxPayload, tois)
  BY NewObjectFills, NewObjectPending DEF AllFill, Kept

LEMMA UpdateKeepsFill ==
  ASSUME NEW os \in [FileId -> FileObject \cup {None}], NEW room, NEW tois,
         AllFill(os, room, tois),
         NEW id \in FileId, os[id] # None, NEW file, SameShape(os[id], file),
         file.toi \in tois => \A i \in DOMAIN file.symbols : file.symbols[i] # "swallowed"
  PROVE  AllFill([os EXCEPT ![id] = file], room, tois)
<1> SUFFICES ASSUME NEW x \in FileId, [os EXCEPT ![id] = file][x] # None,
                    [os EXCEPT ![id] = file][x].toi \in tois
             PROVE  /\ Fills([os EXCEPT ![id] = file][x], room)
                    /\ \A i \in DOMAIN [os EXCEPT ![id] = file][x].symbols :
                         [os EXCEPT ![id] = file][x].symbols[i] # "swallowed"
  BY DEF AllFill
<1>1. CASE x = id
  <2>1. os[id].toi \in tois
    BY <1>1 DEF SameShape
  <2> QED
    BY <1>1, <2>1, ShapeFills DEF AllFill
<1>2. CASE x # id
  BY <1>2 DEF AllFill
<1> QED
  BY <1>1, <1>2

\* An object that a packet is of is no new one.
LEMMA KeptPicks ==
  ASSUME NEW os, NEW os2, NEW infl, NEW tois, AllPicksCarried(os, infl, tois),
         \A k \in DOMAIN infl : infl[k].file \in FileId /\ os[infl[k].file] # None,
         Kept(os, os2)
  PROVE  AllPicksCarried(os2, infl, tois)
  BY DEF AllPicksCarried, Kept

LEMMA SendNextPacketPicks ==
  ASSUME TypeInv, NEW tois, PicksInv(tois), NEW r, NEW w, SendNextPacket(r, w)
  PROVE  AllFill(objs', maxPayload, tois) /\ AllPicksCarried(objs', inflight', tois)
<1>1. CASE SendNothing(r, w)
  BY <1>1 DEF SendNothing, PicksInv
<1>2. CASE ~SendNothing(r, w)
  <2> DEFINE id == files[Min(Incomplete)]
             picked == NextSymbols(objs[id], maxPayload)
             packet == PacketOf(id)
             file == MarkQueued(objs[id], picked)
  <2>1. Incomplete # {} /\ SendPacket(id, r, w)
    BY <1>2 DEF SendNextPacket
  <2>2. id \in FileId /\ objs[id] \in FileObject /\ objs[id] # None
    BY <2>1, HeadOfQueue, NoneAssumption
  <2>3. objs' = [objs EXCEPT ![id] = file] /\ inflight' = Append(inflight, packet)
        /\ inflight \in Seq(Packet) /\ objs \in [FileId -> FileObject \cup {None}]
    BY <2>1 DEF SendPacket, TypeInv, TypeOK
  <2>4. SameShape(objs[id], file)
    <3> HIDE DEF id
    <3> QED
      BY <2>2, MarkedShape
  <2>5. file.toi \in tois => \A i \in DOMAIN file.symbols : file.symbols[i] # "swallowed"
    <3>1. file.toi \in tois =>
            \A i \in DOMAIN objs[id].symbols : objs[id].symbols[i] # "swallowed"
      BY <2>2, <2>4 DEF PicksInv, AllFill, SameShape
    <3>2. /\ DOMAIN file.symbols = DOMAIN objs[id].symbols
          /\ \A i \in DOMAIN file.symbols :
               file.symbols[i] = "queued" \/ file.symbols[i] = objs[id].symbols[i]
      <4> HIDE DEF id
      <4> QED
        BY <2>2 DEF MarkQueued, FileObject, FileOf
    <3> QED
      BY <3>1, <3>2
  <2>6. AllFill(objs', maxPayload, tois)
    <3> HIDE DEF file, id
    <3> QED
      BY <2>2, <2>3, <2>4, <2>5, UpdateKeepsFill DEF PicksInv
  <2>7. objs[id].toi \in tois => packet.carried = packet.picked
    <3> SUFFICES ASSUME objs[id].toi \in tois
                 PROVE  packet.carried = packet.picked
      OBVIOUS
    <3>1. Fills(objs[id], maxPayload)
      BY <2>2 DEF PicksInv, AllFill
    <3>2. Carried(objs[id], picked, maxPayload) = picked
      <4> HIDE DEF id
      <4> QED
        BY <2>2, <3>1, PayloadRoom, AllCarried
    <3> QED
      BY <3>2 DEF PacketOf
  <2> DEFINE last == Len(inflight) + 1
  <2>8. /\ \A k \in DOMAIN inflight' : k \in DOMAIN inflight \/ k = last
        /\ \A k \in DOMAIN inflight : inflight'[k] = inflight[k]
        /\ inflight'[last] = packet
    <3>1. inflight' = Append(inflight, packet) /\ inflight \in Seq(Packet)
      BY <2>3
    <3>2. /\ DOMAIN inflight' = 1..(Len(inflight) + 1) /\ DOMAIN inflight = 1..Len(inflight)
          /\ Len(inflight) \in Nat
          /\ \A k \in DOMAIN inflight : inflight'[k] = inflight[k]
          /\ inflight'[Len(inflight) + 1] = packet
      <4> HIDE DEF packet
      <4> QED
        BY <3>1
    <3>3. \A k \in DOMAIN inflight' : k \in DOMAIN inflight \/ k = last
      BY <3>2
    <3> HIDE DEF packet
    <3> QED
      BY <3>2, <3>3
  <2>9. packet.file = id
    BY DEF PacketOf
  <2>10. \A x \in FileId : objs'[x] # None =>
           objs[x] # None /\ objs'[x].toi = objs[x].toi
    <3> HIDE DEF file, id
    <3> QED
      BY <2>2, <2>3, <2>4 DEF SameShape
  <2>11. \A k \in DOMAIN inflight : inflight[k].file \in FileId
    BY PacketsInFlight DEF TypeInv
  <2> HIDE DEF packet, last, id, file
  <2>12. AllPicksCarried(objs', inflight', tois)
    BY <2>2, <2>7, <2>8, <2>9, <2>10, <2>11 DEF PicksInv, AllPicksCarried
  <2> QED
    BY <2>6, <2>12
<1> QED
  BY <1>1, <1>2

LEMMA CompletionUnswallowed ==
  ASSUME TypeInv, NEW tois, PicksInv(tois), inflight # <<>>,
         NEW file, file = MarkCompleted(objs[Head(inflight).file],
                                        Head(inflight).picked, Head(inflight).carried)
  PROVE  file.toi \in tois => \A i \in DOMAIN file.symbols : file.symbols[i] # "swallowed"
<1> DEFINE packet == Head(inflight)
<1> SUFFICES ASSUME file.toi \in tois
             PROVE  \A i \in DOMAIN file.symbols : file.symbols[i] # "swallowed"
  OBVIOUS
<1>1. packet = inflight[1] /\ 1 \in DOMAIN inflight
  BY TailElements DEF TypeInv, TypeOK
<1>2. packet.file \in FileId /\ objs[packet.file] \in FileObject /\ objs[packet.file] # None
  BY <1>1, PacketsInFlight DEF TypeInv, TypeOK, Heap
<1>3. objs[packet.file].toi \in tois
  BY <1>2, MarkedShape DEF SameShape
<1>4. packet.carried = packet.picked
  BY <1>1, <1>2, <1>3 DEF PicksInv, AllPicksCarried
<1>5. \A i \in DOMAIN objs[packet.file].symbols : objs[packet.file].symbols[i] # "swallowed"
  BY <1>2, <1>3 DEF PicksInv, AllFill
<1> QED
  BY <1>2, <1>4, <1>5 DEF MarkCompleted, FileObject, FileOf

LEMMA SendSucceedsPicks ==
  ASSUME TypeInv, NEW tois, Aligned(tois), PicksInv(tois), SendSucceeds
  PROVE  AllFill(objs', maxPayload, tois) /\ AllPicksCarried(objs', inflight', tois)
<1> DEFINE packet == Head(inflight)
           file == MarkCompleted(objs[packet.file], packet.picked, packet.carried)
           os   == [objs EXCEPT ![packet.file] = file]
<1>1. /\ inflight # <<>> /\ inflight' = Tail(inflight) /\ inflight \in Seq(Packet)
      /\ objs \in [FileId -> FileObject \cup {None}]
  BY DEF SendSucceeds, TypeInv, TypeOK
<1>2. packet = inflight[1] /\ 1 \in DOMAIN inflight
  BY <1>1, TailElements
<1>3. packet.file \in FileId /\ objs[packet.file] \in FileObject /\ objs[packet.file] # None
  BY <1>1, <1>2, PacketsInFlight DEF TypeInv, Heap
<1>4. SameShape(objs[packet.file], file)
  BY <1>3, MarkedShape
<1>5. file.toi \in tois => \A i \in DOMAIN file.symbols : file.symbols[i] # "swallowed"
  BY <1>1, CompletionUnswallowed
<1>6. AllFill(os, maxPayload, tois)
  <2> HIDE DEF file, packet
  <2> QED
    BY <1>1, <1>3, <1>4, <1>5, UpdateKeepsFill DEF PicksInv
<1>7. Kept(os, objs')
  BY SendSucceedsObjects DEF Kept
<1>8. AllFill(objs', maxPayload, tois)
  <2> HIDE DEF os
  <2> QED
    BY <1>6, <1>7, KeptFill DEF PicksInv
<1>9. \A k \in DOMAIN inflight' : k + 1 \in DOMAIN inflight /\ inflight'[k] = inflight[k + 1]
  BY <1>1, TailElements
<1>10. \A x \in FileId : os[x] # None => objs[x] # None /\ os[x].toi = objs[x].toi
  <2> HIDE DEF file, packet
  <2> QED
    BY <1>1, <1>3, <1>4 DEF SameShape
<1>11. \A k \in DOMAIN inflight : inflight[k].file \in FileId
  BY PacketsInFlight DEF TypeInv
<1>12. \A k \in DOMAIN inflight' : inflight'[k].file \in FileId /\ os[inflight'[k].file] # None
  <2>1. Heap(files, os, inflight')
    BY <1>1, CompletionType DEF SendSucceeds
  <2> HIDE DEF os
  <2> QED
    BY <1>9, <1>11, <2>1 DEF Heap
<1> HIDE DEF os
<1>13. AllPicksCarried(os, inflight', tois)
  BY <1>9, <1>10, <1>11 DEF PicksInv, AllPicksCarried
<1>14. AllPicksCarried(objs', inflight', tois)
  BY <1>7, <1>12, <1>13, KeptPicks
<1> QED
  BY <1>8, <1>14

LEMMA SendFailsPicks ==
  ASSUME TypeInv, NEW tois, PicksInv(tois), SendFails
  PROVE  AllFill(objs', maxPayload, tois) /\ AllPicksCarried(objs', inflight', tois)
<1>1. /\ inflight # <<>> /\ inflight' = Tail(inflight) /\ inflight \in Seq(Packet)
      /\ objs' = Live(objs, files, Tail(inflight))
  BY DEF SendFails, TypeInv, TypeOK
<1>2. \A id \in FileId : objs'[id] = objs[id] \/ objs'[id] = None
  BY <1>1, LiveObjects
<1>3. \A k \in DOMAIN inflight' : k + 1 \in DOMAIN inflight /\ inflight'[k] = inflight[k + 1]
  BY <1>1, TailElements
<1>4. \A k \in DOMAIN inflight : inflight[k].file \in FileId
  BY PacketsInFlight DEF TypeInv
<1> QED
  BY <1>2, <1>3, <1>4 DEF PicksInv, AllFill, AllPicksCarried

LEMMA StepPicks ==
  ASSUME TypeInv, NEW tois, Aligned(tois), PicksInv(tois), [Next]_vars,
         TunnelStays
  PROVE  PicksInv(tois)'
<1>1. ASSUME UNCHANGED <<maxPayload, symbolLength, objs, inflight>>
      PROVE  PicksInv(tois)'
  BY <1>1 DEF PicksInv
<1>2. CASE UNCHANGED vars
  BY <1>1, <1>2 DEF vars, config, queue
<1>3. CASE SetRateLimit \/ SendTimerExpires \/ FdtTimerExpires \/ Deactivate
  BY <1>1, <1>3 DEF SetRateLimit, SendTimerExpires, FdtTimerExpires, Deactivate, config, queue
<1>4. CASE SetTunnel
  <2>1. tunnelled' # tunnelled
    BY <1>4 DEF SetTunnel, TypeInv, TypeOK
  <2> QED
    BY <2>1 DEF TunnelStays
<1>5. ASSUME NEW d \in Desc, (\E data \in Data : SetContent(d, data))
                               \/ (\E meta \in Meta : SetMetadata(d, meta))
      PROVE  PicksInv(tois)'
  BY <1>1, <1>5 DEF SetContent, SetMetadata, config, queue
<1>6. CASE RunSendNextPacket \/ Activate
  <2>1. UNCHANGED <<maxPayload, symbolLength>>
    BY <1>6 DEF RunSendNextPacket, Activate, config
  <2>2. CASE UNCHANGED <<objs, inflight>>
    BY <1>1, <2>1, <2>2
  <2>3. CASE ~UNCHANGED <<objs, inflight>>
    <3>1. \E r, w : SendNextPacket(r, w)
      BY <1>6, <2>3 DEF RunSendNextPacket, Activate
    <3> QED
      BY <2>1, <3>1, SendNextPacketPicks DEF PicksInv
  <2> QED
    BY <2>2, <2>3
<1>7. CASE (\E d \in Desc : Send(d)) \/ (\E data \in Data, meta \in Meta : SendBuffer(data, meta))
           \/ FdtSendTick
  <2>1. UNCHANGED <<maxPayload, symbolLength, inflight>>
    BY <1>7 DEF Send, SendBuffer, FdtSendTick, config
  <2>2. Kept(objs, objs')
    BY <1>7, SendObjects, FdtSendTickObjects DEF Kept
  <2>3. \A k \in DOMAIN inflight : inflight[k].file \in FileId /\ objs[inflight[k].file] # None
    BY PacketsInFlight DEF TypeInv, Heap
  <2>4. AllFill(objs', maxPayload, tois)
    BY <2>2, KeptFill DEF PicksInv
  <2>5. AllPicksCarried(objs', inflight, tois)
    BY <2>2, <2>3, KeptPicks DEF PicksInv
  <2> QED
    BY <2>1, <2>4, <2>5 DEF PicksInv
<1>8. CASE SendSucceeds \/ SendFails
  <2>1. UNCHANGED <<maxPayload, symbolLength>>
    BY <1>8 DEF SendSucceeds, SendFails, config
  <2> QED
    BY <1>8, <2>1, SendSucceedsPicks, SendFailsPicks DEF PicksInv
<1> QED
  BY <1>2, <1>3, <1>4, <1>5, <1>6, <1>7, <1>8 DEF Next, ApplicationCalls, Handlers

AllPicksInv == PicksInv(Toi)

LEMMA InitPicks ==
  ASSUME Init, NEW tois
  PROVE  PicksInv(tois)
  BY DEF Init, PicksInv, AllFill, AllPicksCarried

LEMMA FixedTunnelSteps == FixedTunnelSpec => Spec
<1>1. [ErrorFreeNext /\ StaysUnlimited /\ tunnelled' = tunnelled]_vars => [Next]_vars
  BY DEF ErrorFreeNext, Next
<1> QED
  BY <1>1, PTL DEF FixedTunnelSpec, InitUnlimited, Spec

\* Every symbol get_next_symbols hands out is in the packet it is handed out for, so that
\* what is marked complete was sent, for any file, FDT and MTU, when the tunnel stays as the
\* constructor found it and no description asks for symbols that do not fill a payload:
\* the 4 bytes that get_next_symbols takes off once more never cost a symbol.
THEOREM PicksAreCarried ==
  ASSUME AlignedLengths
  PROVE  FixedTunnelSpec => []PickedSymbolsFit
<1>1. Init => AllPicksInv
  BY InitPicks DEF AllPicksInv
<1>2. TypeInv /\ AllPicksInv /\ [ErrorFreeNext /\ StaysUnlimited /\ tunnelled' = tunnelled]_vars
        => AllPicksInv'
  <2> SUFFICES ASSUME TypeInv, AllPicksInv,
                      [ErrorFreeNext /\ StaysUnlimited /\ tunnelled' = tunnelled]_vars
               PROVE  AllPicksInv'
    OBVIOUS
  <2>1. TunnelStays /\ [Next]_vars
    BY DEF vars, config, TunnelStays, ErrorFreeNext, Next
  <2>2. Aligned(Toi) /\ PicksInv(Toi)
    BY DEF Aligned, AllPicksInv
  <2>3. PicksInv(Toi)'
    BY <2>1, <2>2, StepPicks
  <2> QED
    BY <2>3 DEF AllPicksInv
<1>3. TypeInv /\ AllPicksInv => PickedSymbolsFit
  <2> SUFFICES ASSUME TypeInv, AllPicksInv, NEW k \in DOMAIN inflight
               PROVE  inflight[k].carried = inflight[k].picked
    BY DEF PickedSymbolsFit
  <2>1. inflight[k].file \in FileId /\ objs[inflight[k].file] # None
    BY PacketsInFlight DEF TypeInv, Heap
  <2>2. objs[inflight[k].file] \in FileObject
    BY <2>1 DEF TypeInv, TypeOK
  <2>3. objs[inflight[k].file].toi \in Toi
    BY <2>2, TableAssumption DEF FileObject, FileOf, Toi
  <2> QED
    BY <2>1, <2>3 DEF AllPicksInv, PicksInv, AllPicksCarried
<1> QED
  BY <1>1, <1>2, <1>3, FixedTunnelSteps, TypeInvariant, PTL DEF FixedTunnelSpec, InitUnlimited
================================================================================
