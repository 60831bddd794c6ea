------------------------------- MODULE Transmitter -----------------------------
(***************************************************************************)
(* The FLUTE transmitter: its queue of files, its File Delivery Table, the *)
(* loop that hands packets to the socket and the timer that repeats the    *)
(* FDT, all run by one io_context thread, with the calls an application    *)
(* makes between two handlers or from a completion callback (the callback  *)
(* is the last thing its handler does, so a call made there is a call made *)
(* right after the handler).                                               *)
(*                                                                         *)
(* File objects are shared by reference: the queue holds one per TOI and   *)
(* every packet in flight holds the object it was cut from, which lives    *)
(* until nothing refers to it.  `files' and `inflight' name objects by     *)
(* identity and `objs' is the heap they point into.                        *)
(***************************************************************************)
EXTENDS FileDeliveryTable, File, Sequences, FiniteSetsExt

CONSTANTS
  FileId,             \* identities of File objects
  None,               \* no object, no entry, no table
  Desc,               \* the application's file descriptions
  Length,             \* bytes of each content in Data
  SymbolLengthOf,     \* symbol length a description asks for, 0 if it leaves the default
  Mtu,                \* path MTU
  FdtBase, FdtPerEntry, \* bytes of an FDT document: without entries, and per entry
  MaxInstance,        \* bound on FDT instances, and so on sends and completions
  MaxLoops,           \* bound on send_next_packet handlers queued at once
  MaxTicks,           \* bound on expired FDT ticks queued at once
  MaxInflight         \* bound on packets the socket has not taken yet

\* Header bytes of an IP packet that carries UDP.
IpUdp == 20 + 8
\* ALC header bytes, with EXT_FDT and EXT_FTI for a packet of the FDT.
AlcHeader(toi) == IF toi = 0 THEN 32 ELSE 12
FecPayloadId == 4

\* What a tunnel takes from each packet.
TunnelOverhead(tunnelled) == IF tunnelled THEN IpUdp ELSE 0

MaxPayload(tunnelled) == Mtu - IpUdp - AlcHeader(0) - FecPayloadId - TunnelOverhead(tunnelled)

ASSUME TransmitterAssumption ==
  /\ Length \in [Data -> Nat]
  /\ SymbolLengthOf \in [Desc -> Nat]
  /\ Mtu \in Nat /\ MaxPayload(TRUE) > 4
  /\ FdtBase \in Nat \ {0} /\ FdtPerEntry \in Nat
  /\ MaxInstance \in Nat \ {0} /\ MaxInstance < InstanceIdModulus
  /\ MaxLoops \in Nat /\ MaxTicks \in Nat /\ MaxInflight \in Nat

Toi == 0..ToiMax   \* 0 is the FDT's

\* A File object: of a file, with its entry, or of an FDT document, with its table.
FileOf(tois, entries, tables) ==
  [toi : tois, entry : entries, instance : Nat, table : tables,
   length : Nat, symbolLength : Nat \ {0}, symbols : Seq(SymbolState)]

FileObject == FileOf(1..ToiMax, Entry, {None}) \cup FileOf({0}, {None}, Bags)

ASSUME NoneAssumption == None \notin FileId /\ None \notin FileObject

VARIABLES
  active,     \* _active
  rateLimited,\* _rate_limit # 0
  tunnelled,  \* _tunnel_endpoint is set
  maxPayload, \* _max_payload
  symbolLength, \* _fec_oti.encoding_symbol_length
  files,      \* _files, a File object or None for each TOI
  objs,       \* the File objects that something refers to
  fdt,        \* *_fdt
  nextToi,    \* _toi
  inflight,   \* packets given to async_send_to, oldest first
  ready,      \* send_next_packet handlers the io_context will run
  waiting,    \* what the pending wait on _send_timer is for: "none", "idle" or "rate"
  fdtWaiting, \* a wait on _fdt_timer is pending
  fdtReady,   \* fdt_send_tick handlers of expired waits the io_context will run
  desc,       \* the application's descriptions: the TOI, contents and metadata in each
  aired       \* history: the FDT instances sent whole

loop  == <<ready, waiting>>
fdtTimer == <<fdtWaiting, fdtReady>>
queue == <<files, objs, fdt>>
config == <<rateLimited, tunnelled, maxPayload, symbolLength>>
vars  == <<active, config, queue, nextToi, inflight, loop, fdtTimer, desc, aired>>

Packet == [file : FileId, picked : SUBSET Nat, carried : SUBSET Nat, tunnelled : BOOLEAN]

Description == [toi : Toi, data : Data, meta : Meta]

TypeOK ==
  /\ active \in BOOLEAN /\ rateLimited \in BOOLEAN /\ tunnelled \in BOOLEAN
  /\ maxPayload \in Nat /\ symbolLength \in Nat \ {0}
  /\ files \in [Toi -> FileId \cup {None}]
  /\ objs \in [FileId -> FileObject \cup {None}]
  /\ fdt \in Table
  /\ nextToi \in 1..ToiMax
  /\ inflight \in Seq(Packet)
  /\ ready \in Nat /\ waiting \in {"none", "idle", "rate"}
  /\ fdtWaiting \in BOOLEAN /\ fdtReady \in Nat
  /\ desc \in [Desc -> Description]
  /\ aired \subseteq [instance : Nat, table : Bags]

-----------------------------------------------------------------------------
(* File objects and their references *)

\* An identity no object has.
Fresh(os) == CHOOSE id \in FileId : os[id] = None

\* A bound, for the heap has no such limit: identities are left for the objects
\* a step makes, one for an FDT, two for a file and an FDT.
RoomForOne == \E i \in FileId : objs[i] = None
RoomForTwo == \E i, j \in FileId : i # j /\ objs[i] = None /\ objs[j] = None

Referenced(id, fs, infl) ==
  \/ \E toi \in Toi : fs[toi] = id
  \/ \E k \in DOMAIN infl : infl[k].file = id

\* What is left of the heap once the unreferenced objects are destroyed.
Live(os, fs, infl) ==
  [id \in FileId |-> IF Referenced(id, fs, infl) THEN os[id] ELSE None]

DataFile(entry, symLen) ==
  [toi |-> entry.toi, entry |-> entry, instance |-> 0, table |-> None,
   length |-> Length[entry.data], symbolLength |-> symLen,
   symbols |-> FreshSymbols(Length[entry.data], symLen)]

\* Bytes of the document for a table.
FdtLength(entries) == FdtBase + FdtPerEntry * Cardinality(Occurrences(entries))

FdtFile(table) ==
  [toi |-> 0, entry |-> None, instance |-> FdtInstanceId(table.instance),
   table |-> table.entries,
   length |-> FdtLength(table.entries), symbolLength |-> symbolLength,
   symbols |-> FreshSymbols(FdtLength(table.entries), symbolLength)]

\* An FDT instance, as a receiver comes to know it.
InstanceOf(file) == [instance |-> file.instance, table |-> file.table]

-----------------------------------------------------------------------------
(* send_fdt, the tail of every change of the queue *)

\* Queues a document of `table' in place of the one queued before, sent or not,
\* and marks the instance sent; with no entries nothing is queued.
SendFdt(table, fs, os, infl) ==
  IF table.entries = NoEntries
  THEN /\ fdt' = table
       /\ files' = fs
       /\ objs' = Live(os, fs, infl)
  ELSE LET id  == Fresh(os)
           fs2 == [fs EXCEPT ![0] = id]
       IN /\ fdt' = Sent(table)
          /\ files' = fs2
          /\ objs' = Live([os EXCEPT ![id] = FdtFile(table)], fs2, infl)

-----------------------------------------------------------------------------
(* Calls of the application *)

\* (Mutant: the wrap is not clamped.)
AfterToiUnclamped(toi) == (toi + 1) % (ToiMax + 1)

\* The next value of _toi, which wraps to 1.
AfterToi(toi) == IF toi = ToiMax THEN 1 ELSE toi + 1

Queued == {toi \in 1..ToiMax : files[toi] # None}

\* A bound: the session has instances left for this call, for the completion of its
\* file and for those of the files queued.
RoomToSend == fdt.instance + Cardinality(Queued) + 2 <= MaxInstance

\* (Mutant: a queued file is replaced.)
EnqueueReplacing(entry, symLen) ==
  LET id == Fresh(objs)
  IN SendFdt(Add(fdt, entry), [files EXCEPT ![entry.toi] = id],
             [objs EXCEPT ![id] = DataFile(entry, symLen)], inflight)

\* The new object enters the map unless the TOI is there already; its entry
\* enters the table in any case.
Enqueue(entry, symLen) ==
  LET id  == Fresh(objs)
      new == files[entry.toi] = None
      fs  == IF new THEN [files EXCEPT ![entry.toi] = id] ELSE files
      os  == IF new THEN [objs EXCEPT ![id] = DataFile(entry, symLen)] ELSE objs
  IN SendFdt(Add(fdt, entry), fs, os, inflight)

\* The description keeps the symbol length it asks for, or takes the transmitter's.
MergedSymbolLength(d) == IF SymbolLengthOf[d] = 0 THEN symbolLength ELSE SymbolLengthOf[d]

\* send(FileDescription): the description keeps the TOI of its first use.
Send(d) ==
  /\ RoomToSend /\ RoomForTwo
  /\ LET toi == IF desc[d].toi = 0 THEN nextToi ELSE desc[d].toi
     IN /\ desc' = [desc EXCEPT ![d].toi = toi]
        /\ nextToi' = IF desc[d].toi = 0 THEN AfterToi(nextToi) ELSE nextToi
        /\ Enqueue([desc[d] EXCEPT !.toi = toi], MergedSymbolLength(d))
  /\ UNCHANGED <<active, config, inflight, loop, fdtTimer, aired>>

\* The deprecated send(data): every call takes a TOI.
SendBuffer(data, meta) ==
  /\ RoomToSend /\ RoomForTwo
  /\ nextToi' = AfterToi(nextToi)
  /\ Enqueue([toi |-> nextToi, data |-> data, meta |-> meta], symbolLength)
  /\ UNCHANGED <<active, config, inflight, loop, fdtTimer, desc, aired>>

\* set_content: other contents lose the TOI.
SetContent(d, data) ==
  /\ data # desc[d].data
  /\ desc' = [desc EXCEPT ![d].data = data, ![d].toi = 0]
  /\ UNCHANGED <<active, config, queue, nextToi, inflight, loop, fdtTimer, aired>>

\* set_content_location, set_content_type, set_expiry_time, set_etag keep it.
SetMetadata(d, meta) ==
  /\ meta # desc[d].meta
  /\ desc' = [desc EXCEPT ![d].meta = meta]
  /\ UNCHANGED <<active, config, queue, nextToi, inflight, loop, fdtTimer, aired>>

SetRateLimit ==
  /\ rateLimited' = ~rateLimited
  /\ UNCHANGED <<active, tunnelled, maxPayload, symbolLength, queue, nextToi, inflight,
                 loop, fdtTimer, desc, aired>>

\* (Mutant: the payload is not resized.)
SetTunnelOnly ==
  /\ tunnelled' = ~tunnelled
  /\ UNCHANGED <<active, rateLimited, maxPayload, symbolLength, queue, nextToi, inflight,
                 loop, fdtTimer, desc, aired>>

\* udp_tunnel_address that sets or removes the tunnel.
SetTunnel ==
  /\ tunnelled' = ~tunnelled
  /\ maxPayload' = IF tunnelled THEN maxPayload + IpUdp ELSE maxPayload - IpUdp
  /\ UNCHANGED <<active, rateLimited, symbolLength, queue, nextToi, inflight, loop,
                 fdtTimer, desc, aired>>

-----------------------------------------------------------------------------
(* send_next_packet *)

Incomplete == {toi \in Toi : files[toi] # None /\ ~Complete(objs[files[toi]])}

\* The packet cut from the object `id': the symbols handed out, those of them it
\* carries, and whether it is wrapped for the tunnel.
PacketOf(id) ==
  LET picked == NextSymbols(objs[id], maxPayload)
  IN [file |-> id, picked |-> picked, carried |-> Carried(objs[id], picked, maxPayload),
      tunnelled |-> tunnelled]

\* The length of the IP packet that leaves.
IpLength(packet) ==
  LET file == objs[packet.file]
  IN IpUdp + AlcHeader(file.toi) + FecPayloadId + PayloadLength(file, packet.carried)
       + TunnelOverhead(packet.tunnelled)

\* Re-arming the timer cancels a wait that is still pending, whose handler then
\* runs all the same: it does not look at the error it is passed.
Rearm(r, w, why) ==
  /\ ready' = IF w = "none" THEN r ELSE r + 1
  /\ waiting' = why

\* (Mutant: the loop ends when there is nothing to send.)
SendNothingAndEnd(r, w) ==
  /\ ready' = r
  /\ UNCHANGED <<waiting, objs, inflight>>

\* Nothing to send: look again in 10 ms.
SendNothing(r, w) ==
  /\ Rearm(r, w, "idle")
  /\ UNCHANGED <<objs, inflight>>

\* (Mutant: the next call is posted under a rate limit too.)
SendPacketUnpaced(id, r, w) ==
  /\ objs' = [objs EXCEPT ![id] = MarkQueued(@, NextSymbols(@, maxPayload))]
  /\ inflight' = Append(inflight, PacketOf(id))
  /\ IF rateLimited THEN Rearm(r + 1, w, "rate") ELSE ready' = r + 1 /\ waiting' = w

\* A packet of the first incomplete file; the next at once, or when the rate allows.
SendPacket(id, r, w) ==
  /\ objs' = [objs EXCEPT ![id] = MarkQueued(@, NextSymbols(@, maxPayload))]
  /\ inflight' = Append(inflight, PacketOf(id))
  /\ IF rateLimited THEN Rearm(r, w, "rate") ELSE ready' = r + 1 /\ waiting' = w

\* (Mutant: the file with the highest TOI comes first.)
SendHighestToi(r, w) ==
  IF Incomplete = {} THEN SendNothing(r, w)
  ELSE LET id == files[Max(Incomplete)]
       IN IF NextSymbols(objs[id], maxPayload) = {}
          THEN SendNothing(r, w)
          ELSE SendPacket(id, r, w)

\* The body of the function while active, with r handlers queued and w the wait.
SendNextPacket(r, w) ==
  IF Incomplete = {} THEN SendNothing(r, w)
  ELSE LET id == files[Min(Incomplete)]
       IN IF NextSymbols(objs[id], maxPayload) = {}
          THEN SendNothing(r, w)
          ELSE SendPacket(id, r, w)

\* One of the queued handlers runs.
RunSendNextPacket ==
  /\ ready > 0
  /\ Len(inflight) < MaxInflight
  /\ IF active THEN SendNextPacket(ready - 1, waiting)
     ELSE /\ ready' = ready - 1
          /\ UNCHANGED <<objs, inflight, waiting>>
  /\ UNCHANGED <<active, config, files, fdt, nextToi, fdtTimer, desc, aired>>

\* The send timer expires and its handler is queued.
SendTimerExpires ==
  /\ waiting # "none"
  /\ ready' = ready + 1
  /\ waiting' = "none"
  /\ UNCHANGED <<active, config, queue, nextToi, inflight, fdtTimer, desc, aired>>

-----------------------------------------------------------------------------
(* Completion of a send *)

\* The file leaves the map, whichever object is there under its TOI.  A file's
\* entries leave the table, which is sent anew; the FDT's own completion ends here.
FileTransmitted(toi, os, infl) ==
  LET fs == [files EXCEPT ![toi] = None]
  IN IF toi = 0
     THEN /\ files' = fs
          /\ objs' = Live(os, fs, infl)
          /\ UNCHANGED fdt
     ELSE SendFdt(Remove(fdt, toi), fs, os, infl)

\* The oldest packet was taken by the socket.
SendSucceeds ==
  /\ inflight # <<>>
  /\ RoomForOne
  /\ LET packet == Head(inflight)
         rest == Tail(inflight)
         file == MarkCompleted(objs[packet.file], packet.picked, packet.carried)
         os   == [objs EXCEPT ![packet.file] = file]
     IN /\ inflight' = rest
        /\ IF Complete(file)
           THEN FileTransmitted(file.toi, os, rest)
           ELSE /\ objs' = Live(os, files, rest)
                /\ UNCHANGED <<files, fdt>>
        /\ aired' = IF file.toi = 0 /\ FullyCarried(file)
                    THEN aired \cup {InstanceOf(file)}
                    ELSE aired
  /\ UNCHANGED <<active, config, nextToi, loop, fdtTimer, desc>>

\* The socket refused it: logged, and its symbols stay queued.
SendFails ==
  /\ inflight # <<>>
  /\ inflight' = Tail(inflight)
  /\ objs' = Live(objs, files, Tail(inflight))
  /\ UNCHANGED <<active, config, files, fdt, nextToi, loop, fdtTimer, desc, aired>>

-----------------------------------------------------------------------------
(* The FDT repeat timer *)

FdtTimerExpires ==
  /\ fdtWaiting
  /\ fdtReady < MaxTicks
  /\ fdtWaiting' = FALSE
  /\ fdtReady' = fdtReady + 1
  /\ UNCHANGED <<active, config, queue, nextToi, inflight, loop, desc, aired>>

\* (Mutant: the timer is restarted only if there was a table to send.)
FdtSendTickOnce ==
  /\ fdtReady > 0
  /\ RoomForOne
  /\ fdtReady' = fdtReady - 1
  /\ IF active /\ fdt.entries # NoEntries
     THEN /\ SendFdt(fdt, files, objs, inflight)
          /\ fdtWaiting' = TRUE
     ELSE UNCHANGED <<queue, fdtWaiting>>
  /\ UNCHANGED <<active, config, nextToi, inflight, loop, desc, aired>>

\* The handler of an expired wait.  (That of a cancelled wait does nothing.)
FdtSendTick ==
  /\ fdtReady > 0
  /\ RoomForOne
  /\ fdtReady' = fdtReady - 1
  /\ IF active
     THEN /\ SendFdt(fdt, files, objs, inflight)
          /\ fdtWaiting' = TRUE
     ELSE UNCHANGED <<queue, fdtWaiting>>
  /\ UNCHANGED <<active, config, nextToi, inflight, loop, desc, aired>>

-----------------------------------------------------------------------------
(* Activation *)

\* Starts the FDT timer and sends the first packet from within the call.
Activate ==
  /\ ~active
  /\ ready < MaxLoops
  /\ Len(inflight) < MaxInflight
  /\ active' = TRUE
  /\ fdtWaiting' = TRUE
  /\ SendNextPacket(ready, waiting)
  /\ UNCHANGED <<config, files, fdt, nextToi, fdtReady, desc, aired>>

\* (Mutant: the send timer is left alone.)
DeactivateOnly ==
  /\ active
  /\ active' = FALSE
  /\ fdtWaiting' = FALSE
  /\ UNCHANGED <<config, queue, nextToi, inflight, loop, fdtReady, desc, aired>>

\* Cancels both waits.  The send timer's handler will still run, the FDT timer's
\* returns at once; handlers already queued are out of the cancellation's reach.
Deactivate ==
  /\ active
  /\ active' = FALSE
  /\ Rearm(ready, waiting, "none")
  /\ fdtWaiting' = FALSE
  /\ UNCHANGED <<config, queue, nextToi, inflight, fdtReady, desc, aired>>

-----------------------------------------------------------------------------
(* The specification *)

\* The constructor: a transmitter that starts active has its FDT timer started
\* and has found nothing to send.
Init ==
  /\ active \in BOOLEAN
  /\ rateLimited \in BOOLEAN
  /\ tunnelled \in BOOLEAN
  /\ maxPayload = MaxPayload(tunnelled)
  /\ symbolLength = maxPayload
  /\ files = [toi \in Toi |-> None]
  /\ objs = [id \in FileId |-> None]
  /\ fdt = NewTable
  /\ nextToi = 1
  /\ inflight = <<>>
  /\ ready = 0
  /\ waiting = IF active THEN "idle" ELSE "none"
  /\ fdtWaiting = active
  /\ fdtReady = 0
  /\ desc \in [Desc -> [toi : {0}, data : Data, meta : Meta]]
  /\ aired = {}

\* What the application may call.
ApplicationCalls ==
  \/ \E d \in Desc : Send(d)
  \/ \E data \in Data, meta \in Meta : SendBuffer(data, meta)
  \/ \E d \in Desc, data \in Data : SetContent(d, data)
  \/ \E d \in Desc, meta \in Meta : SetMetadata(d, meta)
  \/ SetRateLimit
  \/ SetTunnel
  \/ Activate
  \/ Deactivate

\* What the io_context runs.
Handlers ==
  \/ RunSendNextPacket
  \/ SendTimerExpires
  \/ SendSucceeds
  \/ FdtTimerExpires
  \/ FdtSendTick

Next == ApplicationCalls \/ Handlers \/ SendFails

Spec == Init /\ [][Next]_vars

-----------------------------------------------------------------------------
(* Safety, whatever the application calls and the socket answers *)

\* The table lists exactly the files in the queue, through sends, resends, reused
\* TOIs and completions: what it announces is what is being sent.
FdtMatchesQueue ==
  \A toi \in 1..ToiMax : toi \in Listed(fdt.entries) <=> files[toi] # None

\* The FDT instances that were sent or still may be.
FdtObjects(os) == {id \in FileId : os[id] # None /\ os[id].toi = 0}

Instances == aired \cup {InstanceOf(objs[id]) : id \in FdtObjects(objs)}

\* Two FDT documents under one instance id list the same files, at any distance in
\* time: a receiver that has an instance may ignore later packets of it.
InstanceIdentifiesTable ==
  \A a, b \in Instances : a.instance = b.instance => a.table = b.table

\* A packet of a file in flight is of the object queued under the file's TOI: its
\* completion takes that file, and no other, off the queue.  (For the FDT this fails.)
InFlightFileIsQueued ==
  \A k \in DOMAIN inflight :
    LET toi == objs[inflight[k].file].toi
    IN toi # 0 => files[toi] = inflight[k].file

\* No symbol is in two packets in flight, and one in flight is neither complete nor
\* free to be picked again, even with two send loops running.
InFlightSymbolsAreQueued ==
  \A k \in DOMAIN inflight :
    /\ \A i \in inflight[k].picked : objs[inflight[k].file].symbols[i] = "queued"
    /\ \A l \in DOMAIN inflight :
         l # k /\ inflight[l].file = inflight[k].file
           => inflight[l].picked \cap inflight[k].picked = {}

\* Every packet fits the path MTU, whenever the tunnel was set or removed.
PacketsFitMtu == \A k \in DOMAIN inflight : IpLength(inflight[k]) <= Mtu

\* Every symbol get_next_symbols hands out is carried by its packet: what is marked
\* complete was sent.
PickedSymbolsFit == \A k \in DOMAIN inflight : inflight[k].carried = inflight[k].picked

\* The symbols of a queued file that are neither sent nor free to be picked are in
\* flight, each in some packet: none is waited for that nobody will report.
QueuedSymbolsAreInFlight ==
  \A toi \in Toi : files[toi] # None =>
    \A i \in DOMAIN objs[files[toi]].symbols :
      objs[files[toi]].symbols[i] = "queued" =>
        \E k \in DOMAIN inflight : inflight[k].file = files[toi] /\ i \in inflight[k].picked

\* The entry of each queued file is in the table, when its description is changed and sent
\* again meanwhile, or its TOI comes up again: what is sent under a TOI is announced as it
\* is, whatever else is announced under it.
QueuedFileIsListed ==
  \A toi \in 1..ToiMax : files[toi] # None => fdt.entries[objs[files[toi]].entry] > 0

\* An active transmitter has a send_next_packet to come, after any number of
\* activations, deactivations, expiries and cancellations in any order.
SendLoopAlive == active => ready > 0 \/ waiting # "none"

\* And so for the repetition of the FDT.
FdtTimerAlive == active => fdtWaiting \/ fdtReady > 0

\* No more than one chain of send_next_packet calls re-arms itself.
SingleSendLoop == ready + (IF waiting = "none" THEN 0 ELSE 1) <= 1

-----------------------------------------------------------------------------
(* What a step may never do *)

PacketLeaves == Len(inflight') > Len(inflight)

\* Under a rate limit a packet leaves only once the wait that the packet before it
\* earned has ended: the limiter is not outrun.
PacketsArePaced == [][PacketLeaves /\ rateLimited => waiting # "rate"]_vars

Transmitted(toi) == files[toi] # None /\ files'[toi] = None

\* By the time a file's transmission ends, an FDT with its entry has been sent whole.
FileAnnouncedWhenTransmitted ==
  [][\A toi \in 1..ToiMax : Transmitted(toi) =>
       \E a \in aired : a.table[objs[files[toi]].entry] > 0]_vars
================================================================================
