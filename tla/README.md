# rt-libflute in TLA+

rt-libflute sends and receives files over multicast UDP with FLUTE (RFC 3926).
This directory holds TLA+ modules that model the library, TLC configurations
that check them on small instances, and proofs that TLAPS checks for every
value of the constants.

Run in this directory: `tlc -config X.cfg M` for a run, `tlapm M.tla` for the
proofs of a module. `PROJECT.json` lists the runs, the mutants that show each
property can fail, the source lines of each definition, the findings, the
hazards of the code and the theorems.

## 1. Inventory of the system

| Component | State | Operations | Talks to |
|---|---|---|---|
| `Transmitter` (`src/src/Transmitter.cpp`) | `_files` (TOI → shared `File`, the FDT document under 0), `_fdt`, `_toi`, `_active`, `_max_payload`, `_fec_oti`, `_rate_limit`, `_tunnel_endpoint`, two `deadline_timer`s | both `send`s, `send_next_packet`, its completion handler, `file_transmitted`, `send_fdt`, `fdt_send_tick`, `activate`, `deactivate`, setters | the socket and timers through the io_context; the application through the completion callback |
| `FileDescription` (same file) | entry (TOI, metadata, FEC parameters), contents in memory or in a mapped local file, their length and MD5, compression, TSI | `set_content`, `set_*`, copies and assignment, `merge_fec_oti` | kept and changed by the application, given its TOI and TSI by `send` |
| `FileDeliveryTable` | `_instance_id`, `_instance_id_sent`, `_file_entries` | `add`, `remove`, `sent`, `to_string`, the parsing constructor | Transmitter, Receiver |
| `File` | source blocks of symbols with flags `complete` and `queued`, `_complete`, the contents, the instance id | both: partitioning, `check_file_completion`, `encode`, `decode`; sender: `get_next_symbols`, `mark_completed`; receiver: `put_symbol` | shared by the queue and by each packet in flight |
| `EncodingSymbol`, `AlcPacket` | – | `to_payload`, `from_payload`, `decode_to`, building and parsing of a packet | File, Transmitter, Receiver |
| `Receiver` | `_files`, `_fdt`, `_running` | `handle_receive_from`, `remove_expired_files`, `remove_file_with_content_location`, `stop` | the socket, the application's callback under a mutex |
| `IpSec`, `base64`, examples | none | netlink requests, conversions, command lines | – |

**How they interact.** `send` puts a File in the queue, adds its entry to the
table and puts a new FDT document in the queue under TOI 0 in place of the one
there. `send_next_packet` takes the first incomplete file in TOI order, picks
symbols that fit a packet, hands the packet to the socket and re-arms itself:
by a post, or by a timer when there is a rate limit or nothing to send. The
socket's completion handler marks the symbols and, when the file is complete,
takes it off the queue and the table, sends the FDT anew and calls the
application. Every 5 seconds the FDT is queued again. Packets reach receivers
in any order or not at all; a receiver assembles an FDT document, starts a File
for each entry and hands over each File that becomes complete.

**What is hard.** The order of handlers and of cancelled waits; replacing the
FDT document while its packets are in flight; `activate` right after
`deactivate`; a send that fails; sends and resends of a description whose file
is queued; descriptions that are copied, changed and used with two
transmitters; TOIs that wrap; a tunnel set when files are already cut into
symbols; files behind an FDT that is always first; calls from another thread;
on the network loss, repetition and order; two FDT instances mixed; a file
replaced under its TOI or its location; a sender that restarts.

**What makes each component correct.**

- Transmitter: the table lists what is queued; a completion takes off the queue
  the file it is about; each file is announced before it is gone; every queued
  file is transmitted; an active transmitter keeps sending and keeps repeating
  the FDT, in one chain of calls, at the rate set; packets fit the MTU.
- FileDescription: a TOI of a session never comes to name other contents; what
  is announced of the contents is true of them.
- FileDeliveryTable: an instance id names one table; a receiver reads the
  entries the sender wrote.
- File: symbols are sent once, all of them, and what is complete was sent;
  blocks divide the symbols; a file all of whose symbols came is complete.
- Receiver: a file handed over is one the sender sent, and is handed over once;
  the FDT in use is one the sender sent; no listed file is forgotten; a session
  goes on after any packet.
- AlcPacket, EncodingSymbol: what is parsed is what was built.

## 2. The modules

```
Transmitter  EXTENDS FileDeliveryTable, File
  MCTransmitter -> MCTransmitterLive, MCOffers       runs about the queue
FluteSender  EXTENDS FileDeliveryTable               implemented by Transmitter
Receiver     EXTENDS FileDeliveryTable, Partitioning
FluteSession EXTENDS FluteSender, Receiver           implements FileDelivery
  MCSession                                          runs about the session
FileDescription EXTENDS FdtDocument
  MCDescription                                      runs about descriptions
Wire         EXTENDS FileDescription, AlcPacket, Partitioning
  MCWire (with MCDescription)                        the run about the wire
*Proofs      the proofs about the module they are named for
```

The two halves meet in `FluteSender`: `Transmitter` is shown to implement it,
and `FluteSession` puts receivers and a network behind it. So what is found of
the session holds of any behaviour of the transmitter, without the product of
the two state spaces.

### FileDeliveryTable

The sender's table as a record: `instance`, `sent` and `entries`. The vector of
entries is a bag, since nothing the sender does depends on their order, and two
equal entries may be there (a resend). An entry's contents and its metadata
(location, type, expiry, etag) are one value each. `Add` and `Remove` take a new
instance id if the last one was handed over, `Remove` even if it removed nothing.

### File

The sender's File. Symbols are numbered through all source blocks, in the order
the code's maps are walked. `pending`, `queued` and `sent` are the flags'
combinations; `swallowed` is the code's *complete* for a symbol that
`to_payload` had no room for, a difference the code does not keep and
`PickedSymbolsFit` is about. `NextSymbols` is `get_next_symbols`, `Carried` the
part of it that `to_payload` writes, `MarkCompleted` is `mark_completed`. Blocks
show in nothing the sender decides (a block is skipped exactly when none of its
symbols is open), so they are left out here and modelled in `Partitioning`. The
MD5 check of `check_file_completion` always succeeds here, which is right as
long as the contents are those the MD5 was taken of: `DescribesWhatWasSet` is
about that, and the run Refill shows when they are not.

### Transmitter

One io_context thread, so each handler and each call of the application is one
step; a call made in the completion callback, which its handler ends with, is a
call made right after that handler. File objects are shared by reference:
`objs` is the heap, `files` and `inflight` hold identities, and `Live` drops
what nothing refers to, as `shared_ptr` does.

| Model | Code |
|---|---|
| `Send`, `SendBuffer` | the two `send`s, with `merge_fec_oti`, the insertion that keeps a queued object, `add` and `send_fdt` |
| `SetContent`, `SetMetadata` | the description's setters, as far as the queue sees them: other contents lose the TOI |
| `SetRateLimit`, `SetTunnel` | `rate_limit`, `udp_tunnel_address` |
| `RunSendNextPacket` | one queued call of `send_next_packet` |
| `SendTimerExpires` | the wait on `_send_timer` ends and its handler is queued |
| `SendSucceeds`, `SendFails` | the completion handler of the oldest packet, with `file_transmitted` |
| `FdtTimerExpires`, `FdtSendTick` | the wait on `_fdt_timer` ends; `fdt_send_tick` |
| `Activate`, `Deactivate` | the same |

`ready` counts queued calls of `send_next_packet`. Boost runs the handler of a
cancelled wait with an error; `send_next_packet` takes no error and runs, so a
cancellation (by `cancel` or by `expires_from_now`) moves the wait to `ready`
(`Rearm`). `fdt_send_tick` does look, so a cancelled wait of the FDT timer is
just gone, but a tick queued before the cancellation still runs. `aired` is
history: the FDT instances each of whose symbols was sent.

Abstracted: addresses, the bytes of headers and contents, expiry times, logging;
the FDT document is its length, which grows with its entries. A tunnel is there
or not.

Bounds, each in a guard: `MaxInstance` (FDT instances; `RoomToSend` lets the
application send only if instances are left for every completion to come, so
that the bound never stops a handler), `MaxLoops`, `MaxTicks`, `MaxInflight`
(packets the socket has not reported), and the number of `FileId`s.

`MCTransmitter` has values for TLC and the conditions under which runs look at
the transmitter, `MCTransmitterLive` the fairness and timing of the liveness run.

### FluteSender, MCOffers

What a transmitter promises to receivers: an FDT document is made whenever the
table changes, under the next instance id, unless the table is empty; a File
object is made of an entry only when none is queued under its TOI. `MCOffers`
records the documents and objects of `Transmitter` and maps `table` to the
entries of `fdt` and `instance` to `fdt.sent`. The refinement is the property
`OffersAreSent`: repeats of the FDT, failed sends, the loop and the timers are
stutters, and in particular the completion of a packet of a replaced document
makes nothing that receivers could be misled by.

### Partitioning

`calculate_partitioning` and `create_blocks` as closed formulas: number of
symbols, number, length and place of the blocks, and the number of the symbol
that a block and a symbol id on the wire name (`DividedSymbols`). The two nested
loops of `create_blocks`, which know only the bytes left, are `Reached`: where
they are before each symbol, as a recursive function. `CreatedSymbols` is what
they make.

### Receiver

A File of the receiver is its blocks of cells. A cell is `Open` or remembers the
piece (contents and symbol number) written to it; two contents differ in every
piece, so that the MD5 check finds a file as it should be exactly when each cell
has its own piece of the contents its entry names. `Blank` is a symbol that is
marked complete though `decode_to` wrote nothing, as it does when the length
that `from_payload` gives a symbol is more than its room.

One action for each way through `handle_receive_from`: `Discard` (nothing is
being received under the TOI, or it is complete), `RefuseSymbols` (`put_symbol`
throws), `KeepSymbols`, and for a packet that completes its file `FailDecode`,
`KeepComplete` (no callback), `HandOver` and `TakeFdt`. The library throws
string literals, which no clause catches, so a throw ends the receiver (`status`
= "threw"). `PutSymbols` puts a packet's symbols one by one, as the code does:
the MD5 check may open all cells again in the midst of a packet. `TakeFdt` picks
what the buffer parses as: the document it holds, or, if it holds pieces of
several, a mixture of their entries or none. A document that does not parse ends the
receiver, unless it is the number in `Expires` that does not: `std::stoull` throws a
`std::exception`, which `handle_receive_from` catches, and the document stays in the
list, complete, so that no FDT is read any more. `WithoutReplaced` drops the
other files with the location of the complete one. Calls: `RegisterCallback`,
`Stop`, `RemoveExpired` of any files that are not the bootstrap's (time is
abstracted), `RemoveLocation`; `ReceiveFails` is an error of the socket.

### FluteSession, FileDelivery, MCSession

A sender, a receiver and the network. `OnAir` is every packet that can be cut
from a document or a file object the sender ever made, with its source block
number and symbol id computed as the sender does. Any of them may arrive at any
time, any number of times or never: loss, repetition and reordering need no
state. `Restart` puts the sender's table and counters back to their start while
the packets it sent stay on the air. `FileDelivery` is the promise to the
application at the other end: it is handed only files that were sent, contents
and metadata together. `FilesDelivered` states that the session implements it,
`sent` mapped to what documents list, `received` to what the callback was given.

`MCSession` adds records that properties speak of (what was handed over or
removed since the FDT in use was taken, which symbols came since a file was
started) and the conditions on what is sent.

### FdtDocument, AlcPacket

`FdtDocument` has the FDT as XML elements with namespaces and attributes:
`to_string` (which attributes are written, the MBMS extensions, FEC parameters
equal to the FDT's left out) and the parsing constructor (the namespaces it
takes, the prefixes it looks for, attributes with and without a prefix, defaults,
numbers cut to their width, what it throws at). An element's attributes are a set
of names with values, since the reader looks them up by name; its child elements
are a sequence. `AlcPacket` has the header as its flags, fields and extensions
with their widths, built and parsed, the extensions in their order (`ReadAll`).

### FileDescription, MCDescription, Wire

Descriptions with their contents in areas of memory or local files, their
length and MD5 as taken when they were set, their TOI and TSI, sent with
transmitters that each have a TSI, FEC parameters and a counter of TOIs. Each
setter has its early returns; `SetContentFileFails` is the exception of a file
that cannot be opened. `asked` is what the application last set, `objectOf` what
was first sent under each TOI of each session. `Wire` takes what descriptions
can become through the wire: entry → document → entry, header → fields, length
→ blocks, and says which values fit the fields they are sent in
(`WireAssumption`). `MCDescription` and `MCWire` have values for TLC.

### Proof modules

`TransmitterProofs` (types, the two timers' chains) is extended by
`QueueProofs` (queue, table and packets), and that by `InstanceProofs` (instance
ids, the refinement of `FluteSender`) and by `PacketProofs` (what packets carry,
and when), which `AnnounceProofs` (what the FDT says of files, and when)
extends. `PartitioningProofs` is extended by `SessionProofs` and by
`DescriptionProofs`, which is about `FileDescription` and `Wire`. Section 5 has
the arguments.

## 3. What the runs check and show

| Run | Shows |
|---|---|
| Transmitter | With no call, handler or outcome left out, for one file and the FDT (the bounds admit one send): both chains of handlers alive, no symbol in two packets, every packet within the MTU |
| Queue | Always active, no tunnel, no limit, a description and plain sends over two TOIs, failing sends: table and queue agree, an id names one table, a packet's file is the queued one, and `FluteSender` is implemented |
| Paced | Activation, deactivation and rate limit at any time, but activation only when the last deactivation's handlers have run: one chain, and no packet before the wait for the one before it has ended |
| FixedTunnel | Up to three sends under one TOI, which wraps, of a changed description or of plain data, while the file before is queued or not, with the tunnel as constructed and no failing send: the entry of the queued file is in the table, what is marked complete was carried, and a queued symbol is in some packet |
| Announced | A file's entry has been sent by the time the file is done, if no FDT document is queued while one is in flight |
| *Unannounced* | Without that condition, files are transmitted that no FDT announced |
| Live | Every queued file is transmitted, though packets of the FDT may be refused and the FDT comes first |
| Session | Two TOIs, each used for several files, contents of three blocks, of one symbol, and of a full symbol and a short one, plain, gzip and deflate, one restart: what is handed over was sent, once for each FDT instance; the FDT in use was sent; no listed file is forgotten; a file of whole packets is complete when its symbols are there; the receiver survives; and `FileDelivery` is implemented |
| *MixedFdt* | When an FDT document takes several packets, symbols of two instances make a table that nobody sent |
| Described | Two descriptions changed, copied, sent again, sent with two transmitters: a TOI of a session never names other contents |
| Wire | What a description says of its contents is true; its entry reaches receivers in every namespace, with the prefixes other senders use too; headers built by this sender and others are read as meant; `create_blocks` makes the blocks of the formulas, at every length |
| *Refill* | An area used again for contents of the same size keeps the MD5 and the TOI of those before |

The runs in italics are expected to be violated: each shows a disagreement of the
code with its documentation or tests, quoted under `findings`. Announced, Session
and Wire show the condition under which each of the three properties holds: no
document queued during another's flight, documents of one packet, areas left
alone while described.

**Are the bounds enough?** *Transmitter runs:* an MTU of 128 leaves 64 bytes of
payload, 36 in a tunnel; contents are one symbol (64 bytes) or two (100), an FDT
document with one entry is one symbol and with more entries two. Two packets in
flight let one be picked while another is not reported, two loops let a second
chain start. Two TOIs give two files that compete, a wrap and a reuse; three to
six FDT instances give a send, a resend, a completion and a repeat of each while
another document is in flight; six identities leave room for two files and the
documents that wait, fly and are made (Queue, where the second file is queued only
after a completion freed one, and FixedTunnel, with one TOI, have five). A TOI that
wraps onto a file still queued is in FixedTunnel; in Queue it meets one whose file
is gone, and a resend meets the queued one. *Session:* symbols of 2 bytes, blocks of
2 and packets of 2 symbols make a file of three blocks with a short last block,
packets that come in any order, and a packet with a full and a short symbol; two
documents and a restart let instance 1 name two tables; a document fits one symbol, the
condition MixedFdt drops. *Described:* two handles are needed to copy, two
transmitters to lose a TOI, two areas with contents of one size to tell a change
by the MD5 only; the transmitters have the same FEC parameters, so that they are
symmetric, as handles, areas and contents are. *Wire:* `HalfWord` is
256 in place of 65536, with values at the edge of each width; two transmitters
with symbol lengths 4 and 3, so that entries keep the parameters of the other;
lengths from 0 to that of an object, symbols of 2 bytes and blocks of at most 3 of
them, so that there are lengths with a short last symbol, with blocks of two sizes and
with one block only. What is larger, longer or more is for the proofs.

**Conditions of Session** (`PlainReuseSpec`). Encoded contents keep their TOI to
themselves: a file whose `decode` fails its MD5 check is handed over all the
same (section 6), and contents of two files can be mixed under a TOI used twice.
`TakesTois`, `Titled`, `RemovesOnce`, `EndsQuietly` and `EndsEarly` only spare
states: TOIs are taken in order, one content is sent under two names and two
TOIs and the others under the first, files are removed in one call at a time, a
receiver is stopped or loses its socket before the second document is made, and
nothing more is sent to a receiver that ended. The proofs of section 5 are of
`SessionSpec` and `MCSpec`, which have none of these conditions, but for `SessionsDeliverFiles`,
which is of `CodedSpec`: it keeps the first.

**Fairness** (`MCTransmitterLive`). Weak fairness of each kind of handler: an
io_context with a running thread runs what is queued, timers expire, sends
complete. Application calls are not fair. The FDT timer is the exception that
needs an argument: it expires every 5 seconds, and the FDT precedes every file,
so if the document took longer to send than the interval no file would ever
be sent. `quiet` states that 5 seconds suffice: since the timer last expired,
the loop had a turn at which the FDT was sent and reported. The liveness
run is for sessions where this is so, which are those that make sense. No
liveness is stated of the session: the network may lose everything, and the
library sends a file once, so nothing there must eventually arrive.

## 4. What is only model-checked

Liveness (`QueuedFileIsTransmitted`): fairness and ENABLED are beyond the
prover. Of a session with FDT documents of several packets only `ReceiverTypeOK` is
proved; Session and the proofs are of documents of one packet, and MixedFdt shows
what else happens.

Every other property of a passing run is proved.

## 5. What is proved

For all values of the constants that satisfy the named assumptions:
`TableAssumption`, `FileAssumption`, `TransmitterAssumption` (an MTU that leaves
more than four bytes of payload in a tunnel, a document that is never empty,
fewer FDT instances than the id's modulus), `NoneAssumption` (one in
`Transmitter`, one in `Receiver`: what stands for nothing is no identity,
document or file), `PartitioningAssumption`, `ReceiverAssumption` (contents that
are transferred are not empty), `CellAssumption`, `SessionAssumption`,
`DescriptionAssumption`, `WordAssumption`, `HalfWordAssumption`, `WireAssumption`
(lengths, FEC parameters and TSIs that fit the fields they are sent in; fewer TOIs
than 16 bits hold; a namespace that is not the value for "none"; and only what is
empty is transferred as nothing, since a `Transfer-Length` of 0 is not written). A
theorem that needs more names it: `AlignedLengths`, `OneSymbolFdts`, `CodedWhole`,
`GzipInflates` below.

1. `TransmitterProofs!TypeInvariant`, `TypeCorrect`. `TypeOK` is not inductive.
   `TypeInv` adds `Heap` (what the queue or a packet refers to exists, and a
   queued object is filed under its TOI: without it `objs[files[toi]]` might be
   `None`) and `maxPayload = MaxPayload(tunnelled)` (without it subtraction may
   leave the natural numbers). Each operator that changes the heap has a lemma.
2. `SendLoopNeverDies`, `FdtTimerNeverDies`: inductive beside `TypeInv`.
3. `QueueProofs`: `FdtListsTheQueue`, `PacketsAreOfTheQueue`,
   `SymbolsAreSentOnce`, from `QueueInv`, which is their conjunction and two facts
   about packets: each has a symbol, and carries none but those picked. The three
   need each other: a completion removes a TOI from the queue, which is right
   for the packets left only if none is of that object, and none is because a
   packet's symbols are `queued` and its object then not complete
   (`CompletionPicks`).
4. `PacketProofs!PacketsFit`, from `FitInv`, which is `PacketsFitMtu` over a heap
   given as a parameter. `to_payload` writes a symbol only if what precedes it
   leaves room (`PayloadFits`: those written are among those picked, so the last
   one written is no further back in the packet than when it was tested), and
   `_max_payload` is what the headers and the tunnel leave when the packet is
   cut. Later changes of the tunnel do not reach a packet already cut, and marks
   do not change its object's shape (`SameShape`); that the object is still
   there is `Heap`. `OneSendLoop` and `PaceIsKept` are of `PacedSpec`, the
   application that activates only when the queued handlers have run: `PaceInv`
   adds to `SingleSendLoop` that a deactivated transmitter has no wait left, which
   a deactivation sees to and an activation relies on. `NoSymbolIsLost` is of
   `ErrorFreeSpec`, where no send fails: `AccountedInv` is
   `QueuedSymbolsAreInFlight` over a heap given as a parameter, and a completion,
   which takes one packet out of those in flight, marks what that packet carried,
   so it leaves no symbol behind. `PicksAreCarried` is of `FixedTunnelSpec`, where
   the tunnel stays as constructed: `PicksInv` says of each object in the heap
   that as many of its symbols as `get_next_symbols` picks, a quotient rounded up,
   fit a payload (`FillsPayload`), from which it follows that each is carried.
   That is so of the transmitter's own symbol length, which is a whole payload
   (`OwnLengthFills`). Of lengths that a description brings it is assumed
   (`AlignedLengths`), and has to be: section 6.
5. `InstanceProofs!InstanceIdsNameTables`, from `InstanceInv`: the ids of all
   documents made are at most `sent`, only the table as it is now may have the
   current id, and instances are left for each queued file (`Budget`), which is
   what keeps `FdtInstanceId`, a remainder, the identity. A completion spends
   one instance and takes one file off the queue, which needs `QueueInv`.
6. `InstanceProofs!OffersImplemented`: `Transmitter` implements `FluteSender`
   (`OffersAreSent`). `OffersInv` says that the documents and the objects that
   may still be sent were recorded (`Recorded`), and that the id being built is
   the last one made or the next, the last one if the table has entries, whose
   document then was made (`Settled`): so a repeat of the FDT makes no new
   document. `QueueInv` gives that an object is made of an entry only when none
   is listed under its TOI, and `InstanceInv` that the ids stay below the
   modulus, so that the number an object stores is the one its table has.
7. `AnnounceProofs!QueuedFilesAreListed`, of any calls and outcomes: `FilesListed`
   is the property over a table, a queue and a heap, with the TOI of the entry,
   so that the entries a completion removes are of no other file queued
   (`FileTransmittedLists`); a send adds an entry even when it adds no file.
   `FilesAreAnnounced`, an action property of
   `AnnouncedSpec`: `AnnouncedInv` has a case for each way the current table may
   stand to the air. Either a document with the entries of the table is queued, and
   then it comes before every file, or none is, and then its document was sent
   whole and is in `aired`. The case between, a document whose last symbols are in
   flight, is where `NoStaleFdt` is needed: Unannounced shows a document replaced
   just then, whose remaining packets count for nothing.
8. `DescriptionProofs`: `ToisNameOneObject`, `DescriptionsDescribeWhatWasSet`,
   `DescriptionTypeCorrect`, from `DescriptionInv`. Beside types it says of each
   description (`Sound`) that length, MD5 and encoding are those of what it
   refers to and of what was asked, that compression and encoding agree, that a
   TOI comes with a TSI, was given out before (it is below `nextToi`) and names
   what the description has; and (`Unnamed`) that no TOI not yet given out names
   anything. So a send under a TOI kept finds `objectOf` as it is, and one under
   a new TOI finds it empty.
9. `PartitioningProofs!BlocksDivideSymbols`: blocks and symbol ids name each
   symbol of an object once, for every length and parameters.
   `CreatedSymbolsAreDivided`: the loops of `create_blocks` make just these, with
   their sizes. The loops are a recursive function, and the library's induction
   takes the statement as an operator, which the provers cannot be given; but it
   can be given as a set. `SetInduction` gets from the well-foundedness of < on the
   natural numbers that a set with 0 and every successor has all of them, and is
   used with the set of steps at which the loops are in the block, at the symbol
   and with the bytes left that the formulas say.
10. `SessionProofs`, over `SessionSpec`: `ReceiverTypeCorrect`, for any network and
   calls. If every FDT document fits one encoding symbol (`OneSymbolFdts`, which
   MixedFdt shows to be needed), `FdtsInUseWereSent`, from `FdtInv`: no FDT
   document is ever half received, so that a table in use was made; and each file
   being received is of an entry that some document listed. On it rest two facts
   about the records of `MCSpec`. `FilesHandedOverOnce`: `OnceInv` says that while a
   file handed over is of the FDT in use, nothing is received under its TOI, so
   nothing can be handed over again; only a new instance starts files, and it
   starts the records over. `ListedFilesServed`: what an FDT lists is started with
   it or was going on; each step that takes a file off the list either hands it
   over, or removes it by a call, or drops it for one with its location, which
   then is the one served (`StepServed`). Both go through the kinds of steps in
   `StepKinds`, what a step may do to the list and to the records.
11. The same module: `ReceivedFilesComplete`, from `ExactInv`, which says of
   each file being received, if its contents are the only ones under its TOI
   (`SoleContents`) and cut into whole packets (`SentWhole`), that exactly the
   cells whose symbols arrived hold a piece, each its own (`Exact`). That takes
   `BlocksDivideSymbols`: a packet's block and symbol id, computed by the sender,
   are those of the cell that the receiver made for the same symbol; and that
   `put_symbol` finds room for what such a packet carries. A file with all its
   pieces passes the MD5 check (`FilledHolds`), which therefore never opens it
   again. `ReceiversSurvive`: a packet is out of range only under a TOI used for
   two files, and a complete encoded file decodes, since a packet of encoded
   contents is whole (`CodedWhole`) and gzip can be undone (`GzipInflates`; the
   deflate of an `Inflatable` file could not, section 6).
   `SessionsDeliverFiles`: a session implements `FileDelivery`. Of plain contents
   this rests on the MD5 check and on nothing the network does. Encoded contents
   that fail it are handed over all the same, so that for them it takes what
   `ExactInv` says of their cells: TOIs of their own (`CodedTois`) and whole
   packets (`CodedWhole`).

12. `DescriptionProofs`, on the wire, in three parts. *Headers*
   (`HeadersAreRead`): any values that fit the fields are read as built, from each
   of four forms of the header: as the library writes it, in words, in half words
   with zeros, or with the extensions in another order and others in between. The
   fold over the extensions is shown to read one after the other (`ReadInOrder`,
   for any number, by `SetInduction`), and what is left are the remainders and
   shifts of the fields.
   *Documents* (`DocumentIsRead`): for a table of any length whose entries fit
   (`TableFits`), what `to_string` writes is not refused and is read back entry by
   entry, whether the namespace is the default or bound to a prefix
   (`IsInstance` has both). An attribute is found by name and namespace, so that what
   matters is that no two attributes of an element have the same one
   and that those left out are filled in with what was left out; that the
   reader's children are the elements of the table, in their order, is by
   `SetInduction` over the fold (`FoundInOrder`).
   *What is sent fits*: `WireInv` adds to `DescriptionInv` that the FEC parameters
   a description has kept from an earlier send fit their fields too (`FecInv`,
   which `merge_fec_oti` preserves: they come from some transmitter). From it and
   `WireAssumption`, every entry sent fits a document and a header (`EntryFits`),
   which gives `EntriesAreRead`, `PrefixesDoNotMatter`, `HeadersSayWhatIsSent` and,
   with 9, `BlocksAreOfPartition`: the properties of the run Wire, for any
   descriptions, transmitters and lengths.

Out of the prover's reach: liveness under fairness.

## 6. Disagreements and limits that need no run

Met while modelling; what the models say of them is in parentheses.

*Transmitter.* `number_of_files` (`Transmitter.h:635`) is the size of the map
that holds the FDT document too: when the last file ends, a document may still
be there, so that the callback in which `Transmitter.h:624-626` tells an
application to wait for 0 sees 1, and no callback follows. An activation right
after a deactivation starts a second chain that outruns the limiter (Paced
excludes it). A changed description that is sent again while queued announces an
update that is never sent, since `insert` keeps the queued object; the entry of that
one stays in the table beside the update's (`QueuedFileIsListed`).
A tunnel set later leaves files cut into symbols longer than the payload, which
are marked complete though no packet carries them (FixedTunnel excludes it); and so are
symbols of a length that a description brings, when the rounding up in
`get_next_symbols` (`File.cpp:235`) picks one more than the payload has room for,
as 24 bytes in 64 would (`AlignedLengths` in section 5; FixedTunnel has 32). A file without
bytes is never complete and blocks what is behind it, and so does a file one of
whose packets the socket refused (Live excludes both). The `expires` of the
deprecated `send` never reaches the FDT. The buffer of a tunnelled packet is
deleted after `async_send_to` was called, which may not have copied it
(`Transmitter.cpp:783-784`). Several widths cut without a word: TSI and the FDT
document's length to 16 bits, the instance id to 16 bits in `File` and 20 in the
header, the source block number to 16, file lengths to 32 (`HeaderSurvives` goes
up to the edge of the header's).

*Descriptions.* After Refill the sender's own MD5 check opens all symbols again
whenever the last is sent, so the file is sent for ever. A `set_content` of a
local file that cannot be opened keeps the name: the same name, set again once
the file is there, is taken for no change; and a file mapped before is left
unmapped but referred to (`SetContentFileFails` admits only descriptions
without one). A description with a local file that is assigned to itself loses its
mapping (`Transmitter.cpp:172-182`; `Assign` excludes it). One that was moved from
keeps its TOI and MD5 without contents (`:147-159`, `:194-209`): a move is `Assign`
in the model, for an application that assigns to what it moved from before it uses
it again. Contents that do not shrink to a 16 KiB buffer under compression
make `encode` throw; "deflate" is encoded as gzip and decoded as zlib
(`Inflatable`, `DecodeThrows`).

*Receiver.* `from_payload` does not shrink the length as it takes symbols
(`EncodingSymbol.cpp:47`): a short last symbol of a packet with several copies
nothing and is complete all the same (`Blank`); the MD5 check then opens the
file again, and an entry without an MD5 would not. A packet whose symbols span
two blocks is numbered as if all were of the first, so that its later symbols
are filed past the last of that block or in cells of others (no packet of
Session spans blocks, and `ReceivedFileIsComplete` leaves their contents out; the
theorems of section 5 are for such packets too). A file whose
contents fail `decode`'s MD5 check is handed over. A version that becomes
complete drops every other with its location, newer ones too
(`ListedFileIsServed` counts the location as served). An FDT that changes the
metadata or contents under a TOI that is being received leaves it as it was. The
instance in use is compared, not ordered, so a late packet brings an old FDT
back. `file_list` is said to list the files "currently in the FDT"
(`Receiver.h:65-67`), lists those being received, the FDT document included, and
takes no lock. The completion callback runs with the lock held, so a call of
`remove_file_with_content_location` from it waits for itself.

*Headers and documents.* Of a TOI in two words the first is taken for the lower,
and a word after a half word is shifted by 16 bits and cut to 32
(`Tsi`, `Toi`: `HeaderSurvives` has the values that are not affected). `AlcPacket`
is of headers whose lengths add up: a packet that is too short or an extension
longer than what is left of the header is thrown at (`AlcPacket.cpp:23-25`,
`:107-109`), and an extension that gives its length as 0 is read again and again
without end (`:94-157`). A prefix that is bound again within an element keeps the
outer binding, since `insert` does not replace (`FileDeliveryTable.cpp:53`,
`WithBound`). A document without a root element or without `Expires` is read
through a null pointer (`:151-153`, `:172`); `FdtDocument` is of documents that
have both, and an `Expires` that is no number is left to `Receiver`.

## 7. Not modelled, and why

`send` from a second thread, as the end-to-end test does: the queue has a lock,
but `_fdt`, `_toi` and `_active` have none, so that what `add` and `remove` at
once leave of the vector of entries is undefined and a model would have to admit
anything. Even if each call were whole, the file is queued
(`Transmitter.cpp:693-696`) before its entry is added (`:697`), and can be
transmitted and removed in between, to be announced after it is gone.
`Transmitter` is the library used as its examples do, from one thread.

`IpSec` (two kernel requests, no state), `base64` (vendored, pure), the example
programs, the tokens of XML (tinyxml2), zlib (what it gives is a length, and
whether it can be undone), socket options (endpoint, source address, TTL),
logging.

## 8. Plan

Done: the transmitter's queue, loop and FDT; descriptions; the wire; the
receiver and the session; the two refinements; proofs of every safety property
that a passing run checks. Left, in this order:

1. The session's proofs for documents of several packets, over a network that
   keeps the packets of two instances apart (MixedFdt shows that it has to).
2. A second thread, once the library guards its table.
