-------------------------------- MODULE MCOffers -------------------------------
(***************************************************************************)
(* The transmitter with a record of the FDT documents and the File objects *)
(* it makes, for the receivers' view of it: Transmitter implements         *)
(* FluteSender.                                                            *)
(***************************************************************************)
EXTENDS MCTransmitter

VARIABLES
  docs,     \* the FDT documents made, with the instance ids their packets bear
  objects   \* the entries of the files that File objects were made for

offersVars == <<vars, docs, objects>>

\* The entries a table lists, each once.
EntriesOf(entries) == {e \in Entry : entries[e] > 0}

DocumentsIn(os) ==
  {[instance |-> os[id].instance, entries |-> EntriesOf(os[id].table)] : id \in FdtObjects(os)}

EntriesIn(os) == {os[id].entry : id \in {i \in FileId : os[i] # None} \ FdtObjects(os)}

InitOffers == InitSteady /\ docs = {} /\ objects = {}

Records ==
  /\ docs' = docs \cup DocumentsIn(objs')
  /\ objects' = objects \cup EntriesIn(objs')

OffersSpec == InitOffers /\ [][Next /\ StaysSteady /\ Records]_offersVars

-----------------------------------------------------------------------------
Sender == INSTANCE FluteSender WITH
  table    <- EntriesOf(fdt.entries),
  instance <- fdt.sent

\* Whatever the queue, the timers and the socket do, the transmitter makes the documents
\* and the objects it promises: one document under each instance id, counted up by one,
\* with the table as it then was, and no second object under a TOI whose file is queued.
OffersAreSent == Sender!SenderSpec
================================================================================
