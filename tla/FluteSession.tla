------------------------------ MODULE FluteSession -----------------------------
(***************************************************************************)
(* A session: a sender, one of its receivers and the network between them. *)
(* Multicast UDP promises nothing: a packet cut from any object the sender *)
(* ever made may arrive at any time, any number of times, or never.  So    *)
(* the network needs no state of its own.  The sender may restart, with    *)
(* its counters back at their start, while receivers go on.                *)
(***************************************************************************)
EXTENDS FluteSender, Receiver

CONSTANTS
  PerPacket,     \* encoding symbols of one packet
  MaxInstance,   \* bound on FDT instances between two restarts
  MaxRestarts    \* bound on restarts of the sender

ASSUME SessionAssumption ==
  PerPacket \in Nat \ {0} /\ MaxInstance \in Nat /\ MaxRestarts \in Nat

VARIABLE restarts   \* restarts so far

sessionVars == <<senderVars, restarts, receiverVars>>

-----------------------------------------------------------------------------
(* What may arrive *)

\* The packet of `content' that starts with its symbol i.  Block and symbol id are
\* those of the first symbol; the length is in EXT_FTI, which only the FDT has.
PacketAt(toi, instanceId, content, i) ==
  LET length == ContentLength(content)
      sbn    == BlockOf(length, i)
      last   == Min({NofSourceSymbols(length), i + PerPacket - 1})
  IN [toi |-> toi, instance |-> instanceId, length |-> IF toi = 0 THEN length ELSE 0,
      sbn |-> sbn, esi |-> i - 1 - SymbolsBefore(length, sbn),
      payload |-> [j \in 1..(last - i + 1) |-> [of |-> content, at |-> i + j - 1]]]

PacketsOf(toi, instanceId, content) ==
  {PacketAt(toi, instanceId, content, i) :
     i \in {k \in 1..NofSourceSymbols(ContentLength(content)) : (k - 1) % PerPacket = 0}}

OnAir ==
  UNION ({PacketsOf(0, d.instance, d) : d \in docs}
         \cup {PacketsOf(e.toi, 0, e.data) : e \in objects})

-----------------------------------------------------------------------------
(* The specification *)

Sends ==
  /\ SenderNext
  /\ instance' <= MaxInstance
  /\ UNCHANGED <<restarts, receiverVars>>

Restart ==
  /\ restarts < MaxRestarts
  /\ restarts' = restarts + 1
  /\ table' = {} /\ instance' = 0
  /\ UNCHANGED <<docs, objects, receiverVars>>

Receives ==
  /\ \/ \E packet \in OnAir : Receive(packet, docs)
     \/ ReceiveAfterStop
     \/ ReceiveFails
  /\ UNCHANGED <<senderVars, restarts>>

Calls == ReceiverCalls /\ UNCHANGED <<senderVars, restarts>>

SessionInit == SenderInit /\ ReceiverInit /\ restarts = 0

SessionNext == Sends \/ Restart \/ Receives \/ Calls

SessionSpec == SessionInit /\ [][SessionNext]_sessionVars

-----------------------------------------------------------------------------
(* What it promises *)

AsFile(data, meta) == [data |-> data, meta |-> meta]

Delivery == INSTANCE FileDelivery WITH
  Files    <- [data : Data, meta : Meta],
  sent     <- {AsFile(e.data, e.meta) : e \in Offered},
  received <- {AsFile(d.data, d.entry.meta) : d \in delivered}

\* Each file handed to the receiving application has contents and metadata that the
\* sending one sent together, whatever was lost, repeated or put out of order and
\* whoever used its TOI before.
FilesDelivered == Delivery!Spec

\* The FDT in use is a document that the sender made, under its instance id.
FdtInUseWasSent == rfdt # None => rfdt \in docs

\* A TOI has named one file.
TwoFilesOneToi == \E a, b \in Offered : a.toi = b.toi /\ a # b

\* The receiver goes on receiving: no packet ends it while each TOI names one file, and
\* no file is of an encoding that decode does not know.
ReceiverSurvives ==
  status = "threw" =>
    \/ TwoFilesOneToi
    \/ \E e \in Offered : Coding[e.data] # "plain" /\ e.data \notin Inflatable
================================================================================
