------------------------------- MODULE FluteSender -----------------------------
(***************************************************************************)
(* What a transmitter promises to the receivers of its session, whatever   *)
(* its queue and its timers do: which FDT documents and which file objects *)
(* packets may be cut from.  Transmitter is shown to implement it (module  *)
(* MCOffers), and FluteSession puts receivers behind it.                   *)
(***************************************************************************)
EXTENDS FileDeliveryTable

VARIABLES
  table,      \* the entries the FDT lists
  instance,   \* identifier of the last document made
  docs,       \* history: the FDT documents made
  objects     \* history: the entries that File objects were made for

senderVars == <<table, instance, docs, objects>>

SenderTypeOK ==
  /\ table \in SUBSET Entry
  /\ instance \in Nat
  /\ docs \subseteq Document
  /\ objects \subseteq Entry

SenderInit == table = {} /\ instance = 0 /\ docs = {} /\ objects = {}

\* Documents with entries go out; an empty table is not sent.
Announce(entries) ==
  /\ table' = entries
  /\ IF entries = {} THEN UNCHANGED <<instance, docs>>
     ELSE /\ instance' = instance + 1
          /\ docs' = docs \cup {[instance |-> instance + 1, entries |-> entries]}

Listing(toi) == {e \in table : e.toi = toi}

\* A file is sent.  No object is made of it while one is queued under its TOI.
Offer(entry) ==
  /\ Announce(table \cup {entry})
  /\ objects' = IF Listing(entry.toi) = {} THEN objects \cup {entry} ELSE objects

\* A file has been transmitted: its entries go.
Withdraw(toi) ==
  /\ Announce(table \ Listing(toi))
  /\ UNCHANGED objects

SenderNext ==
  \/ \E entry \in Entry : Offer(entry)
  \/ \E toi \in 1..ToiMax : Withdraw(toi)

SenderSpec == SenderInit /\ [][SenderNext]_senderVars

\* The entries some document lists.
Offered == UNION {d.entries : d \in docs}
================================================================================
