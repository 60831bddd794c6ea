------------------------------- MODULE MCSession -------------------------------
(***************************************************************************)
(* A session for TLC, with two records of what happened that properties    *)
(* speak of: what became of entries since the FDT in use was taken, and    *)
(* which symbols of a file arrived since its reception began.              *)
(***************************************************************************)
EXTENDS FluteSession

CONSTANTS
  c1, c2, c3, c4, c5, m1, m2,
  MaxDocs   \* bound on FDT documents, of all sessions of the sender

\* With symbols of 2 bytes and blocks of 2: of three blocks with 2, 2 and 1 symbols, of one
\* symbol, two encoded ones of one symbol, and of a full symbol and a short one.
SessionLength == [c \in Data |-> CASE c = c1 -> 10 [] c = c5 -> 3 [] OTHER -> 2]
SessionCoding == [c \in Data |-> CASE c = c3 -> "gzip" [] c = c4 -> "deflate" [] OTHER -> "plain"]
SessionInflatable == Data \cap {c3}
SessionLocation == [m \in Meta |-> IF m = m1 THEN "a" ELSE "b"]

VARIABLES
  handed,    \* how often each entry was handed over since the FDT in use was taken
  removed,   \* entries the application removed since
  arrived    \* symbols that arrived for each TOI since its file was started

mcVars == <<sessionVars, handed, removed, arrived>>

MCInit ==
  /\ SessionInit
  /\ handed = [e \in Entry |-> 0]
  /\ removed = {}
  /\ arrived = [toi \in Toi |-> {}]

\* The FDT in use changes to one of another instance.
NewInstance == rfdt' # rfdt /\ (rfdt = None \/ rfdt'.instance # rfdt.instance)

RecordArrival(packet) ==
  arrived' = [toi \in Toi |->
                IF rfiles[toi] = None \/ rfiles'[toi] = None THEN {}
                ELSE IF packet.toi = toi
                     THEN arrived[toi] \cup {packet.payload[j].at : j \in DOMAIN packet.payload}
                     ELSE arrived[toi]]

Takes(packet) ==
  /\ TakeFdt(packet, docs)
  /\ IF NewInstance THEN handed' = [e \in Entry |-> 0] /\ removed' = {}
                    ELSE UNCHANGED <<handed, removed>>
  /\ arrived' = [toi \in Toi |-> IF FilesLeft(packet)[toi] = None THEN {} ELSE arrived[toi]]

HandsOver(packet) ==
  /\ HandOver(packet)
  /\ handed' = [handed EXCEPT ![FilesLeft(packet)[packet.toi].entry] = @ + 1]
  /\ UNCHANGED removed
  /\ RecordArrival(packet)

OtherwiseReceives(packet) ==
  /\ \/ RefuseSymbols(packet) \/ KeepSymbols(packet)
     \/ FailDecode(packet) \/ KeepComplete(packet)
  /\ UNCHANGED <<handed, removed>>
  /\ RecordArrival(packet)

Discards(packet) == Discard(packet) /\ UNCHANGED <<handed, removed, arrived>>

MCReceives ==
  /\ \/ \E packet \in OnAir : Takes(packet) \/ HandsOver(packet)
                              \/ OtherwiseReceives(packet) \/ Discards(packet)
     \/ ReceiveAfterStop /\ UNCHANGED <<handed, removed, arrived>>
     \/ ReceiveFails /\ UNCHANGED <<handed, removed, arrived>>
  /\ UNCHANGED <<senderVars, restarts>>

MCCalls ==
  /\ Calls
  /\ removed' = removed \cup
       {rfiles[toi].entry : toi \in {t \in 1..ToiMax : rfiles[t] # None /\ rfiles'[t] = None}}
  /\ arrived' = [toi \in Toi |-> IF rfiles'[toi] = None THEN {} ELSE arrived[toi]]
  /\ UNCHANGED handed

MCSends == (Sends \/ Restart) /\ UNCHANGED <<handed, removed, arrived>>

MCNext == MCSends \/ MCReceives \/ MCCalls

MCSpec == MCInit /\ [][MCNext]_mcVars

-----------------------------------------------------------------------------
\* Encoded contents keep their TOI to themselves.
CodedToi(e) == Coding[e.data] # "plain" => \A f \in Offered' : f.toi = e.toi => f.data = e.data

CodedTois == docs' # docs => \A e \in Offered' : CodedToi(e)

\* TOIs are taken from 1 on.
TakesTois ==
  docs' # docs =>
    \A e \in Offered' \ Offered : e.toi = 1 \/ \E f \in Offered : f.toi = e.toi - 1

\* Only c2 is sent under two names and two TOIs.
Titled ==
  docs' # docs => \A e \in Offered' : e.data = c2 \/ (e.toi = 1 /\ (e.data = c1 <=> e.meta = m1))

\* The application removes files once.  It stops the receiver, or the socket fails, before
\* there is a second document, and nothing is of interest once the receiver has ended.
RemovesOnce == removed # {} => removed' \in {removed, {}}
EndsQuietly == status # "listening" \/ ~running => UNCHANGED <<senderVars, restarts, rfiles>>

EndsEarly ==
  running' # running \/ (status' = "failed" /\ status # "failed") => Cardinality(docs) < MaxDocs

FewDocs == Cardinality(docs') <= MaxDocs

Bounded == FewDocs /\ TakesTois /\ RemovesOnce /\ EndsQuietly /\ EndsEarly

\* One file at a time.
OneAtATime == Cardinality(table') <= 1

OneAtATimeSpec == MCInit /\ [][MCNext /\ OneAtATime /\ Bounded]_mcVars

PlainReuseSpec == MCInit /\ [][MCNext /\ Bounded /\ CodedTois /\ Titled]_mcVars

-----------------------------------------------------------------------------
HandedOver == {e \in Entry : handed[e] > 0}

\* The application is handed a file at most once while an FDT instance is in use, however
\* often the sender repeats the FDT and the file.
HandedOverOncePerInstance ==
  \A e, f \in HandedOver : e.toi = f.toi => e = f /\ handed[e] = 1

Served == removed \cup HandedOver

\* No file of the FDT in use is forgotten: it is being received, or it was handed over or
\* removed by the application, or another took its location.
ListedFileIsServed ==
  rfdt # None /\ ~TwoFilesOneToi =>
    \A e \in rfdt.entries :
      \/ rfiles[e.toi] # None
      \/ \E x \in Served : x.toi = e.toi \/ Location[x.meta] = Location[e.meta]
      \/ \E toi \in 1..ToiMax : rfiles[toi] # None /\ LocationOf(rfiles[toi]) = Location[e.meta]

\* The packets cut from c have symbols of one block each, and the last of several is full.
\* Of others, from_payload gets a number or a length wrong.
SentWhole(c) ==
  \A packet \in PacketsOf(0, 0, c) :
    /\ packet.esi + Len(packet.payload) <= BlockLength(Length[c], packet.sbn)
    /\ Len(packet.payload) > 1 =>
         SymbolSize(Length[c], packet.payload[Len(packet.payload)].at) = SymbolBytes

\* A file all of whose symbols arrived since its reception began is complete, in any order
\* of arrival: none is waited for that came.
ReceivedFileIsComplete ==
  status # "threw" /\ ~TwoFilesOneToi =>
    \A toi \in 1..ToiMax :
      /\ rfiles[toi] # None
      /\ SentWhole(rfiles[toi].entry.data)
      /\ arrived[toi] = 1..NofSourceSymbols(rfiles[toi].length)
      => Complete(rfiles[toi])
================================================================================
