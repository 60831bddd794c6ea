----------------------------- MODULE FileDescription ---------------------------
(***************************************************************************)
(* The descriptions an application keeps of the files it sends: it changes *)
(* them, sends them again, and sends them with more than one transmitter.  *)
(* A description refers to its contents, which are in a memory area of the *)
(* application or in a mapped local file, and records their length and MD5 *)
(* when they are set.                                                      *)
(***************************************************************************)
EXTENDS FdtDocument

CONSTANTS
  Handle,          \* descriptions the application has
  Buffer,          \* its memory areas
  LocalFile,       \* names of local files
  Contents,        \* what areas and files may hold
  Encodings,       \* values of Content-Encoding that are set: "gzip", "deflate"
  NoEncoding,      \* and "", for none
  Size,            \* bytes of contents; None has 0
  TransferSize,    \* bytes as transferred under each Content-Encoding
  Details,         \* location, type, etag and expiry time (or None), taken together
  NoDetails,       \* those of a new description
  Transmitters,    \* transmitters, each with its TSI
  FecOfTransmitter, \* _fec_oti of each: symbol length and source block length
  ToiBound         \* bound on TOIs taken, below the 65535 where they wrap

Area == Buffer \cup LocalFile

ASSUME DescriptionAssumption ==
  /\ Buffer \cap LocalFile = {}
  /\ None \notin Contents \cup Area \cup Transmitters
  /\ NoEncoding \in Encodings /\ Encodings \subseteq {NoEncoding, "gzip", "deflate"}
  /\ Size \in [Contents \cup {None} -> Nat]
  /\ \A c \in Contents \cup {None} : Size[c] = 0 <=> c = None
  /\ TransferSize \in [Encodings -> [Contents \cup {None} -> Nat]]
  /\ TransferSize[NoEncoding] = Size
  /\ FecOfTransmitter \in [Transmitters -> [symbolLength : Nat \ {0}, maxBlock : Nat \ {0}]]
  /\ Details \subseteq [location : STRING, type : STRING, etag : STRING, expires : Nat \cup {None}]
  /\ NoDetails \in Details
  /\ ToiBound \in Nat \ {0}

VARIABLES
  memory,    \* what each area and each local file holds, None if there is no such file
  descs,     \* the descriptions
  nextToi,   \* _toi of each transmitter
  asked,     \* history: what the application last set each description to
  objectOf   \* history: what was first sent under each TSI and TOI

descVars == <<memory, descs, nextToi, asked, objectOf>>

\* A transfer object: contents under an encoding.
Object == [contents : Contents \cup {None}, encoding : Encodings]

Description ==
  [tsi : Transmitters \cup {None}, toi : 0..ToiBound, data : Area \cup {None}, length : Nat,
   md5 : Contents \cup {None}, filename : LocalFile \cup {None}, compression : Encodings,
   encoding : Encodings, details : Details, fec : [symbolLength : Nat, maxBlock : Nat]]

DescriptionTypeOK ==
  /\ memory \in [Area -> Contents \cup {None}]
  /\ descs \in [Handle -> Description]
  /\ nextToi \in [Transmitters -> 1..(ToiBound + 1)]
  /\ asked \in [Handle -> Object]
  /\ objectOf \in [Transmitters -> [1..ToiBound -> Object \cup {None}]]

-----------------------------------------------------------------------------
\* What a pointer leads to.
At(area) == IF area = None THEN None ELSE memory[area]

\* (Mutant: an MD5 that is there is kept.)
CalculatedOnce(desc) ==
  [desc EXCEPT !.md5 = IF desc.length = 0 THEN None ELSE IF @ # None THEN @ ELSE At(desc.data)]

\* _calculate_file_entry, of contents newly set.
Calculated(desc) ==
  [desc EXCEPT !.md5 = IF desc.length > 0 THEN At(desc.data) ELSE None]

\* Contents are set: those at `area', which is of memory or of the local file `filename'.
WithContents(desc, toi, area, filename) ==
  Calculated([desc EXCEPT !.toi = toi, !.data = area, !.length = Size[At(area)],
                          !.filename = filename])

\* (Mutant: the lengths alone tell contents apart.)
OthersByLength(desc, area) == desc.length # Size[At(area)]

\* The contents at `area' are others than those the description has: the length tells, or
\* the MD5.
Others(desc, area) ==
  \/ desc.length # Size[At(area)]
  \/ /\ Size[At(area)] > 0
     /\ desc.md5 # At(area)

\* Contents in memory, or none.  The same area with the same length changes nothing.
SetContent(h, area) ==
  LET desc == descs[h]
      toi  == IF Others(desc, area) THEN 0 ELSE desc.toi
  IN /\ descs' = [descs EXCEPT ![h] =
          IF desc.data = area /\ desc.length = Size[At(area)] THEN desc
          ELSE WithContents(desc, toi, area, None)]
     /\ asked' = [asked EXCEPT ![h].contents = At(area)]
     /\ UNCHANGED <<memory, nextToi, objectOf>>

\* Contents of a local file that can be opened.  The same name changes nothing.
SetContentFile(h, name) ==
  /\ memory[name] # None
  /\ descs' = [descs EXCEPT ![h] =
       IF @.filename = name THEN @
       ELSE WithContents(@, 0, name, name)]
  /\ asked' = [asked EXCEPT ![h].contents = memory[name]]
  /\ UNCHANGED <<memory, nextToi, objectOf>>

\* Of one that cannot: an exception, with the name kept and the rest as it was.  (Had a
\* file been mapped, the rest would refer to a mapping that is gone.)
SetContentFileFails(h, name) ==
  /\ memory[name] = None
  /\ descs[h].filename = None
  /\ descs' = [descs EXCEPT ![h].filename = name]
  /\ UNCHANGED <<memory, nextToi, asked, objectOf>>

\* (Mutant: no encoding is named like one.)
SetCompressionNamed(h, encoding) ==
  /\ descs' = [descs EXCEPT ![h] =
       IF @.compression = encoding THEN @
       ELSE Calculated([@ EXCEPT !.compression = encoding, !.toi = 0,
                                 !.encoding = IF encoding = NoEncoding THEN "none" ELSE encoding])]
  /\ asked' = [asked EXCEPT ![h].encoding = encoding]
  /\ UNCHANGED <<memory, nextToi, objectOf>>

\* A change of the encoding takes a new TOI.
SetCompression(h, encoding) ==
  /\ descs' = [descs EXCEPT ![h] =
       IF @.compression = encoding THEN @
       ELSE Calculated([@ EXCEPT !.compression = encoding, !.encoding = encoding, !.toi = 0])]
  /\ asked' = [asked EXCEPT ![h].encoding = encoding]
  /\ UNCHANGED <<memory, nextToi, objectOf>>

\* set_content_type, set_etag, set_expiry_time: the TOI is kept.
SetDetails(h, details) ==
  /\ descs' = [descs EXCEPT ![h].details = details]
  /\ UNCHANGED <<memory, nextToi, asked, objectOf>>

\* A description with the contents of an area, or none.
NewDescription(area) ==
  Calculated([tsi |-> None, toi |-> 0, data |-> area, length |-> Size[At(area)], md5 |-> None,
              filename |-> None, compression |-> NoEncoding, encoding |-> NoEncoding, details |-> NoDetails,
              fec |-> [symbolLength |-> 0, maxBlock |-> 0]])

\* A description is made and assigned to one the application has.
AssignNew(h, area) ==
  /\ descs' = [descs EXCEPT ![h] = NewDescription(area)]
  /\ asked' = [asked EXCEPT ![h] = [contents |-> At(area), encoding |-> NoEncoding]]
  /\ UNCHANGED <<memory, nextToi, objectOf>>

\* One description is copied or moved to another, or to itself; a local file is mapped again.
\* (One with a local file assigned to itself would lose its mapping.  What was moved from,
\* which keeps TOI and MD5 and no contents, is assigned to before it is used again.)
Assign(h, g) ==
  /\ descs[g].filename \in {None, descs[g].data}
  /\ h # g \/ descs[g].filename = None
  /\ descs' = [descs EXCEPT ![h] = descs[g]]
  /\ asked' = [asked EXCEPT ![h] = asked[g]]
  /\ UNCHANGED <<memory, nextToi, objectOf>>

\* The application writes other contents to an area of its own.
Refill(area, contents) ==
  /\ Size[contents] = Size[memory[area]]
  /\ memory' = [memory EXCEPT ![area] = contents]
  /\ UNCHANGED <<descs, nextToi, asked, objectOf>>

\* A local file is made.
FileAppears(name, contents) ==
  /\ memory[name] = None
  /\ memory' = [memory EXCEPT ![name] = contents]
  /\ UNCHANGED <<descs, nextToi, asked, objectOf>>

-----------------------------------------------------------------------------
(* Sending *)

\* A description has a TOI in the session it was last sent in, and takes one in another.
TakesToi(desc, t) == desc.toi = 0 \/ desc.tsi \notin {None, t}

\* merge_fec_oti: what is not set yet is taken from the transmitter, once and for all.
Merged(fec, default) ==
  [symbolLength |-> IF fec.symbolLength = 0 THEN default.symbolLength ELSE fec.symbolLength,
   maxBlock     |-> IF fec.maxBlock = 0 THEN default.maxBlock ELSE fec.maxBlock]

\* A description as transmitter t has it when it sends it.
SentWith(desc, t) ==
  [desc EXCEPT !.tsi = t,
               !.toi = IF TakesToi(desc, t) THEN nextToi[t] ELSE desc.toi,
               !.fec = Merged(desc.fec, FecOfTransmitter[t])]

\* The entry that the table of transmitter t gets of a description.
EntryFor(desc, t) ==
  LET sent == SentWith(desc, t)
  IN [toi            |-> sent.toi,
      location       |-> desc.details.location,
      contentLength  |-> desc.length,
      transferLength |-> TransferSize[desc.encoding][At(desc.data)],
      md5            |-> desc.md5,
      encoding       |-> desc.encoding,
      type           |-> desc.details.type,
      maxBlock       |-> sent.fec.maxBlock,
      symbolLength   |-> sent.fec.symbolLength,
      etag           |-> desc.details.etag,
      noCache        |-> FALSE,
      cacheExpires   |-> desc.details.expires,
      expires        |-> IF desc.details.expires = None THEN 0 ELSE desc.details.expires]

\* What is sent.
ObjectFor(desc) == [contents |-> At(desc.data), encoding |-> desc.encoding]

Send(h, t) ==
  LET desc == descs[h]
      sent == SentWith(desc, t)
  IN /\ sent.toi <= ToiBound
     /\ descs' = [descs EXCEPT ![h] = sent]
     /\ nextToi' = IF TakesToi(desc, t) THEN [nextToi EXCEPT ![t] = @ + 1] ELSE nextToi
     /\ objectOf' = [objectOf EXCEPT ![t][sent.toi] = IF @ = None THEN ObjectFor(desc) ELSE @]
     /\ UNCHANGED <<memory, asked>>

-----------------------------------------------------------------------------
(* The specification *)

DescriptionInit ==
  /\ memory \in [Area -> Contents \cup {None}]
  /\ \A b \in Buffer : memory[b] # None
  /\ descs = [h \in Handle |-> NewDescription(None)]
  /\ asked = [h \in Handle |-> [contents |-> None, encoding |-> NoEncoding]]
  /\ nextToi = [t \in Transmitters |-> 1]
  /\ objectOf = [t \in Transmitters |-> [toi \in 1..ToiBound |-> None]]

\* The application gives up a local file that could not be opened.
DescriptionNext ==
  \/ \E h \in Handle, area \in Buffer \cup {None} :
       \/ SetContent(h, area)
       \/ AssignNew(h, area)
  \/ \E h, g \in Handle : Assign(h, g)
  \/ \E h \in Handle, name \in LocalFile :
       \/ descs[h].filename \in {None, descs[h].data} /\ SetContentFile(h, name)
       \/ SetContentFileFails(h, name)
  \/ \E h \in Handle, encoding \in Encodings : SetCompression(h, encoding)
  \/ \E h \in Handle, details \in Details : SetDetails(h, details)
  \/ \E h \in Handle, t \in Transmitters : Send(h, t)
  \/ \E name \in LocalFile, c \in Contents : FileAppears(name, c)

DescriptionSpec == DescriptionInit /\ [][DescriptionNext]_descVars

\* And uses its areas again, for contents of the same size.
RefillSpec ==
  DescriptionInit /\ [][DescriptionNext \/ \E area \in Buffer, c \in Contents : Refill(area, c)]_descVars

-----------------------------------------------------------------------------
\* A description with a TOI of a session has the contents and the encoding first sent under
\* it there: what receivers have of the TOI goes with what is sent under it again, however
\* descriptions were changed, assigned or used with another transmitter in between.
ToiNamesOneObject ==
  \A h \in Handle :
    descs[h].toi # 0 => objectOf[descs[h].tsi][descs[h].toi] = ObjectFor(descs[h])

\* What a description says of its contents, and the encoding, are of those the application
\* set last, however it set and sent them before.
DescribesWhatWasSet ==
  \A h \in Handle :
    /\ descs[h].length = Size[asked[h].contents]
    /\ descs[h].md5 = asked[h].contents
    /\ descs[h].encoding = asked[h].encoding
================================================================================
