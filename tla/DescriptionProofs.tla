---------------------------- MODULE DescriptionProofs --------------------------
(***************************************************************************)
(* What descriptions say, what TOIs name, and what receivers make of it in *)
(* documents, packet headers and blocks, for any number of descriptions,   *)
(* areas, local files, transmitters and sends.                             *)
(***************************************************************************)
EXTENDS Wire, PartitioningProofs, SequenceTheorems

\* The length and the MD5 are those of the contents, and these are there.
Consistent(desc) ==
  /\ desc.length = Size[At(desc.data)]
  /\ desc.md5 = At(desc.data)
  /\ desc.data \in LocalFile => memory[desc.data] # None

\* The contents and the encoding are what was asked for last.
AsAsked(desc, object) ==
  /\ At(desc.data) = object.contents
  /\ desc.encoding = object.encoding
  /\ desc.compression = desc.encoding

\* A TOI was taken, and names the object of the description that has it.
Named(desc) ==
  desc.toi # 0 =>
    /\ desc.tsi \in Transmitters
    /\ desc.toi < nextToi[desc.tsi]
    /\ objectOf[desc.tsi][desc.toi] = ObjectFor(desc)

\* TOIs not taken yet name nothing.
Unnamed ==
  \A t \in Transmitters : \A toi \in 1..ToiBound : toi >= nextToi[t] => objectOf[t][toi] = None

Sound(desc, object) == Consistent(desc) /\ AsAsked(desc, object) /\ Named(desc)

DescriptionInv ==
  /\ DescriptionTypeOK
  /\ \A h \in Handle : Sound(descs[h], asked[h])
  /\ Unnamed

-----------------------------------------------------------------------------
LEMMA InvImplies ==
  ASSUME DescriptionInv
  PROVE  ToiNamesOneObject /\ DescribesWhatWasSet
  BY DEF DescriptionInv, Sound, Consistent, AsAsked, Named, ToiNamesOneObject, DescribesWhatWasSet

LEMMA AtType ==
  ASSUME DescriptionTypeOK, NEW area \in Area \cup {None}
  PROVE  /\ At(area) \in Contents \cup {None}
         /\ Size[At(area)] \in Nat
         /\ Size[At(area)] = 0 <=> At(area) = None
  BY DescriptionAssumption DEF DescriptionTypeOK, At

\* Contents that others would not be told from are the same.
LEMMA SameContents ==
  ASSUME DescriptionTypeOK, NEW desc \in Description, NEW area \in Area \cup {None},
         Consistent(desc), ~Others(desc, area)
  PROVE  At(desc.data) = At(area)
<1>1. desc.data \in Area \cup {None}
  BY DEF Description
<1> QED
  BY <1>1, AtType DEF Consistent, Others

LEMMA EncodingIsSet ==
  ASSUME NEW desc \in Description, NEW encoding \in Encodings, 0 \in 0..ToiBound
  PROVE  LET set == [desc EXCEPT !.compression = encoding, !.encoding = encoding, !.toi = 0]
         IN /\ set \in Description
            /\ set.toi = 0 /\ set.encoding = encoding /\ set.compression = encoding
            /\ set.data = desc.data /\ set.length = desc.length /\ set.md5 = desc.md5
  BY DEF Description

\* The MD5 that is calculated is that of the contents.
LEMMA Md5IsSet ==
  ASSUME NEW desc \in Description, At(desc.data) \in Contents \cup {None},
         desc.length = 0 <=> At(desc.data) = None
  PROVE  LET set == Calculated(desc)
         IN /\ set \in Description
            /\ set.md5 = At(desc.data)
            /\ \A f \in {"tsi", "toi", "data", "length", "compression", "encoding"} :
                 set[f] = desc[f]
<1> DEFINE md5 == IF desc.length > 0 THEN At(desc.data) ELSE None
<1>1. md5 = At(desc.data)
  BY DEF Description
<1>2. Calculated(desc) = [desc EXCEPT !.md5 = md5]
  BY DEF Calculated
<1> HIDE DEF md5
<1> QED
  BY <1>1, <1>2 DEF Description

\* A description that gets contents is a description, and says what they are.
LEMMA ContentsAreSet ==
  ASSUME NEW desc \in Description, NEW toi \in 0..ToiBound, NEW area \in Area \cup {None},
         NEW filename \in LocalFile \cup {None}, At(area) \in Contents \cup {None},
         Size[At(area)] \in Nat, Size[At(area)] = 0 <=> At(area) = None
  PROVE  LET set == WithContents(desc, toi, area, filename)
         IN /\ set \in Description
            /\ set.toi = toi /\ set.data = area /\ set.length = Size[At(area)]
            /\ set.md5 = At(area)
            /\ set.tsi = desc.tsi /\ set.encoding = desc.encoding
            /\ set.compression = desc.compression
<1> DEFINE held == [desc EXCEPT !.toi = toi, !.data = area, !.length = Size[At(area)],
                                !.filename = filename]
<1>1. /\ held \in Description
      /\ held.toi = toi /\ held.data = area /\ held.length = Size[At(area)]
      /\ held.tsi = desc.tsi /\ held.encoding = desc.encoding
      /\ held.compression = desc.compression
  BY DEF Description
<1>2. WithContents(desc, toi, area, filename) = Calculated(held)
  BY DEF WithContents
<1> HIDE DEF held
<1> QED
  BY <1>1, <1>2, Md5IsSet

LEMMA NewDescriptionOK ==
  ASSUME DescriptionTypeOK, NEW area \in Buffer \cup {None}
  PROVE  /\ NewDescription(area) \in Description
         /\ Consistent(NewDescription(area))
         /\ NewDescription(area).toi = 0
         /\ NewDescription(area).data = area
         /\ NewDescription(area).encoding = NoEncoding
         /\ NewDescription(area).compression = NoEncoding
<1>1. area \in Area \cup {None} /\ area \notin LocalFile
  BY DescriptionAssumption DEF Area
<1>2. At(area) \in Contents \cup {None} /\ Size[At(area)] \in Nat
      /\ (Size[At(area)] = 0 <=> At(area) = None)
  BY <1>1, AtType
<1>3. NewDescription(area) =
        [tsi |-> None, toi |-> 0, data |-> area, length |-> Size[At(area)], md5 |-> At(area),
         filename |-> None, compression |-> NoEncoding, encoding |-> NoEncoding, details |-> NoDetails,
         fec |-> [symbolLength |-> 0, maxBlock |-> 0]]
  BY <1>2 DEF NewDescription, Calculated
<1>4. NoEncoding \in Encodings /\ NoDetails \in Details /\ 0 \in 0..ToiBound
  BY DescriptionAssumption
<1>5. NewDescription(area) \in Description
  BY <1>1, <1>2, <1>3, <1>4 DEF Description
<1>6. Consistent(NewDescription(area))
  BY <1>1, <1>3 DEF Consistent
<1> QED
  BY <1>3, <1>5, <1>6

\* A step that changes one description, to one that is sound, keeps the invariant.
LEMMA OneDescriptionChanges ==
  ASSUME DescriptionInv, NEW h \in Handle, NEW desc \in Description, NEW object \in Object,
         Sound(desc, object),
         descs' = [descs EXCEPT ![h] = desc], asked' = [asked EXCEPT ![h] = object],
         UNCHANGED <<memory, nextToi, objectOf>>
  PROVE  DescriptionInv'
<1>1. DescriptionTypeOK'
  BY DEF DescriptionInv, DescriptionTypeOK
<1>2. Sound(desc, object)'
  BY DEF Sound, Consistent, AsAsked, Named, At, ObjectFor
<1>3. \A g \in Handle : Sound(descs[g], asked[g])'
  <2> SUFFICES ASSUME NEW g \in Handle PROVE Sound(descs[g], asked[g])'
    OBVIOUS
  <2>1. CASE g = h
    BY <1>2, <2>1 DEF DescriptionInv, DescriptionTypeOK
  <2>2. CASE g # h
    <3>1. descs'[g] = descs[g] /\ asked'[g] = asked[g]
      BY <2>2 DEF DescriptionInv, DescriptionTypeOK
    <3> QED
      BY <3>1 DEF DescriptionInv, Sound, Consistent, AsAsked, Named, At, ObjectFor
  <2> QED
    BY <2>1, <2>2
<1>4. Unnamed'
  BY DEF DescriptionInv, Unnamed
<1> QED
  BY <1>1, <1>3, <1>4 DEF DescriptionInv

LEMMA SetContentKeeps ==
  ASSUME DescriptionInv, NEW h \in Handle, NEW area \in Buffer \cup {None}, SetContent(h, area)
  PROVE  DescriptionInv'
<1> DEFINE desc == descs[h]
           object == [asked[h] EXCEPT !.contents = At(area)]
           toi == IF Others(desc, area) THEN 0 ELSE desc.toi
           new == WithContents(desc, toi, area, None)
           next == IF desc.data = area /\ desc.length = Size[At(area)] THEN desc ELSE new
<1>1. desc \in Description /\ asked[h] \in Object /\ Sound(desc, asked[h])
  BY DEF DescriptionInv, DescriptionTypeOK
<1>2. /\ area \in Area \cup {None} /\ area \notin LocalFile
      /\ At(area) \in Contents \cup {None} /\ Size[At(area)] \in Nat
      /\ Size[At(area)] = 0 <=> At(area) = None
  <2>1. area \in Area \cup {None} /\ area \notin LocalFile
    BY DescriptionAssumption DEF Area
  <2> QED
    BY <2>1, AtType DEF DescriptionInv
<1>3. descs' = [descs EXCEPT ![h] = next] /\ asked' = [asked EXCEPT ![h] = object]
  BY DEF SetContent
<1>4. object \in Object /\ object.contents = At(area) /\ object.encoding = asked[h].encoding
  BY <1>1, <1>2 DEF Object
<1>5. /\ new \in Description /\ new.md5 = At(area)
      /\ new.toi = toi /\ new.data = area /\ new.length = Size[At(area)]
      /\ new.tsi = desc.tsi /\ new.encoding = desc.encoding /\ new.compression = desc.compression
  <2>1. toi \in 0..ToiBound
    BY <1>1, DescriptionAssumption DEF Description
  <2> HIDE DEF toi, desc
  <2> QED
    BY <1>1, <1>2, <2>1, ContentsAreSet
<1>6. Sound(next, object)
  <2> HIDE DEF new
  <2>1. CASE desc.data = area /\ desc.length = Size[At(area)]
    BY <1>1, <1>4, <2>1 DEF Sound, AsAsked
  <2>2. CASE ~(desc.data = area /\ desc.length = Size[At(area)])
    <3>1. next = new
      BY <2>2
    <3>2. Consistent(new)
      BY <1>2, <1>5 DEF Consistent
    <3>3. AsAsked(new, object)
      BY <1>1, <1>4, <1>5 DEF AsAsked, Sound
    <3>4. Named(new)
      <4> SUFFICES ASSUME toi # 0 PROVE Named(new)
        BY <1>5 DEF Named
      <4>1. At(desc.data) = At(area) /\ toi = desc.toi
        BY <1>1, <1>2, SameContents DEF DescriptionInv, Sound
      <4> QED
        BY <1>1, <1>5, <4>1 DEF Named, Sound, ObjectFor
    <3> QED
      BY <3>1, <3>2, <3>3, <3>4 DEF Sound
  <2> QED
    BY <2>1, <2>2
<1> QED
  <2> HIDE DEF new, object
  <2> QED
    BY <1>1, <1>3, <1>4, <1>5, <1>6, OneDescriptionChanges DEF SetContent

LEMMA SetContentFileKeeps ==
  ASSUME DescriptionInv, NEW h \in Handle, NEW name \in LocalFile,
         descs[h].filename \in {None, descs[h].data}, SetContentFile(h, name)
  PROVE  DescriptionInv'
<1> DEFINE desc == descs[h]
           object == [asked[h] EXCEPT !.contents = memory[name]]
           new == WithContents(desc, 0, name, name)
           next == IF desc.filename = name THEN desc ELSE new
<1>1. desc \in Description /\ asked[h] \in Object /\ Sound(desc, asked[h])
  BY DEF DescriptionInv, DescriptionTypeOK
<1>2. /\ name \in Area /\ name # None /\ At(name) = memory[name] /\ memory[name] # None
      /\ At(name) \in Contents \cup {None} /\ Size[At(name)] \in Nat
      /\ Size[At(name)] # 0
  <2>1. name \in Area /\ name # None
    BY DescriptionAssumption DEF Area
  <2> QED
    BY <2>1, AtType DEF DescriptionInv, At, SetContentFile
<1>3. descs' = [descs EXCEPT ![h] = next] /\ asked' = [asked EXCEPT ![h] = object]
  BY DEF SetContentFile
<1>4. object \in Object /\ object.contents = At(name) /\ object.encoding = asked[h].encoding
  BY <1>1, <1>2 DEF Object
<1>5. /\ new \in Description /\ new.md5 = At(name)
      /\ new.toi = 0 /\ new.data = name /\ new.length = Size[At(name)]
      /\ new.tsi = desc.tsi /\ new.encoding = desc.encoding /\ new.compression = desc.compression
  <2>1. 0 \in 0..ToiBound /\ At(name) # None /\ name \in LocalFile \cup {None}
    BY <1>2, DescriptionAssumption
  <2> HIDE DEF desc
  <2> QED
    BY <1>1, <1>2, <2>1, ContentsAreSet
<1>6. Sound(next, object)
  <2> HIDE DEF new
  <2>1. CASE desc.filename = name
    <3>1. desc.data = name
      BY <1>2, <2>1
    <3> QED
      BY <1>1, <1>4, <2>1, <3>1 DEF Sound, AsAsked
  <2>2. CASE desc.filename # name
    BY <1>1, <1>2, <1>4, <1>5, <2>2 DEF Sound, Consistent, AsAsked, Named
  <2> QED
    BY <2>1, <2>2
<1> QED
  <2> HIDE DEF new, object
  <2> QED
    BY <1>1, <1>3, <1>4, <1>5, <1>6, OneDescriptionChanges DEF SetContentFile

LEMMA SetContentFileFailsKeeps ==
  ASSUME DescriptionInv, NEW h \in Handle, NEW name \in LocalFile, SetContentFileFails(h, name)
  PROVE  DescriptionInv'
<1> DEFINE desc == descs[h]
           next == [desc EXCEPT !.filename = name]
<1>1. desc \in Description /\ asked[h] \in Object /\ Sound(desc, asked[h])
  BY DEF DescriptionInv, DescriptionTypeOK
<1>2. descs' = [descs EXCEPT ![h] = next] /\ asked' = [asked EXCEPT ![h] = asked[h]]
  BY DEF SetContentFileFails, DescriptionInv, DescriptionTypeOK
<1>3. /\ next \in Description
      /\ \A f \in {"tsi", "toi", "data", "length", "md5", "compression", "encoding"} :
           next[f] = desc[f]
  BY <1>1 DEF Description
<1>4. Sound(next, asked[h])
  BY <1>1, <1>3 DEF Sound, Consistent, AsAsked, Named, ObjectFor
<1> QED
  BY <1>1, <1>2, <1>3, <1>4, OneDescriptionChanges DEF SetContentFileFails

LEMMA SetCompressionKeeps ==
  ASSUME DescriptionInv, NEW h \in Handle, NEW encoding \in Encodings, SetCompression(h, encoding)
  PROVE  DescriptionInv'
<1> DEFINE desc == descs[h]
           object == [asked[h] EXCEPT !.encoding = encoding]
           set == [desc EXCEPT !.compression = encoding, !.encoding = encoding, !.toi = 0]
           new == Calculated(set)
           next == IF desc.compression = encoding THEN desc ELSE new
<1>1. desc \in Description /\ asked[h] \in Object /\ Sound(desc, asked[h])
  BY DEF DescriptionInv, DescriptionTypeOK
<1>2. /\ At(desc.data) \in Contents \cup {None}
      /\ desc.length = 0 <=> At(desc.data) = None
  <2>1. desc.data \in Area \cup {None}
    BY <1>1 DEF Description
  <2> QED
    BY <1>1, <2>1, AtType DEF DescriptionInv, Sound, Consistent
<1>3. descs' = [descs EXCEPT ![h] = next] /\ asked' = [asked EXCEPT ![h] = object]
  BY DEF SetCompression
<1>4. object \in Object /\ object.contents = asked[h].contents /\ object.encoding = encoding
  BY <1>1 DEF Object
<1>5. /\ set \in Description
      /\ set.toi = 0 /\ set.encoding = encoding /\ set.compression = encoding
      /\ set.data = desc.data /\ set.length = desc.length
  <2>1. 0 \in 0..ToiBound
    BY DescriptionAssumption
  <2> HIDE DEF desc
  <2> QED
    BY <1>1, <2>1, EncodingIsSet
<1>6. /\ new \in Description /\ new.md5 = At(desc.data)
      /\ new.toi = 0 /\ new.data = desc.data /\ new.length = desc.length
      /\ new.encoding = encoding /\ new.compression = encoding
  <2> HIDE DEF set, desc
  <2> QED
    BY <1>2, <1>5, Md5IsSet
<1>7. Sound(next, object)
  <2> HIDE DEF new
  <2>1. CASE desc.compression = encoding
    BY <1>1, <1>4, <2>1 DEF Sound, AsAsked
  <2>2. CASE desc.compression # encoding
    BY <1>1, <1>4, <1>6, <2>2 DEF Sound, Consistent, AsAsked, Named
  <2> QED
    BY <2>1, <2>2
<1> QED
  <2> HIDE DEF new, object
  <2> QED
    BY <1>1, <1>3, <1>4, <1>6, <1>7, OneDescriptionChanges DEF SetCompression

LEMMA SetDetailsKeeps ==
  ASSUME DescriptionInv, NEW h \in Handle, NEW details \in Details, SetDetails(h, details)
  PROVE  DescriptionInv'
<1> DEFINE desc == descs[h]
           next == [desc EXCEPT !.details = details]
<1>1. desc \in Description /\ asked[h] \in Object /\ Sound(desc, asked[h])
  BY DEF DescriptionInv, DescriptionTypeOK
<1>2. descs' = [descs EXCEPT ![h] = next] /\ asked' = [asked EXCEPT ![h] = asked[h]]
  BY DEF SetDetails, DescriptionInv, DescriptionTypeOK
<1>3. /\ next \in Description
      /\ \A f \in {"tsi", "toi", "data", "length", "md5", "compression", "encoding"} :
           next[f] = desc[f]
  BY <1>1 DEF Description
<1>4. Sound(next, asked[h])
  BY <1>1, <1>3 DEF Sound, Consistent, AsAsked, Named, ObjectFor
<1> QED
  BY <1>1, <1>2, <1>3, <1>4, OneDescriptionChanges DEF SetDetails

LEMMA AssignNewKeeps ==
  ASSUME DescriptionInv, NEW h \in Handle, NEW area \in Buffer \cup {None}, AssignNew(h, area)
  PROVE  DescriptionInv'
<1> DEFINE new == NewDescription(area)
           object == [contents |-> At(area), encoding |-> NoEncoding]
<1>1. /\ new \in Description /\ Consistent(new) /\ new.toi = 0 /\ new.data = area
      /\ new.encoding = NoEncoding /\ new.compression = NoEncoding
  BY NewDescriptionOK DEF DescriptionInv
<1>2. object \in Object
  <2>1. area \in Area \cup {None}
    BY DEF Area
  <2> QED
    BY <2>1, AtType, DescriptionAssumption DEF Object, DescriptionInv
<1>3. descs' = [descs EXCEPT ![h] = new] /\ asked' = [asked EXCEPT ![h] = object]
  BY DEF AssignNew
<1>4. Sound(new, object)
  <2> HIDE DEF new
  <2> QED
    BY <1>1 DEF Sound, AsAsked, Named
<1> QED
  <2> HIDE DEF new, object
  <2> QED
    BY <1>1, <1>2, <1>3, <1>4, OneDescriptionChanges DEF AssignNew

LEMMA AssignKeeps ==
  ASSUME DescriptionInv, NEW h \in Handle, NEW g \in Handle, Assign(h, g)
  PROVE  DescriptionInv'
<1>1. descs[g] \in Description /\ asked[g] \in Object /\ Sound(descs[g], asked[g])
  BY DEF DescriptionInv, DescriptionTypeOK
<1> QED
  BY <1>1, OneDescriptionChanges DEF Assign

\* A local file is made, which no description refers to.
LEMMA FileAppearsKeeps ==
  ASSUME DescriptionInv, NEW name \in LocalFile, NEW c \in Contents, FileAppears(name, c)
  PROVE  DescriptionInv'
<1>1. DescriptionTypeOK'
  BY DEF DescriptionInv, DescriptionTypeOK, FileAppears
<1>2. \A h \in Handle : Sound(descs[h], asked[h])'
  <2> SUFFICES ASSUME NEW h \in Handle PROVE Sound(descs[h], asked[h])'
    OBVIOUS
  <2>1. descs[h] \in Description /\ Sound(descs[h], asked[h])
    BY DEF DescriptionInv, DescriptionTypeOK
  <2>2. descs[h].data # name
    BY <2>1 DEF Sound, Consistent, FileAppears
  <2>3. At(descs[h].data)' = At(descs[h].data)
    BY <2>1, <2>2 DEF At, FileAppears, Description, DescriptionInv, DescriptionTypeOK
  <2>4. Consistent(descs[h])'
    BY <2>1, <2>2, <2>3 DEF Consistent, Sound, FileAppears, Area, DescriptionInv, DescriptionTypeOK
  <2>5. AsAsked(descs[h], asked[h])' /\ Named(descs[h])'
    BY <2>1, <2>3 DEF AsAsked, Named, ObjectFor, Sound, FileAppears
  <2> QED
    BY <2>4, <2>5 DEF Sound
<1>3. Unnamed'
  BY DEF DescriptionInv, Unnamed, FileAppears
<1> QED
  BY <1>1, <1>2, <1>3 DEF DescriptionInv

LEMMA SentWithIs ==
  ASSUME DescriptionTypeOK, NEW desc \in Description, NEW t \in Transmitters
  PROVE  LET sent == SentWith(desc, t)
         IN /\ sent.tsi = t
            /\ sent.toi = IF TakesToi(desc, t) THEN nextToi[t] ELSE desc.toi
            /\ sent.toi \in Nat
            /\ sent.toi <= ToiBound => sent \in Description
            /\ \A f \in {"data", "length", "md5", "compression", "encoding"} : sent[f] = desc[f]
<1> DEFINE fec == Merged(desc.fec, FecOfTransmitter[t])
           toi == IF TakesToi(desc, t) THEN nextToi[t] ELSE desc.toi
           sent == [desc EXCEPT !.tsi = t, !.toi = toi, !.fec = fec]
<1>1. fec \in [symbolLength : Nat, maxBlock : Nat]
  <2>1. /\ FecOfTransmitter[t].symbolLength \in Nat /\ FecOfTransmitter[t].maxBlock \in Nat
    BY DescriptionAssumption
  <2>2. desc.fec.symbolLength \in Nat /\ desc.fec.maxBlock \in Nat
    BY DEF Description
  <2> QED
    BY <2>1, <2>2 DEF Merged
<1>2. toi \in Nat /\ (toi <= ToiBound => toi \in 0..ToiBound)
  BY DescriptionAssumption DEF DescriptionTypeOK, Description
<1>3. SentWith(desc, t) = sent
  BY DEF SentWith
<1> HIDE DEF fec, toi
<1>4. /\ sent.tsi = t /\ sent.toi = toi
      /\ \A f \in {"data", "length", "md5", "compression", "encoding"} : sent[f] = desc[f]
  BY DEF Description
<1>5. ASSUME toi <= ToiBound PROVE sent \in Description
  BY <1>1, <1>2, <1>5 DEF Description
<1> HIDE DEF sent
<1> QED
  BY <1>2, <1>3, <1>4, <1>5 DEF toi

\* A TOI that is taken named nothing before; one that is kept names what it did.
LEMMA SendKeeps ==
  ASSUME DescriptionInv, NEW h \in Handle, NEW t \in Transmitters, Send(h, t)
  PROVE  DescriptionInv'
<1> DEFINE desc == descs[h]
           sent == SentWith(desc, t)
           toi == sent.toi
<1>1. desc \in Description /\ asked[h] \in Object /\ Sound(desc, asked[h])
  BY DEF DescriptionInv, DescriptionTypeOK
<1>2. /\ sent \in Description /\ sent.tsi = t /\ toi <= ToiBound
      /\ toi = IF TakesToi(desc, t) THEN nextToi[t] ELSE desc.toi
      /\ \A f \in {"data", "length", "md5", "compression", "encoding"} : sent[f] = desc[f]
  <2>1. toi <= ToiBound
    BY DEF Send
  <2> HIDE DEF desc
  <2> QED
    BY <1>1, <2>1, SentWithIs DEF DescriptionInv
<1>3. /\ descs' = [descs EXCEPT ![h] = sent]
      /\ nextToi' = IF TakesToi(desc, t) THEN [nextToi EXCEPT ![t] = @ + 1] ELSE nextToi
      /\ objectOf' = [objectOf EXCEPT ![t][toi] = IF @ = None THEN ObjectFor(desc) ELSE @]
      /\ memory' = memory /\ asked' = asked
  BY DEF Send
<1> HIDE DEF sent
<1>4. ObjectFor(desc) \in Object
  <2>1. desc.data \in Area \cup {None} /\ desc.encoding \in Encodings
    BY <1>1 DEF Description
  <2> QED
    BY <2>1, AtType DEF ObjectFor, Object, DescriptionInv
<1>5. toi \in 1..ToiBound
  BY <1>1, <1>2 DEF TakesToi, Description, DescriptionInv, DescriptionTypeOK
<1>6. /\ nextToi \in [Transmitters -> 1..(ToiBound + 1)]
      /\ objectOf \in [Transmitters -> [1..ToiBound -> Object \cup {None}]]
      /\ nextToi' \in [Transmitters -> 1..(ToiBound + 1)]
      /\ objectOf' \in [Transmitters -> [1..ToiBound -> Object \cup {None}]]
  <2>1. nextToi \in [Transmitters -> 1..(ToiBound + 1)]
        /\ objectOf \in [Transmitters -> [1..ToiBound -> Object \cup {None}]]
    BY DEF DescriptionInv, DescriptionTypeOK
  <2>2. objectOf' \in [Transmitters -> [1..ToiBound -> Object \cup {None}]]
    BY <1>3, <1>4, <1>5, <2>1
  <2>3. nextToi' \in [Transmitters -> 1..(ToiBound + 1)]
    BY <1>2, <1>3, <2>1, DescriptionAssumption
  <2> QED
    BY <2>1, <2>2, <2>3
<1>7. objectOf'[t][toi] = ObjectFor(desc) /\ toi < nextToi'[t]
  <2>1. CASE TakesToi(desc, t)
    <3>1. toi = nextToi[t] /\ objectOf[t][toi] = None
      BY <1>2, <1>5, <1>6, <2>1 DEF DescriptionInv, Unnamed
    <3> QED
      BY <1>3, <1>5, <1>6, <2>1, <3>1
  <2>2. CASE ~TakesToi(desc, t)
    <3>1. desc.toi # 0 /\ desc.tsi \in {None, t} /\ toi = desc.toi
      BY <1>2, <2>2 DEF TakesToi
    <3>2. desc.tsi = t
      BY <1>1, <3>1, DescriptionAssumption DEF Sound, Named
    <3>3. objectOf[t][toi] = ObjectFor(desc) /\ toi < nextToi[t]
      BY <1>1, <3>1, <3>2 DEF Sound, Named
    <3> QED
      BY <1>3, <1>5, <1>6, <2>2, <3>3
  <2> QED
    BY <2>1, <2>2
<1>8. \A u \in Transmitters, i \in 1..ToiBound :
         /\ nextToi[u] <= nextToi'[u]
         /\ objectOf[u][i] # None => objectOf'[u][i] = objectOf[u][i]
         /\ <<u, i>> # <<t, toi>> => objectOf'[u][i] = objectOf[u][i]
  <2> SUFFICES ASSUME NEW u \in Transmitters, NEW i \in 1..ToiBound
               PROVE  /\ nextToi[u] <= nextToi'[u]
                      /\ objectOf[u][i] # None => objectOf'[u][i] = objectOf[u][i]
                      /\ <<u, i>> # <<t, toi>> => objectOf'[u][i] = objectOf[u][i]
    OBVIOUS
  <2>1. nextToi[u] <= nextToi'[u]
    BY <1>3, <1>6
  <2> QED
    BY <1>3, <1>5, <1>6, <2>1
<1>9. DescriptionTypeOK'
  BY <1>2, <1>3, <1>6 DEF DescriptionInv, DescriptionTypeOK
<1>10. \A g \in Handle : Sound(descs[g], asked[g])'
  <2> SUFFICES ASSUME NEW g \in Handle PROVE Sound(descs[g], asked[g])'
    OBVIOUS
  <2>1. CASE g = h
    <3>1. descs'[g] = sent /\ asked'[g] = asked[h]
      BY <1>3, <2>1 DEF DescriptionInv, DescriptionTypeOK
    <3>2. At(descs[g].data)' = At(desc.data) /\ ObjectFor(descs[g])' = ObjectFor(desc)
      BY <1>2, <1>3, <3>1 DEF At, ObjectFor
    <3>3. Consistent(descs[g])' /\ AsAsked(descs[g], asked[g])'
      BY <1>1, <1>2, <1>3, <3>1, <3>2 DEF Sound, Consistent, AsAsked
    <3>4. Named(descs[g])'
      BY <1>2, <1>7, <3>1, <3>2 DEF Named
    <3> QED
      BY <3>3, <3>4 DEF Sound
  <2>2. CASE g # h
    <3>1. descs'[g] = descs[g] /\ asked'[g] = asked[g]
      BY <1>3, <2>2 DEF DescriptionInv, DescriptionTypeOK
    <3>2. descs[g] \in Description /\ Sound(descs[g], asked[g])
      BY DEF DescriptionInv, DescriptionTypeOK
    <3>3. At(descs[g].data)' = At(descs[g].data) /\ ObjectFor(descs[g])' = ObjectFor(descs[g])
      BY <1>3, <3>1 DEF At, ObjectFor
    <3>4. Consistent(descs[g])' /\ AsAsked(descs[g], asked[g])'
      BY <1>3, <3>1, <3>2, <3>3 DEF Sound, Consistent, AsAsked
    <3>5. Named(descs[g])'
      <4> SUFFICES ASSUME descs[g].toi # 0
                   PROVE  /\ descs[g].tsi \in Transmitters
                          /\ descs[g].toi < nextToi'[descs[g].tsi]
                          /\ objectOf'[descs[g].tsi][descs[g].toi] = ObjectFor(descs[g])
        BY <3>1, <3>3 DEF Named
      <4> DEFINE u == descs[g].tsi
                 i == descs[g].toi
      <4>1. u \in Transmitters /\ i < nextToi[u] /\ objectOf[u][i] = ObjectFor(descs[g])
        BY <3>2 DEF Sound, Named
      <4>2. i \in 1..ToiBound
        BY <3>2 DEF Description
      <4>3. i < nextToi'[u]
        BY <1>6, <1>8, <4>1, <4>2
      <4>4. objectOf'[u][i] = objectOf[u][i]
        <5>1. CASE <<u, i>> # <<t, toi>>
          BY <1>8, <4>1, <4>2, <5>1
        <5>2. CASE u = t /\ i = toi
          <6>1. ~TakesToi(desc, t)
            BY <1>2, <1>6, <4>1, <4>2, <5>2
          <6>2. desc.toi # 0 /\ desc.tsi = t /\ toi = desc.toi
            BY <1>1, <1>2, <6>1, DescriptionAssumption DEF TakesToi, Sound, Named
          <6>3. objectOf[t][toi] = ObjectFor(desc)
            BY <1>1, <6>2 DEF Sound, Named
          <6> QED
            BY <1>7, <5>2, <6>3
        <5> QED
          BY <5>1, <5>2
      <4> QED
        BY <4>1, <4>3, <4>4
    <3> QED
      BY <3>4, <3>5 DEF Sound
  <2> QED
    BY <2>1, <2>2
<1>11. Unnamed'
  <2> SUFFICES ASSUME NEW u \in Transmitters, NEW i \in 1..ToiBound, i >= nextToi'[u]
               PROVE  objectOf'[u][i] = None
    BY DEF Unnamed
  <2>1. nextToi[u] <= i /\ objectOf[u][i] = None
    BY <1>6, <1>8 DEF DescriptionInv, Unnamed
  <2>2. <<u, i>> # <<t, toi>>
    BY <1>5, <1>6, <1>7
  <2> QED
    BY <1>8, <2>1, <2>2
<1> QED
  BY <1>9, <1>10, <1>11 DEF DescriptionInv

-----------------------------------------------------------------------------
LEMMA DescriptionInitInv == DescriptionInit => DescriptionInv
<1> SUFFICES ASSUME DescriptionInit PROVE DescriptionInv
  OBVIOUS
<1> DEFINE new == NewDescription(None)
           nothing == [contents |-> None, encoding |-> NoEncoding]
<1>1. /\ memory \in [Area -> Contents \cup {None}]
      /\ descs = [h \in Handle |-> new] /\ asked = [h \in Handle |-> nothing]
      /\ nextToi = [t \in Transmitters |-> 1]
      /\ objectOf = [t \in Transmitters |-> [toi \in 1..ToiBound |-> None]]
  BY DEF DescriptionInit
<1>2. At(None) = None /\ Size[None] = 0 /\ None \notin LocalFile /\ None \notin Area
  BY DescriptionAssumption DEF At, Area
<1>3. NoEncoding \in Encodings /\ NoDetails \in Details /\ 0 \in 0..ToiBound
  BY DescriptionAssumption
<1>4. new = [tsi |-> None, toi |-> 0, data |-> None, length |-> 0, md5 |-> None,
             filename |-> None, compression |-> NoEncoding, encoding |-> NoEncoding,
             details |-> NoDetails, fec |-> [symbolLength |-> 0, maxBlock |-> 0]]
  BY <1>2 DEF NewDescription, Calculated
<1>5. new \in Description /\ nothing \in Object
  BY <1>3, <1>4 DEF Description, Object
<1>6. Sound(new, nothing)
  BY <1>2, <1>4 DEF Sound, Consistent, AsAsked, Named
<1> HIDE DEF new, nothing
<1>7. DescriptionTypeOK
  BY <1>1, <1>5, DescriptionAssumption DEF DescriptionTypeOK
<1>8. Unnamed
  BY <1>1 DEF Unnamed
<1> QED
  BY <1>1, <1>6, <1>7, <1>8 DEF DescriptionInv

LEMMA DescriptionNextInv == DescriptionInv /\ [DescriptionNext]_descVars => DescriptionInv'
<1> SUFFICES ASSUME DescriptionInv, [DescriptionNext]_descVars PROVE DescriptionInv'
  OBVIOUS
<1>1. ASSUME NEW h \in Handle, NEW area \in Buffer \cup {None},
             \/ SetContent(h, area)
             \/ AssignNew(h, area)
      PROVE  DescriptionInv'
  BY <1>1, SetContentKeeps, AssignNewKeeps
<1>2. ASSUME NEW h \in Handle, NEW g \in Handle, Assign(h, g)
      PROVE  DescriptionInv'
  BY <1>2, AssignKeeps
<1>3. ASSUME NEW h \in Handle, NEW name \in LocalFile,
             \/ descs[h].filename \in {None, descs[h].data} /\ SetContentFile(h, name)
             \/ SetContentFileFails(h, name)
      PROVE  DescriptionInv'
  BY <1>3, SetContentFileKeeps, SetContentFileFailsKeeps
<1>4. ASSUME NEW h \in Handle, NEW encoding \in Encodings, SetCompression(h, encoding)
      PROVE  DescriptionInv'
  BY <1>4, SetCompressionKeeps
<1>5. ASSUME NEW h \in Handle, NEW details \in Details, SetDetails(h, details)
      PROVE  DescriptionInv'
  BY <1>5, SetDetailsKeeps
<1>6. ASSUME NEW h \in Handle, NEW t \in Transmitters, Send(h, t)
      PROVE  DescriptionInv'
  BY <1>6, SendKeeps
<1>7. ASSUME NEW name \in LocalFile, NEW c \in Contents, FileAppears(name, c)
      PROVE  DescriptionInv'
  BY <1>7, FileAppearsKeeps
<1>8. CASE UNCHANGED descVars
  BY <1>8 DEF DescriptionInv, DescriptionTypeOK, Sound, Consistent, AsAsked, Named, Unnamed,
     At, ObjectFor, descVars
<1> QED
  BY <1>1, <1>2, <1>3, <1>4, <1>5, <1>6, <1>7, <1>8 DEF DescriptionNext

LEMMA DescriptionInvariant == DescriptionSpec => []DescriptionInv
  BY DescriptionInitInv, DescriptionNextInv, PTL DEF DescriptionSpec

\* The variables keep their types, whatever an application does with its descriptions.
THEOREM DescriptionTypeCorrect == DescriptionSpec => []DescriptionTypeOK
<1>1. DescriptionInv => DescriptionTypeOK
  BY DEF DescriptionInv
<1> QED
  BY <1>1, DescriptionInvariant, PTL

\* A TOI of a session never names two objects, as set_content, set_compression, operator=
\* and the TSI kept with a TOI see to.
THEOREM ToisNameOneObject == DescriptionSpec => []ToiNamesOneObject
<1>1. DescriptionInv => ToiNamesOneObject
  BY InvImplies
<1> QED
  BY <1>1, DescriptionInvariant, PTL

\* The length, the MD5 and the encoding announced are those of the contents set last, as
\* _calculate_file_entry sees to, for an application that leaves areas it set alone.
THEOREM DescriptionsDescribeWhatWasSet == DescriptionSpec => []DescribesWhatWasSet
<1>1. DescriptionInv => DescribesWhatWasSet
  BY InvImplies
<1> QED
  BY <1>1, DescriptionInvariant, PTL

-----------------------------------------------------------------------------
(* Packet headers *)

LEMMA HalfWordIs == HalfWord \in Nat /\ HalfWord > 1 /\ Whole \in Nat /\ HalfWord < Whole
                    /\ InstanceModulus \in Nat /\ HalfWord < InstanceModulus
<1>1. HalfWord \in Nat /\ HalfWord > 1
  BY HalfWordAssumption
<1>2. HalfWord * HalfWord > HalfWord /\ HalfWord * HalfWord \in Nat
  BY <1>1
<1> QED
  BY <1>1, <1>2 DEF Whole, InstanceModulus

LEMMA Fits ==
  ASSUME NEW m \in Nat \ {0}, NEW n \in 0..(m - 1)
  PROVE  n % m = n
  OBVIOUS

LEMMA MaxIs ==
  ASSUME NEW k \in Nat, NEW s \in SUBSET (1..k), k \in s
  PROVE  Max(s) = k
<1>1. \A i \in s : i \in Nat /\ k >= i
  OBVIOUS
<1>2. \E m \in s : \A i \in s : m >= i
  BY <1>1
<1>3. Max(s) \in s /\ \A i \in s : Max(s) >= i
  BY <1>2 DEF Max
<1> DEFINE m == Max(s)
<1>4. m \in Nat /\ m <= k /\ m >= k
  BY <1>1, <1>3
<1> HIDE DEF m
<1>5. m = k
  BY <1>4
<1> QED
  BY <1>5 DEF m

\* What is known before the first extension and after each.
IsReading(read, known, extensions, n) ==
  /\ read[0] = known
  /\ \A k \in 1..n : read[k] = Reading(read[k - 1], extensions[k])
  /\ ReadAll(known, extensions) = read[n]

\* ReadAll reads the extensions one after the other.
LEMMA ReadInOrder ==
  ASSUME NEW known, NEW extensions, NEW n \in Nat, DOMAIN extensions = 1..n
  PROVE  \E read : IsReading(read, known, extensions, n)
<1> DEFINE Solves(f, k) == f = [s \in SUBSET (1..k) |->
                                  IF s = {} THEN known
                                  ELSE Reading(f[s \ {Max(s)}], extensions[Max(s)])]
           S == {k \in Nat : \E f : Solves(f, k)}
<1>1. \A k \in Nat : \A s \in SUBSET (1..k) : k \in s => Max(s) = k
  BY MaxIs
<1>2. 0 \in S
  <2>1. 1..0 = {} /\ SUBSET (1..0) = {{}}
    OBVIOUS
  <2>2. Solves([s \in SUBSET (1..0) |-> known], 0)
    BY <2>1
  <2> QED
    BY <2>2
<1>3. ASSUME NEW k \in Nat, k \in S
      PROVE  k + 1 \in S
  <2>1. PICK f : Solves(f, k)
    BY <1>3
  <2> DEFINE g == [s \in SUBSET (1..(k + 1)) |->
                     IF k + 1 \in s THEN Reading(f[s \ {k + 1}], extensions[k + 1]) ELSE f[s]]
  <2>2. ASSUME NEW s \in SUBSET (1..(k + 1))
        PROVE  g[s] = IF s = {} THEN known ELSE Reading(g[s \ {Max(s)}], extensions[Max(s)])
    <3>1. CASE k + 1 \in s
      <4>1. Max(s) = k + 1 /\ s # {} /\ k + 1 \notin s \ {k + 1}
            /\ s \ {k + 1} \in SUBSET (1..(k + 1))
        BY <1>1, <3>1
      <4>2. g[s \ {k + 1}] = f[s \ {k + 1}]
        BY <4>1
      <4>3. g[s] = Reading(f[s \ {k + 1}], extensions[k + 1])
        BY <3>1
      <4> HIDE DEF g
      <4> QED
        BY <4>1, <4>2, <4>3
    <3>2. CASE k + 1 \notin s
      <4>1. s \in SUBSET (1..k)
        BY <3>2
      <4>2. \A d : /\ s \ {d} \in SUBSET (1..(k + 1)) /\ k + 1 \notin s \ {d}
        BY <3>2
      <4>3. g[s] = f[s] /\ \A d : g[s \ {d}] = f[s \ {d}]
        BY <3>2, <4>2
      <4>4. f[s] = IF s = {} THEN known ELSE Reading(f[s \ {Max(s)}], extensions[Max(s)])
        BY <2>1, <4>1
      <4> HIDE DEF g, Solves
      <4> QED
        BY <4>3, <4>4
    <3> QED
      BY <3>1, <3>2
  <2>3. Solves(g, k + 1)
    <3>1. g = [s \in SUBSET (1..(k + 1)) |-> g[s]]
      OBVIOUS
    <3> HIDE DEF g
    <3> QED
      BY <2>2, <3>1
  <2> HIDE DEF Solves
  <2> QED
    BY <2>3
<1>4. n \in S
  <2> HIDE DEF S
  <2> QED
    BY <1>2, <1>3, SetInduction
<1>5. ReadAll(known, extensions) = (CHOOSE f : Solves(f, n))[1..n]
  BY DEF ReadAll, FoldLeft, MapThenFoldSet
<1>6. PICK f : Solves(f, n) /\ ReadAll(known, extensions) = f[1..n]
  <2> HIDE DEF Solves
  <2> QED
    BY <1>4, <1>5
<1> DEFINE read == [k \in 0..n |-> f[1..k]]
<1>7. read[0] = known
  <2>1. 1..0 = {} /\ {} \in SUBSET (1..n)
    OBVIOUS
  <2> QED
    BY <1>6, <2>1
<1>8. ASSUME NEW k \in 1..n
      PROVE  read[k] = Reading(read[k - 1], extensions[k])
  <2>1. (1..k) \in SUBSET (1..n) /\ k \in 1..k /\ (1..k) \ {k} = 1..(k - 1)
    OBVIOUS
  <2>2. Max(1..k) = k
    <3>1. 1..k \in SUBSET (1..k) /\ k \in Nat
      OBVIOUS
    <3> QED
      BY <1>1, <2>1, <3>1
  <2>3. f[1..k] = Reading(f[(1..k) \ {Max(1..k)}], extensions[Max(1..k)])
    BY <1>6, <2>1
  <2>4. read[k] = f[1..k] /\ read[k - 1] = f[1..(k - 1)]
    OBVIOUS
  <2> HIDE DEF read, Solves
  <2> QED
    BY <2>1, <2>2, <2>3, <2>4
<1>9. ReadAll(known, extensions) = read[n]
  <2>1. read[n] = f[1..n]
    OBVIOUS
  <2> HIDE DEF read, Solves
  <2> QED
    BY <1>6, <2>1
<1> HIDE DEF read
<1>10. IsReading(read, known, extensions, n)
  BY <1>7, <1>8, <1>9 DEF IsReading
<1> QED
  BY <1>10

LEMMA Around ==
  ASSUME NEW S, NEW a \in S, NEW r \in Seq(S), NEW d \in S, NEW e \in S
  PROVE  LET w == <<a>> \o r \o <<d, e>>
         IN /\ DOMAIN w = 1..(Len(r) + 3)
            /\ w[1] = a /\ w[Len(r) + 2] = d /\ w[Len(r) + 3] = e
            /\ \A i \in 1..Len(r) : w[i + 1] = r[i]
<1> DEFINE s == <<a>>
           t == <<d, e>>
           u == s \o r
           w == u \o t
<1>1. /\ s \in Seq(S) /\ Len(s) = 1 /\ s[1] = a
      /\ t \in Seq(S) /\ Len(t) = 2 /\ t[1] = d /\ t[2] = e /\ Len(r) \in Nat
  OBVIOUS
<1> HIDE DEF s, t
<1>2. u \in Seq(S) /\ Len(u) = Len(r) + 1 /\ u[1] = a /\ \A i \in 1..Len(r) : u[i + 1] = r[i]
  <2>1. /\ u \in Seq(S) /\ Len(u) = Len(s) + Len(r)
        /\ \A i \in 1..(Len(s) + Len(r)) : u[i] = IF i <= Len(s) THEN s[i] ELSE r[i - Len(s)]
    BY <1>1, ConcatProperties
  <2> HIDE DEF u
  <2> QED
    BY <1>1, <2>1
<1> HIDE DEF u
<1>3. /\ w \in Seq(S) /\ Len(w) = Len(u) + Len(t)
      /\ \A i \in 1..(Len(u) + Len(t)) : w[i] = IF i <= Len(u) THEN u[i] ELSE t[i - Len(u)]
  BY <1>1, <1>2, ConcatProperties
<1> HIDE DEF w
<1>4. DOMAIN w = 1..(Len(r) + 3)
  BY <1>1, <1>2, <1>3
<1>5. w[1] = a /\ w[Len(r) + 2] = d /\ w[Len(r) + 3] = e
  <2>1. w[1] = a
    BY <1>1, <1>2, <1>3
  <2>2. \A j \in 1..2 : Len(r) + 1 + j \in 1..(Len(u) + Len(t)) /\ Len(r) + 1 + j - Len(u) = j
    BY <1>1, <1>2
  <2>3. \A j \in 1..2 : w[Len(r) + 1 + j] = t[j]
    BY <1>1, <1>2, <1>3, <2>2
  <2>4. w[Len(r) + 1 + 1] = d /\ w[Len(r) + 1 + 2] = e
    BY <1>1, <2>3
  <2>5. Len(r) + 1 + 1 = Len(r) + 2 /\ Len(r) + 1 + 2 = Len(r) + 3
    BY <1>1
  <2> QED
    BY <2>1, <2>4, <2>5
<1>6. \A i \in 1..Len(r) : w[i + 1] = r[i]
  BY <1>1, <1>2, <1>3
<1> QED
  BY <1>4, <1>5, <1>6 DEF w, u, s, t
HeaderFits(tsi, toi, fec, instance) ==
  /\ tsi \in 0..(HalfWord - 1) /\ toi \in 0..(HalfWord - 1)
  /\ fec \in [transferLength : 0..(HalfWord - 1), symbolLength : 0..(HalfWord - 1),
              maxBlock : 0..(Whole - 1)]
  /\ instance \in 0..(InstanceModulus - 1)

\* A header, and the ways in which others say the same.
FormsOf(header) == {header, InWords(header), Widened(header), Rearranged(header)}

LEMMA BuiltIs ==
  ASSUME NEW tsi, NEW toi, NEW fec, NEW instance, HeaderFits(tsi, toi, fec, instance)
  PROVE  Built(tsi, toi, fec, instance) =
           [version |-> 1, congestion |-> 0, half |-> 1, tsiWords |-> 0, toiWords |-> 0,
            closeSession |-> 0, codepoint |-> 0, fields |-> <<tsi, toi>>,
            extensions |->
              IF toi = 0
              THEN <<Extension(FDT, 0, [version |-> 1, instance |-> instance]),
                     Extension(FTI, 4, [high |-> 0, low |-> fec.transferLength,
                                        symbolLength |-> fec.symbolLength,
                                        maxBlock |-> fec.maxBlock])>>
              ELSE <<>>]
<1>1. /\ tsi % HalfWord = tsi /\ toi % HalfWord = toi
      /\ instance % InstanceModulus = instance
      /\ fec.transferLength % HalfWord = fec.transferLength
      /\ fec.symbolLength % HalfWord = fec.symbolLength
      /\ fec.maxBlock % Whole = fec.maxBlock
  BY HalfWordIs, Fits DEF HeaderFits
<1> QED
  BY <1>1 DEF Built, FdtExtension, FtiExtension

LEMMA BuiltHas ==
  ASSUME NEW tsi, NEW toi, NEW fec, NEW instance, HeaderFits(tsi, toi, fec, instance)
  PROVE  LET header == Built(tsi, toi, fec, instance)
         IN header = [version |-> 1, congestion |-> 0, half |-> 1, tsiWords |-> 0, toiWords |-> 0,
                      closeSession |-> 0, codepoint |-> 0, fields |-> <<tsi, toi>>,
                      extensions |-> header.extensions]
<1> DEFINE header == Built(tsi, toi, fec, instance)
           extensions ==
             IF toi = 0
             THEN <<Extension(FDT, 0, [version |-> 1, instance |-> instance]),
                    Extension(FTI, 4, [high |-> 0, low |-> fec.transferLength,
                                       symbolLength |-> fec.symbolLength,
                                       maxBlock |-> fec.maxBlock])>>
             ELSE <<>>
<1>1. header = [version |-> 1, congestion |-> 0, half |-> 1, tsiWords |-> 0, toiWords |-> 0,
                closeSession |-> 0, codepoint |-> 0, fields |-> <<tsi, toi>>,
                extensions |-> extensions]
  BY BuiltIs
<1> HIDE DEF header, extensions
<1>2. header.extensions = extensions
  BY <1>1
<1>3. header = [version |-> 1, congestion |-> 0, half |-> 1, tsiWords |-> 0, toiWords |-> 0,
                closeSession |-> 0, codepoint |-> 0, fields |-> <<tsi, toi>>,
                extensions |-> header.extensions]
  BY <1>1, <1>2
<1> QED
  BY <1>3 DEF header

LEMMA NumbersAreRead ==
  ASSUME NEW tsi, NEW toi, NEW fec, NEW instance, HeaderFits(tsi, toi, fec, instance),
         NEW same \in FormsOf(Built(tsi, toi, fec, instance))
  PROVE  ~Unsupported(same) /\ Tsi(same) = tsi /\ Toi(same) = toi
<1> DEFINE header == Built(tsi, toi, fec, instance)
<1> DEFINE extensions == header.extensions
<1>1. header = [version |-> 1, congestion |-> 0, half |-> 1, tsiWords |-> 0, toiWords |-> 0,
                closeSession |-> 0, codepoint |-> 0, fields |-> <<tsi, toi>>,
                extensions |-> extensions]
  BY BuiltHas
<1>2. /\ tsi \in Nat /\ toi \in Nat /\ (0 * HalfWord) % Whole = 0
  <2>1. 0 \in 0..(Whole - 1) /\ Whole \in Nat \ {0} /\ 0 * HalfWord = 0
    BY HalfWordIs
  <2> QED
    BY <2>1, HalfWordIs, Fits DEF HeaderFits
<1> HIDE DEF header, extensions
<1>3. CASE same = header
  BY <1>1, <1>2, <1>3 DEF Unsupported, Tsi, Toi
<1>4. CASE same = InWords(header)
  BY <1>1, <1>2, <1>4 DEF Unsupported, Tsi, Toi, InWords, Shifted
<1>5. CASE same = Widened(header)
  BY <1>1, <1>2, <1>5 DEF Unsupported, Tsi, Toi, Widened, Shifted
<1>6. CASE same = Rearranged(header)
  BY <1>1, <1>2, <1>6 DEF Unsupported, Tsi, Toi, Rearranged
<1> QED
  BY <1>3, <1>4, <1>5, <1>6 DEF FormsOf, header

LEMMA ExtensionsAreRead ==
  ASSUME NEW tsi, NEW toi, NEW fec, NEW instance, HeaderFits(tsi, toi, fec, instance),
         NEW same \in FormsOf(Built(tsi, toi, fec, instance)),
         NEW known, known = [tsi |-> tsi, toi |-> toi, instance |-> 0, fec |-> NoFec,
                             encoding |-> "none"]
  PROVE  /\ ReadAll(known, same.extensions) = Said(tsi, toi, fec, instance)
         /\ \A i \in DOMAIN same.extensions : ~Invalid(same.extensions[i])
<1> DEFINE header == Built(tsi, toi, fec, instance)
           fdt == Extension(FDT, 0, [version |-> 1, instance |-> instance])
           fti == Extension(FTI, 4, [high |-> 0, low |-> fec.transferLength,
                                     symbolLength |-> fec.symbolLength,
                                     maxBlock |-> fec.maxBlock])
           time == Extension(TIME, 1, None)
           cenc == Extension(CENC, 0, 9)
           auth == Extension(AUTH, 2, None)
           told == Said(tsi, toi, fec, instance)
           withFdt(k) == [k EXCEPT !.instance = instance]
           withFti(k) == [k EXCEPT !.fec = fec]
<1>1. header.extensions = IF toi = 0 THEN <<fdt, fti>> ELSE <<>>
  BY BuiltIs
<1>2. /\ ~Invalid(fdt) /\ ~Invalid(fti) /\ ~Invalid(time) /\ ~Invalid(cenc) /\ ~Invalid(auth)
  BY DEF Invalid, Extension, FDT, FTI, TIME, CENC, AUTH
<1>3. \A k : Reading(k, time) = k /\ Reading(k, auth) = k /\ Reading(k, cenc) = k
  BY DEF Reading, Extension, FDT, FTI, TIME, CENC, AUTH, ContentEncodings
<1>4. \A k : Reading(k, fdt) = withFdt(k)
  BY DEF Reading, Extension, FDT, FTI, CENC
<1>5. \A k : Reading(k, fti) = withFti(k)
  <2>1. \A k, e : e.het = FTI =>
          Reading(k, e) =
            [k EXCEPT !.fec = [transferLength |-> e.contents.high * Whole + e.contents.low,
                               symbolLength   |-> e.contents.symbolLength,
                               maxBlock       |-> e.contents.maxBlock]]
    BY DEF Reading, FTI, FDT, CENC
  <2>2. /\ fti.het = FTI /\ fti.contents.high = 0 /\ fti.contents.low = fec.transferLength
        /\ fti.contents.symbolLength = fec.symbolLength /\ fti.contents.maxBlock = fec.maxBlock
    BY DEF Extension
  <2>3. 0 * Whole + fec.transferLength = fec.transferLength
    BY HalfWordIs DEF HeaderFits
  <2>4. fec = [transferLength |-> fec.transferLength, symbolLength |-> fec.symbolLength,
               maxBlock |-> fec.maxBlock]
    BY DEF HeaderFits
  <2> HIDE DEF fti
  <2>5. [transferLength |-> fti.contents.high * Whole + fti.contents.low,
         symbolLength   |-> fti.contents.symbolLength,
         maxBlock       |-> fti.contents.maxBlock] = fec
    BY <2>2, <2>3, <2>4
  <2> QED
    BY <2>1, <2>2, <2>5
<1>6. toi = 0 => withFti(withFdt(known)) = told /\ withFdt(withFti(known)) = told
  <2>1. toi = 0 => told = [tsi |-> tsi, toi |-> toi, instance |-> instance, fec |-> fec,
                           encoding |-> "none"]
    BY DEF Said
  <2>2. withFdt(known) = [tsi |-> tsi, toi |-> toi, instance |-> instance, fec |-> NoFec,
                          encoding |-> "none"]
    OBVIOUS
  <2>3. withFti(known) = [tsi |-> tsi, toi |-> toi, instance |-> 0, fec |-> fec,
                          encoding |-> "none"]
    OBVIOUS
  <2> HIDE DEF told
  <2>4. \A k : k = [tsi |-> tsi, toi |-> toi, instance |-> instance, fec |-> NoFec,
                    encoding |-> "none"]
                => withFti(k) = [tsi |-> tsi, toi |-> toi, instance |-> instance, fec |-> fec,
                                 encoding |-> "none"]
    OBVIOUS
  <2>5. \A k : k = [tsi |-> tsi, toi |-> toi, instance |-> 0, fec |-> fec,
                    encoding |-> "none"]
                => withFdt(k) = [tsi |-> tsi, toi |-> toi, instance |-> instance, fec |-> fec,
                                 encoding |-> "none"]
    OBVIOUS
  <2> HIDE DEF withFdt, withFti
  <2> QED
    BY <2>1, <2>2, <2>3, <2>4, <2>5
<1>7. toi # 0 => known = told
  BY DEF Said
<1> HIDE DEF fdt, fti, time, cenc, auth, told, withFdt, withFti
<1>8. ASSUME NEW n \in Nat, DOMAIN same.extensions = 1..n
      PROVE  \E read : IsReading(read, known, same.extensions, n)
  BY <1>8, ReadInOrder
<1>9. CASE same.extensions = header.extensions
  <2>1. CASE toi = 0
    <3>1. /\ DOMAIN same.extensions = 1..2 /\ same.extensions[1] = fdt /\ same.extensions[2] = fti
      BY <1>1, <1>9, <2>1
    <3>2. PICK read : /\ read[0] = known
                      /\ \A k \in 1..2 : read[k] = Reading(read[k - 1], same.extensions[k])
                      /\ ReadAll(known, same.extensions) = read[2]
      BY <1>8, <3>1 DEF IsReading
    <3>3. /\ read[1] = Reading(read[0], same.extensions[1])
          /\ read[2] = Reading(read[1], same.extensions[2])
      BY <3>2
    <3>4. read[2] = told
      BY <1>4, <1>5, <1>6, <2>1, <3>1, <3>2, <3>3
    <3>5. \A i \in 1..2 : ~Invalid(same.extensions[i])
      BY <1>2, <3>1
    <3> QED
      BY <3>1, <3>2, <3>4, <3>5 DEF told
  <2>2. CASE toi # 0
    <3>1. DOMAIN same.extensions = 1..0
      BY <1>1, <1>9, <2>2
    <3>2. PICK read : /\ read[0] = known
                      /\ ReadAll(known, same.extensions) = read[0]
      BY <1>8, <3>1 DEF IsReading
    <3> QED
      BY <1>7, <2>2, <3>1, <3>2 DEF told
  <2> QED
    BY <2>1, <2>2
<1>10. CASE same = Rearranged(header)
  <2> DEFINE S == {fdt, fti, time, cenc, auth}
             inner == IF toi = 0 THEN <<fti, fdt>> ELSE <<>>
             w == <<time>> \o inner \o <<cenc, auth>>
  <2>1. same.extensions = w
    <3>1. same.extensions = <<time>> \o Reverse(header.extensions) \o <<cenc, auth>>
      BY <1>10, BuiltIs DEF Rearranged, time, cenc, auth
    <3>2. Reverse(<<fdt, fti>>) = <<fti, fdt>> /\ Reverse(<<>>) = <<>>
      BY DEF Reverse
    <3> QED
      BY <1>1, <3>1, <3>2
  <2>2. inner \in Seq(S) /\ Len(inner) = (IF toi = 0 THEN 2 ELSE 0)
    <3>1. <<fti, fdt>> \in Seq(S) /\ Len(<<fti, fdt>>) = 2
      OBVIOUS
    <3>2. <<>> \in Seq(S) /\ Len(<<>>) = 0
      OBVIOUS
    <3> HIDE DEF S
    <3> QED
      BY <3>1, <3>2
  <2>3. /\ DOMAIN w = 1..(Len(inner) + 3)
        /\ w[1] = time /\ w[Len(inner) + 2] = cenc /\ w[Len(inner) + 3] = auth
        /\ \A i \in 1..Len(inner) : w[i + 1] = inner[i]
    <3> HIDE DEF inner
    <3>1. time \in S /\ cenc \in S /\ auth \in S
      OBVIOUS
    <3>2. inner \in Seq(S)
      BY <2>2
    <3> HIDE DEF S
    <3> QED
      BY <3>1, <3>2, Around
  <2> HIDE DEF w
  <2>4. CASE toi = 0
    <3>1. /\ DOMAIN w = 1..5 /\ w[1] = time /\ w[2] = fti /\ w[3] = fdt /\ w[4] = cenc
          /\ w[5] = auth
      BY <2>2, <2>3, <2>4
    <3>2. PICK read : /\ read[0] = known
                      /\ \A k \in 1..5 : read[k] = Reading(read[k - 1], w[k])
                      /\ ReadAll(known, same.extensions) = read[5]
      BY <1>8, <2>1, <3>1 DEF IsReading
    <3>3. /\ read[1] = Reading(read[0], w[1]) /\ read[2] = Reading(read[1], w[2])
          /\ read[3] = Reading(read[2], w[3]) /\ read[4] = Reading(read[3], w[4])
          /\ read[5] = Reading(read[4], w[5])
      BY <3>2
    <3>4. read[5] = told
      BY <1>3, <1>4, <1>5, <1>6, <2>4, <3>1, <3>2, <3>3
    <3>5. \A i \in 1..5 : ~Invalid(w[i])
      BY <1>2, <3>1
    <3> QED
      BY <2>1, <3>1, <3>2, <3>4, <3>5 DEF told
  <2>5. CASE toi # 0
    <3>1. DOMAIN w = 1..3 /\ w[1] = time /\ w[2] = cenc /\ w[3] = auth
      BY <2>2, <2>3, <2>5
    <3>2. PICK read : /\ read[0] = known
                      /\ \A k \in 1..3 : read[k] = Reading(read[k - 1], w[k])
                      /\ ReadAll(known, same.extensions) = read[3]
      BY <1>8, <2>1, <3>1 DEF IsReading
    <3>3. /\ read[1] = Reading(read[0], w[1]) /\ read[2] = Reading(read[1], w[2])
          /\ read[3] = Reading(read[2], w[3])
      BY <3>2
    <3>4. read[3] = told
      BY <1>3, <1>7, <2>5, <3>1, <3>2, <3>3
    <3>5. \A i \in 1..3 : ~Invalid(w[i])
      BY <1>2, <3>1
    <3> QED
      BY <2>1, <3>1, <3>2, <3>4, <3>5 DEF told
  <2> QED
    BY <2>4, <2>5
<1>11. same = Rearranged(header) \/ same.extensions = header.extensions
  <2>1. header = [version |-> 1, congestion |-> 0, half |-> 1, tsiWords |-> 0, toiWords |-> 0,
                  closeSession |-> 0, codepoint |-> 0, fields |-> <<tsi, toi>>,
                  extensions |-> header.extensions]
    BY BuiltHas
  <2> HIDE DEF header
  <2>2. InWords(header).extensions = header.extensions
    BY <2>1 DEF InWords
  <2>3. Widened(header).extensions = header.extensions
    BY <2>1 DEF Widened
  <2>4. same \in {header, InWords(header), Widened(header), Rearranged(header)}
    BY DEF FormsOf, header
  <2> QED
    BY <2>2, <2>3, <2>4
<1> QED
  BY <1>9, <1>10, <1>11

\* Whichever of these forms a header has, the receiver reads what the sender said.
THEOREM HeadersAreRead ==
  ASSUME NEW tsi, NEW toi, NEW fec, NEW instance, HeaderFits(tsi, toi, fec, instance)
  PROVE  HeaderIsRead(tsi, toi, fec, instance)
<1> SUFFICES ASSUME NEW same \in FormsOf(Built(tsi, toi, fec, instance))
             PROVE  ~Throws(same) /\ Parsed(same) = Said(tsi, toi, fec, instance)
  BY DEF HeaderIsRead, FormsOf
<1> DEFINE known == [tsi |-> Tsi(same), toi |-> Toi(same), instance |-> 0, fec |-> NoFec,
                     encoding |-> "none"]
<1>1. ~Unsupported(same) /\ Tsi(same) = tsi /\ Toi(same) = toi
  BY NumbersAreRead
<1>2. Parsed(same) = ReadAll(known, same.extensions)
  BY DEF Parsed
<1>3. known = [tsi |-> tsi, toi |-> toi, instance |-> 0, fec |-> NoFec, encoding |-> "none"]
  BY <1>1
<1> HIDE DEF known
<1>4. /\ ReadAll(known, same.extensions) = Said(tsi, toi, fec, instance)
      /\ \A i \in DOMAIN same.extensions : ~Invalid(same.extensions[i])
  BY <1>3, ExtensionsAreRead
<1> QED
  BY <1>1, <1>2, <1>4 DEF Throws

-----------------------------------------------------------------------------
(* FDT documents *)

\* A child is one of those looked for.
Found(child, scope, local, namespace) ==
  Matches(InScope(child, scope), child.name, local, namespace)

\* Children looks at them in their order.
LEMMA FoundInOrder ==
  ASSUME NEW scope, NEW element, NEW local, NEW namespace, NEW n \in Nat,
         DOMAIN element.children = 1..n
  PROVE  \E found :
           /\ found[0] = <<>>
           /\ \A k \in 1..n :
                found[k] =
                  IF Found(element.children[k], scope, local, namespace)
                  THEN Append(found[k - 1], element.children[k]) ELSE found[k - 1]
           /\ Children(scope, element, local, namespace) = found[n]
<1> DEFINE children == element.children
           With(found, child) ==
             IF Found(child, scope, local, namespace)
             THEN Append(found, child) ELSE found
           Solves(f, k) == f = [s \in SUBSET (1..k) |->
                                  IF s = {} THEN <<>>
                                  ELSE With(f[s \ {Max(s)}], children[Max(s)])]
           S == {k \in Nat : \E f : Solves(f, k)}
<1>1. \A k \in Nat : \A s \in SUBSET (1..k) : k \in s => Max(s) = k
  BY MaxIs
<1>2. 0 \in S
  <2>1. 1..0 = {} /\ SUBSET (1..0) = {{}}
    OBVIOUS
  <2>2. Solves([s \in SUBSET (1..0) |-> <<>>], 0)
    BY <2>1
  <2> QED
    BY <2>2
<1>3. ASSUME NEW k \in Nat, k \in S
      PROVE  k + 1 \in S
  <2>1. PICK f : Solves(f, k)
    BY <1>3
  <2> DEFINE g == [s \in SUBSET (1..(k + 1)) |->
                     IF k + 1 \in s THEN With(f[s \ {k + 1}], children[k + 1]) ELSE f[s]]
  <2>2. ASSUME NEW s \in SUBSET (1..(k + 1))
        PROVE  g[s] = IF s = {} THEN <<>> ELSE With(g[s \ {Max(s)}], children[Max(s)])
    <3> HIDE DEF With, children
    <3>1. CASE k + 1 \in s
      <4>1. Max(s) = k + 1 /\ s # {} /\ k + 1 \notin s \ {k + 1}
            /\ s \ {k + 1} \in SUBSET (1..(k + 1))
        BY <1>1, <3>1
      <4>2. g[s \ {k + 1}] = f[s \ {k + 1}]
        BY <4>1
      <4>3. g[s] = With(f[s \ {k + 1}], children[k + 1])
        BY <3>1
      <4> HIDE DEF g
      <4> QED
        BY <4>1, <4>2, <4>3
    <3>2. CASE k + 1 \notin s
      <4>1. s \in SUBSET (1..k)
        BY <3>2
      <4>2. \A d : /\ s \ {d} \in SUBSET (1..(k + 1)) /\ k + 1 \notin s \ {d}
        BY <3>2
      <4>3. g[s] = f[s] /\ \A d : g[s \ {d}] = f[s \ {d}]
        BY <3>2, <4>2
      <4>4. f[s] = IF s = {} THEN <<>> ELSE With(f[s \ {Max(s)}], children[Max(s)])
        BY <2>1, <4>1
      <4> HIDE DEF g, Solves
      <4> QED
        BY <4>3, <4>4
    <3> QED
      BY <3>1, <3>2
  <2>3. Solves(g, k + 1)
    <3>1. g = [s \in SUBSET (1..(k + 1)) |-> g[s]]
      OBVIOUS
    <3> HIDE DEF g, With
    <3> QED
      BY <2>2, <3>1
  <2> HIDE DEF Solves
  <2> QED
    BY <2>3
<1>4. n \in S
  <2> HIDE DEF S
  <2> QED
    BY <1>2, <1>3, SetInduction
<1>5. Children(scope, element, local, namespace) = (CHOOSE f : Solves(f, n))[1..n]
  BY DEF Children, FoldLeft, MapThenFoldSet, Found
<1>6. PICK f : Solves(f, n) /\ Children(scope, element, local, namespace) = f[1..n]
  <2> HIDE DEF Solves
  <2> QED
    BY <1>4, <1>5
<1> DEFINE found == [k \in 0..n |-> f[1..k]]
<1>7. found[0] = <<>>
  <2>1. 1..0 = {} /\ {} \in SUBSET (1..n)
    OBVIOUS
  <2> QED
    BY <1>6, <2>1
<1>8. ASSUME NEW k \in 1..n
      PROVE  found[k] = With(found[k - 1], children[k])
  <2> HIDE DEF With, children
  <2>1. (1..k) \in SUBSET (1..n) /\ k \in 1..k /\ (1..k) \ {k} = 1..(k - 1)
    OBVIOUS
  <2>2. Max(1..k) = k
    <3>1. 1..k \in SUBSET (1..k) /\ k \in Nat
      OBVIOUS
    <3> QED
      BY <1>1, <2>1, <3>1
  <2>3. f[1..k] = With(f[(1..k) \ {Max(1..k)}], children[Max(1..k)])
    BY <1>6, <2>1
  <2>4. found[k] = f[1..k] /\ found[k - 1] = f[1..(k - 1)]
    OBVIOUS
  <2> HIDE DEF found, Solves
  <2> QED
    BY <2>1, <2>2, <2>3, <2>4
<1>9. Children(scope, element, local, namespace) = found[n]
  <2> HIDE DEF Solves
  <2>1. found[n] = f[1..n]
    OBVIOUS
  <2> QED
    BY <1>6, <2>1
<1> HIDE DEF found
<1> QED
  BY <1>7, <1>8, <1>9

\* If there is one it is found or not.
LEMMA OneInOrder ==
  ASSUME NEW scope, NEW element, NEW local, NEW namespace, NEW n \in Nat,
         DOMAIN element.children = 1..n
  PROVE  n = 1 =>
           Children(scope, element, local, namespace) =
             IF Found(element.children[1], scope, local, namespace)
             THEN Append(<<>>, element.children[1]) ELSE <<>>
<1>1. PICK found :
        /\ found[0] = <<>>
        /\ \A k \in 1..n :
             found[k] =
               IF Found(element.children[k], scope, local, namespace)
               THEN Append(found[k - 1], element.children[k]) ELSE found[k - 1]
        /\ Children(scope, element, local, namespace) = found[n]
  BY FoundInOrder
<1> SUFFICES ASSUME n = 1
             PROVE  Children(scope, element, local, namespace) =
                      IF Found(element.children[1], scope, local, namespace)
                      THEN Append(<<>>, element.children[1]) ELSE <<>>
  OBVIOUS
<1>2. n \in 1..n /\ n - 1 = 0
  OBVIOUS
<1>3. found[n] = IF Found(element.children[n], scope, local, namespace)
                 THEN Append(found[n - 1], element.children[n]) ELSE found[n - 1]
  BY <1>1, <1>2
<1> QED
  BY <1>1, <1>2, <1>3

LEMMA OneChild ==
  ASSUME NEW scope, NEW element, NEW local, NEW namespace, NEW child, element.children = <<child>>
  PROVE  Children(scope, element, local, namespace) =
           IF Found(child, scope, local, namespace) THEN <<child>> ELSE <<>>
<1> DEFINE n == 1
<1>1. n \in Nat /\ n = 1 /\ DOMAIN element.children = 1..n /\ element.children[1] = child
  OBVIOUS
<1>2. Append(<<>>, child) = <<child>>
  OBVIOUS
<1> HIDE DEF n
<1>3. Children(scope, element, local, namespace) =
        IF Found(element.children[1], scope, local, namespace)
        THEN Append(<<>>, element.children[1]) ELSE <<>>
  BY <1>1, OneInOrder, Zenon
<1> QED
  BY <1>1, <1>2, <1>3

LEMMA NoChild ==
  ASSUME NEW scope, NEW element, NEW local, NEW namespace, element.children = <<>>
  PROVE  Children(scope, element, local, namespace) = <<>>
<1>1. DOMAIN element.children = 1..0
  OBVIOUS
<1>2. PICK found :
        /\ found[0] = <<>>
        /\ Children(scope, element, local, namespace) = found[0]
  BY <1>1, FoundInOrder
<1> QED
  BY <1>2

\* If all its children are of the name they are all found, in their order.
LEMMA AllChildren ==
  ASSUME NEW scope, NEW element, NEW local, NEW namespace, NEW n \in Nat,
         DOMAIN element.children = 1..n,
         \A i \in 1..n : Found(element.children[i], scope, local, namespace)
  PROVE  Children(scope, element, local, namespace) = [i \in 1..n |-> element.children[i]]
<1> DEFINE children == element.children
           C == {children[i] : i \in 1..n}
           first(k) == [i \in 1..k |-> children[i]]
<1>1. PICK found :
        /\ found[0] = <<>>
        /\ \A k \in 1..n :
             found[k] =
               IF Found(element.children[k], scope, local, namespace)
               THEN Append(found[k - 1], element.children[k]) ELSE found[k - 1]
        /\ Children(scope, element, local, namespace) = found[n]
  BY FoundInOrder
<1> HIDE DEF children
<1>2. \A k \in 1..n : found[k] = Append(found[k - 1], children[k])
  BY <1>1 DEF children
<1>3. ASSUME NEW k \in Nat, k + 1 \in 1..n
      PROVE  Append(first(k), children[k + 1]) = first(k + 1)
  <2>1. first(k) \in Seq(C) /\ first(k + 1) \in Seq(C) /\ children[k + 1] \in C /\ Len(first(k)) = k
    <3>1. \A i \in 1..n : children[i] \in C
      OBVIOUS
    <3>2. \A i \in 1..(k + 1) : i \in 1..n
      BY <1>3
    <3>3. children[k + 1] \in C
      BY <1>3, <3>1
    <3> HIDE DEF C
    <3>4. first(k) \in [1..k -> C] /\ first(k + 1) \in [1..(k + 1) -> C] /\ k + 1 \in Nat
      BY <3>1, <3>2
    <3>5. \A seq, m : m \in Nat /\ seq \in [1..m -> C] => seq \in Seq(C) /\ Len(seq) = m
      OBVIOUS
    <3> HIDE DEF first
    <3> QED
      BY <3>3, <3>4, <3>5
  <2>2. Len(Append(first(k), children[k + 1])) = k + 1
        /\ Append(first(k), children[k + 1]) \in Seq(C)
        /\ \A i \in 1..k : Append(first(k), children[k + 1])[i] = first(k)[i]
        /\ Append(first(k), children[k + 1])[k + 1] = children[k + 1]
    <3> DEFINE s == first(k)
    <3> HIDE DEF s, C
    <3> QED
      BY <2>1, AppendProperties DEF s
  <2>3. Len(first(k + 1)) = k + 1
    OBVIOUS
  <2>4. \A i \in 1..(k + 1) : Append(first(k), children[k + 1])[i] = first(k + 1)[i]
    <3>1. \A i \in 1..k : first(k)[i] = children[i]
      OBVIOUS
    <3>2. \A i \in 1..(k + 1) : first(k + 1)[i] = children[i]
      OBVIOUS
    <3>3. \A i \in 1..(k + 1) : i \in 1..k \/ i = k + 1
      OBVIOUS
    <3>4. \A i \in 1..k : i \in 1..(k + 1)
      OBVIOUS
    <3>5. k + 1 \in 1..(k + 1)
      OBVIOUS
    <3> DEFINE longer == Append(first(k), children[k + 1])
    <3>6. longer[k + 1] = children[k + 1] /\ \A i \in 1..k : longer[i] = first(k)[i]
      BY <2>2
    <3> HIDE DEF first, longer
    <3>7. \A i \in 1..(k + 1) : longer[i] = first(k + 1)[i]
      BY <3>1, <3>2, <3>3, <3>4, <3>5, <3>6
    <3> QED
      BY <3>7 DEF longer
  <2> HIDE DEF first, C
  <2> QED
    BY <2>1, <2>2, <2>3, <2>4, SeqEqual
<1> DEFINE S == {k \in Nat : k \in 0..n => found[k] = first(k)}
<1>4. 0 \in S
  <2>1. first(0) = <<>>
    OBVIOUS
  <2> QED
    BY <1>1, <2>1
<1>5. ASSUME NEW k \in Nat, k \in S
      PROVE  k + 1 \in S
  <2> SUFFICES ASSUME k + 1 \in 1..n PROVE found[k + 1] = first(k + 1)
    BY DEF S
  <2>1. found[k] = first(k)
    BY <1>5
  <2>2. found[k + 1] = Append(found[k], children[k + 1])
    <3>1. k + 1 - 1 = k
      OBVIOUS
    <3> QED
      BY <1>2, <3>1
  <2> HIDE DEF first
  <2> QED
    BY <1>3, <2>1, <2>2
<1>6. n \in S
  <2> HIDE DEF S
  <2> QED
    BY <1>4, <1>5, SetInduction
<1>7. found[n] = first(n)
  BY <1>6
<1> QED
  BY <1>1, <1>7 DEF children

LEMMA EmptyIs == Empty \notin {"fdt", "mbms2007", "mbms2012"}
  BY DEF Empty

-----------------------------------------------------------------------------
\* Names with prefix p, Empty or "fdt", are of the namespace, and those of MBMS are bound.
Scoped(scope, p, namespace) ==
  /\ scope = [default |-> scope.default, bound |-> scope.bound]
  /\ scope.bound = [prefix \in DOMAIN scope.bound |-> scope.bound[prefix]]
  /\ {"mbms2007", "mbms2012"} \subseteq DOMAIN scope.bound
  /\ scope.bound["mbms2007"] = Mbms.mbms2007 /\ scope.bound["mbms2012"] = Mbms.mbms2012
  /\ \/ p = Empty /\ scope.default = namespace
     \/ p = "fdt" /\ "fdt" \in DOMAIN scope.bound /\ scope.bound["fdt"] = namespace

\* An element that declares no namespaces.
Declares(element) == element.xmlns # None \/ element.bound # NoPrefixes

LEMMA ScopeStays ==
  ASSUME NEW scope, NEW p, NEW namespace, Scoped(scope, p, namespace),
         NEW element, ~Declares(element)
  PROVE  InScope(element, scope) = scope
<1>1. WithBound(scope.bound, element.bound) = scope.bound
  <2> DEFINE b == scope.bound
  <2>1. b = [prefix \in DOMAIN b |-> b[prefix]] /\ element.bound = NoPrefixes
    BY DEF Scoped, Declares
  <2> HIDE DEF b
  <2>2. WithBound(b, NoPrefixes) = b
    BY <2>1 DEF WithBound, NoPrefixes
  <2> QED
    BY <2>1, <2>2 DEF b
<1>2. element.xmlns = None
  BY DEF Declares
<1> QED
  BY <1>1, <1>2 DEF Scoped, InScope

\* What prefixes stand for where the attributes of an element are looked for.
Own(scope, element) == [scope EXCEPT !.default = ElementNamespace(scope, element)]

LEMMA OwnScope ==
  ASSUME NEW scope, NEW p, NEW namespace, Scoped(scope, p, namespace),
         NEW element, element.name[1] = p
  PROVE  /\ ElementNamespace(scope, element) = namespace
         /\ NamespaceOf(Own(scope, element), Empty) = namespace
         /\ NamespaceOf(Own(scope, element), p) = namespace
         /\ NamespaceOf(Own(scope, element), "mbms2012") = Mbms.mbms2012
         /\ NamespaceOf(scope, p) = namespace
         /\ NamespaceOf(scope, "mbms2007") = Mbms.mbms2007
<1>1. NamespaceOf(scope, p) = namespace /\ ElementNamespace(scope, element) = namespace
  BY EmptyIs DEF Scoped, NamespaceOf, ElementNamespace
<1>2. NamespaceOf(scope, "mbms2007") = Mbms.mbms2007
  BY EmptyIs DEF Scoped, NamespaceOf
<1> DEFINE own == Own(scope, element)
<1>3. own.default = namespace /\ own.bound = scope.bound
  BY <1>1 DEF Scoped, Own
<1> HIDE DEF own
<1>4. /\ NamespaceOf(own, Empty) = namespace
      /\ NamespaceOf(own, p) = namespace
      /\ NamespaceOf(own, "mbms2012") = Mbms.mbms2012
  BY <1>3, EmptyIs DEF Scoped, NamespaceOf
<1> QED
  BY <1>1, <1>2, <1>4 DEF own

\* The attributes of a local name.
Among(attributes, local) == {a \in attributes : a[1][2] = local}

It(prefix, local, value) == <<<<prefix, local>>, value>>

LEMMA ItHas ==
  ASSUME NEW prefix, NEW local, NEW value
  PROVE  /\ It(prefix, local, value)[1][1] = prefix
         /\ It(prefix, local, value)[1][2] = local
         /\ It(prefix, local, value)[2] = value
  BY DEF It

\* An element has these attributes, with their names or with prefix p in place of none.
HasAttributes(element, attributes, p) ==
  \/ element.attributes = attributes
  \/ element.attributes = RenamedAttributes(attributes, p)

\* The prefix that a name may have got.
WithPrefixes(prefix, p) == {prefix, IF prefix = Empty THEN p ELSE prefix}

LEMMA AmongRenamed ==
  ASSUME NEW attributes, NEW p, NEW local
  PROVE  /\ Among(attributes, local) = {} => Among(RenamedAttributes(attributes, p), local) = {}
         /\ \A prefix, value :
              Among(attributes, local) = {It(prefix, local, value)} =>
                Among(RenamedAttributes(attributes, p), local)
                  = {It(IF prefix = Empty THEN p ELSE prefix, local, value)}
<1>1. \A n : Renamed(n, p)[2] = n[2]
  BY DEF Renamed
<1> DEFINE renamed == RenamedAttributes(attributes, p)
           new(a) == <<Renamed(a[1], p), a[2]>>
<1>2. \A a : new(a)[1] = Renamed(a[1], p)
  OBVIOUS
<1>3. renamed = {new(a) : a \in attributes}
  BY DEF RenamedAttributes
<1> HIDE DEF new, renamed
<1>4. Among(renamed, local) = {new(a) : a \in Among(attributes, local)}
  BY <1>1, <1>2, <1>3 DEF Among
<1>5. ASSUME NEW prefix, NEW value, Among(attributes, local) = {It(prefix, local, value)}
      PROVE  Among(renamed, local) = {It(IF prefix = Empty THEN p ELSE prefix, local, value)}
  <2>1. new(It(prefix, local, value)) = It(IF prefix = Empty THEN p ELSE prefix, local, value)
    BY DEF new, Renamed, It
  <2> QED
    BY <1>4, <1>5, <2>1
<1>6. Among(attributes, local) = {} => Among(renamed, local) = {}
  BY <1>4
<1> QED
  BY <1>5, <1>6 DEF renamed

\* The attribute that an element has in place of one.
LEMMA AmongHas ==
  ASSUME NEW element, NEW attributes, NEW p, HasAttributes(element, attributes, p), NEW local,
         NEW prefix, NEW value, Among(attributes, local) = {It(prefix, local, value)}
  PROVE  \E q \in WithPrefixes(prefix, p) :
           Among(element.attributes, local) = {It(q, local, value)}
<1>1. CASE element.attributes = attributes
  BY <1>1 DEF WithPrefixes
<1>2. CASE element.attributes = RenamedAttributes(attributes, p)
  <2>1. Among(element.attributes, local) = {It(IF prefix = Empty THEN p ELSE prefix, local, value)}
    BY <1>2, AmongRenamed
  <2> QED
    BY <2>1 DEF WithPrefixes
<1> QED
  BY <1>1, <1>2 DEF HasAttributes

LEMMA AmongIs ==
  ASSUME NEW scope, NEW element, NEW local, NEW sought
  PROVE  Attributes(scope, element, local, sought) =
           {a \in Among(element.attributes, local) :
              NamespaceOf(Own(scope, element), a[1][1]) = sought}
  BY DEF Among, Attributes, Matches, Own

\* The attributes of an element are looked for where its namespaces are known.
Reads(scope, p, namespace, element, attributes) ==
  /\ Scoped(scope, p, namespace)
  /\ element.name[1] = p
  /\ HasAttributes(element, attributes, p)

\* The namespace of names that are written with a prefix.
Written(prefix, sought, namespace) ==
  \/ prefix = Empty /\ sought = namespace
  \/ prefix = "mbms2012" /\ sought = Mbms.mbms2012

\* An attribute that is there is found.
LEMMA AttributeIsRead ==
  ASSUME NEW scope, NEW p, NEW namespace, NEW element, NEW attributes,
         Reads(scope, p, namespace, element, attributes),
         NEW prefix, NEW local, NEW value,
         Among(attributes, local) = {It(prefix, local, value)},
         NEW sought, Written(prefix, sought, namespace)
  PROVE  /\ \A default : Attribute(scope, element, local, sought, default) = value
         /\ Attributes(scope, element, local, sought) # {}
<1>1. PICK q \in WithPrefixes(prefix, p) :
        Among(element.attributes, local) = {It(q, local, value)}
  BY AmongHas DEF Reads
<1> DEFINE a == It(q, local, value)
           found == Attributes(scope, element, local, sought)
<1>2. NamespaceOf(Own(scope, element), q) = sought
  <2>1. /\ NamespaceOf(Own(scope, element), Empty) = namespace
        /\ NamespaceOf(Own(scope, element), p) = namespace
        /\ NamespaceOf(Own(scope, element), "mbms2012") = Mbms.mbms2012
    BY OwnScope DEF Reads
  <2>2. q = prefix \/ (prefix = Empty /\ q = p)
    BY DEF WithPrefixes
  <2> QED
    BY <2>1, <2>2 DEF Written
<1>3. a[1][1] = q /\ a[2] = value
  BY ItHas
<1>4. found = {b \in Among(element.attributes, local) :
                 NamespaceOf(Own(scope, element), b[1][1]) = sought}
  BY AmongIs
<1> HIDE DEF a, found
<1>5. found = {a}
  BY <1>1, <1>2, <1>3, <1>4 DEF a
<1>6. (CHOOSE b \in found : TRUE) = a
  BY <1>5
<1>7. \A default : Attribute(scope, element, local, sought, default) = value
  <2>1. \A default : Attribute(scope, element, local, sought, default) =
                       IF found = {} THEN default ELSE (CHOOSE b \in found : TRUE)[2]
    BY DEF Attribute, found
  <2> QED
    BY <1>3, <1>5, <1>6, <2>1
<1> QED
  BY <1>5, <1>7 DEF found

\* And one that is not there is not.
LEMMA NoAttributeIsRead ==
  ASSUME NEW element, NEW p, NEW attributes, HasAttributes(element, attributes, p),
         NEW local, Among(attributes, local) = {},
         NEW scope, NEW sought, NEW default
  PROVE  Attribute(scope, element, local, sought, default) = default
<1>1. Among(element.attributes, local) = {}
  BY AmongRenamed DEF HasAttributes
<1>2. Attributes(scope, element, local, sought) = {}
  BY <1>1, AmongIs
<1> QED
  BY <1>2 DEF Attribute

\* What the attributes of a File say.
LEMMA FileSays ==
  ASSUME NEW entry, NEW global, NEW attributes,
         attributes = FileElement(entry, global).attributes
  PROVE  /\ Among(attributes, "TOI") = {It(Empty, "TOI", entry.toi)}
         /\ Among(attributes, "Content-Location") = {It(Empty, "Content-Location", entry.location)}
         /\ Among(attributes, "Content-Length") = {It(Empty, "Content-Length", entry.contentLength)}
         /\ Among(attributes, "Transfer-Length") =
              IF entry.transferLength # 0 THEN {It(Empty, "Transfer-Length", entry.transferLength)} ELSE {}
         /\ Among(attributes, "Content-MD5") =
              IF entry.md5 # None THEN {It(Empty, "Content-MD5", entry.md5)} ELSE {}
         /\ Among(attributes, "Content-Encoding") =
              IF entry.encoding # Empty THEN {It(Empty, "Content-Encoding", entry.encoding)} ELSE {}
         /\ Among(attributes, "Content-Type") =
              IF entry.type # Empty THEN {It(Empty, "Content-Type", entry.type)} ELSE {}
         /\ Among(attributes, "FEC-OTI-Maximum-Source-Block-Length") =
              IF entry.maxBlock \notin {0, global.maxBlock} THEN {It(Empty, "FEC-OTI-Maximum-Source-Block-Length", entry.maxBlock)} ELSE {}
         /\ Among(attributes, "FEC-OTI-Encoding-Symbol-Length") =
              IF entry.symbolLength \notin {0, global.symbolLength} THEN {It(Empty, "FEC-OTI-Encoding-Symbol-Length", entry.symbolLength)} ELSE {}
         /\ Among(attributes, "File-ETag") =
              IF entry.etag # Empty THEN {It("mbms2012", "File-ETag", entry.etag)} ELSE {}
<1> DEFINE s0 == {It(Empty, "TOI", entry.toi)}
           s1 == {It(Empty, "Content-Location", entry.location)}
           s2 == {It(Empty, "Content-Length", entry.contentLength)}
           s3 == IF entry.transferLength # 0 THEN {It(Empty, "Transfer-Length", entry.transferLength)} ELSE {}
           s4 == IF entry.md5 # None THEN {It(Empty, "Content-MD5", entry.md5)} ELSE {}
           s5 == IF entry.encoding # Empty THEN {It(Empty, "Content-Encoding", entry.encoding)} ELSE {}
           s6 == IF entry.type # Empty THEN {It(Empty, "Content-Type", entry.type)} ELSE {}
           s7 == IF entry.maxBlock \notin {0, global.maxBlock} THEN {It(Empty, "FEC-OTI-Maximum-Source-Block-Length", entry.maxBlock)} ELSE {}
           s8 == IF entry.symbolLength \notin {0, global.symbolLength} THEN {It(Empty, "FEC-OTI-Encoding-Symbol-Length", entry.symbolLength)} ELSE {}
           s9 == IF entry.etag # Empty THEN {It("mbms2012", "File-ETag", entry.etag)} ELSE {}
<1>1. attributes = s0 \cup s1 \cup s2 \cup s3 \cup s4 \cup s5 \cup s6 \cup s7 \cup s8 \cup s9
  BY DEF FileElement, Element, Plain, OnlyIf, It
<1>2. \A a \in s0 : a[1][2] = "TOI"
  BY ItHas
<1>3. \A a \in s1 : a[1][2] = "Content-Location"
  BY ItHas
<1>4. \A a \in s2 : a[1][2] = "Content-Length"
  BY ItHas
<1>5. \A a \in s3 : a[1][2] = "Transfer-Length"
  BY ItHas
<1>6. \A a \in s4 : a[1][2] = "Content-MD5"
  BY ItHas
<1>7. \A a \in s5 : a[1][2] = "Content-Encoding"
  BY ItHas
<1>8. \A a \in s6 : a[1][2] = "Content-Type"
  BY ItHas
<1>9. \A a \in s7 : a[1][2] = "FEC-OTI-Maximum-Source-Block-Length"
  BY ItHas
<1>10. \A a \in s8 : a[1][2] = "FEC-OTI-Encoding-Symbol-Length"
  BY ItHas
<1>11. \A a \in s9 : a[1][2] = "File-ETag"
  BY ItHas
<1> HIDE DEF s0, s1, s2, s3, s4, s5, s6, s7, s8, s9
<1>12. /\ Among(attributes, "TOI") = s0
       /\ Among(attributes, "Content-Location") = s1
       /\ Among(attributes, "Content-Length") = s2
       /\ Among(attributes, "Transfer-Length") = s3
       /\ Among(attributes, "Content-MD5") = s4
       /\ Among(attributes, "Content-Encoding") = s5
       /\ Among(attributes, "Content-Type") = s6
       /\ Among(attributes, "FEC-OTI-Maximum-Source-Block-Length") = s7
       /\ Among(attributes, "FEC-OTI-Encoding-Symbol-Length") = s8
       /\ Among(attributes, "File-ETag") = s9
  BY <1>1, <1>2, <1>3, <1>4, <1>5, <1>6, <1>7, <1>8, <1>9, <1>10, <1>11 DEF Among
<1> QED
  BY <1>12 DEF s0, s1, s2, s3, s4, s5, s6, s7, s8, s9

\* An attribute is read as this value, if it is there.
ReadAs(scope, element, attributes, local, sought, value) ==
  \A default : Attribute(scope, element, local, sought, default) =
                IF Among(attributes, local) = {} THEN default ELSE value

MayBe(attributes, prefix, local, value) ==
  Among(attributes, local) \in {{}, {It(prefix, local, value)}}

LEMMA MayBeRead ==
  ASSUME NEW scope, NEW p, NEW namespace, NEW element, NEW attributes,
         Reads(scope, p, namespace, element, attributes),
         NEW prefix, NEW local, NEW value,
         MayBe(attributes, prefix, local, value),
         NEW sought, Written(prefix, sought, namespace)
  PROVE  ReadAs(scope, element, attributes, local, sought, value)
<1>1. CASE Among(attributes, local) = {}
  BY <1>1, NoAttributeIsRead DEF Reads, ReadAs
<1>2. CASE Among(attributes, local) = {It(prefix, local, value)}
  <2>1. \A default : Attribute(scope, element, local, sought, default) = value
    BY <1>2, AttributeIsRead
  <2> QED
    BY <1>2, <2>1 DEF ReadAs
<1> QED
  BY <1>1, <1>2 DEF MayBe

\* The File element of an entry, as it is written or with prefix p.
IsFile(file, entry, global, p) ==
  /\ file.name[1] = p /\ file.name[2] = "File"
  /\ ~Declares(file)
  /\ file.children = CacheControl(entry)
  /\ HasAttributes(file, FileElement(entry, global).attributes, p)

LEMMA FileIsRead ==
  ASSUME NEW scope, NEW p, NEW namespace, Scoped(scope, p, namespace),
         NEW file, NEW entry, NEW global, IsFile(file, entry, global, p)
  PROVE  /\ \A d : Attribute(scope, file, "TOI", namespace, d) = entry.toi
         /\ \A d : Attribute(scope, file, "Content-Location", namespace, d) = entry.location
         /\ \A d : Attribute(scope, file, "Content-Length", namespace, d) = entry.contentLength
         /\ \A d : Attribute(scope, file, "Transfer-Length", namespace, d) =
                   IF entry.transferLength # 0 THEN entry.transferLength ELSE d
         /\ \A d : Attribute(scope, file, "Content-MD5", namespace, d) =
                   IF entry.md5 # None THEN entry.md5 ELSE d
         /\ \A d : Attribute(scope, file, "Content-Encoding", namespace, d) =
                   IF entry.encoding # Empty THEN entry.encoding ELSE d
         /\ \A d : Attribute(scope, file, "Content-Type", namespace, d) =
                   IF entry.type # Empty THEN entry.type ELSE d
         /\ \A d : Attribute(scope, file, "FEC-OTI-Maximum-Source-Block-Length", namespace, d) =
                   IF entry.maxBlock \notin {0, global.maxBlock} THEN entry.maxBlock ELSE d
         /\ \A d : Attribute(scope, file, "FEC-OTI-Encoding-Symbol-Length", namespace, d) =
                   IF entry.symbolLength \notin {0, global.symbolLength} THEN entry.symbolLength ELSE d
         /\ \A d : Attribute(scope, file, "File-ETag", Mbms.mbms2012, d) =
                   IF entry.etag # Empty THEN entry.etag ELSE d
         /\ Attributes(scope, file, "TOI", namespace) # {}
         /\ Attributes(scope, file, "Content-Location", namespace) # {}
<1> DEFINE attributes == FileElement(entry, global).attributes
<1>1. attributes = FileElement(entry, global).attributes
  OBVIOUS
<1> HIDE DEF attributes
<1>2. Reads(scope, p, namespace, file, attributes)
  BY <1>1 DEF IsFile, Reads
<1>0. Written(Empty, namespace, namespace) /\ Written("mbms2012", Mbms.mbms2012, namespace)
  BY DEF Written
<1>3. /\ \A d : Attribute(scope, file, "TOI", namespace, d) = entry.toi
      /\ Attributes(scope, file, "TOI", namespace) # {}
  <2>1. Among(attributes, "TOI") = {It(Empty, "TOI", entry.toi)}
    BY <1>1, FileSays
  <2> QED
    BY <1>0, <1>2, <2>1, AttributeIsRead
<1>4. /\ \A d : Attribute(scope, file, "Content-Location", namespace, d) = entry.location
      /\ Attributes(scope, file, "Content-Location", namespace) # {}
  <2>1. Among(attributes, "Content-Location") = {It(Empty, "Content-Location", entry.location)}
    BY <1>1, FileSays
  <2> QED
    BY <1>0, <1>2, <2>1, AttributeIsRead
<1>5. /\ \A d : Attribute(scope, file, "Content-Length", namespace, d) = entry.contentLength
      /\ Attributes(scope, file, "Content-Length", namespace) # {}
  <2>1. Among(attributes, "Content-Length") = {It(Empty, "Content-Length", entry.contentLength)}
    BY <1>1, FileSays
  <2> QED
    BY <1>0, <1>2, <2>1, AttributeIsRead
<1>6. \A d : Attribute(scope, file, "Transfer-Length", namespace, d) =
               IF entry.transferLength # 0 THEN entry.transferLength ELSE d
  <2>1. Among(attributes, "Transfer-Length") =
          IF entry.transferLength # 0 THEN {It(Empty, "Transfer-Length", entry.transferLength)} ELSE {}
    BY <1>1, FileSays
  <2>2. MayBe(attributes, Empty, "Transfer-Length", entry.transferLength)
    BY <2>1 DEF MayBe
  <2>3. ReadAs(scope, file, attributes, "Transfer-Length", namespace, entry.transferLength)
    BY <1>0, <1>2, <2>2, MayBeRead
  <2> QED
    BY <2>1, <2>3 DEF ReadAs
<1>7. \A d : Attribute(scope, file, "Content-MD5", namespace, d) =
               IF entry.md5 # None THEN entry.md5 ELSE d
  <2>1. Among(attributes, "Content-MD5") =
          IF entry.md5 # None THEN {It(Empty, "Content-MD5", entry.md5)} ELSE {}
    BY <1>1, FileSays
  <2>2. MayBe(attributes, Empty, "Content-MD5", entry.md5)
    BY <2>1 DEF MayBe
  <2>3. ReadAs(scope, file, attributes, "Content-MD5", namespace, entry.md5)
    BY <1>0, <1>2, <2>2, MayBeRead
  <2> QED
    BY <2>1, <2>3 DEF ReadAs
<1>8. \A d : Attribute(scope, file, "Content-Encoding", namespace, d) =
               IF entry.encoding # Empty THEN entry.encoding ELSE d
  <2>1. Among(attributes, "Content-Encoding") =
          IF entry.encoding # Empty THEN {It(Empty, "Content-Encoding", entry.encoding)} ELSE {}
    BY <1>1, FileSays
  <2>2. MayBe(attributes, Empty, "Content-Encoding", entry.encoding)
    BY <2>1 DEF MayBe
  <2>3. ReadAs(scope, file, attributes, "Content-Encoding", namespace, entry.encoding)
    BY <1>0, <1>2, <2>2, MayBeRead
  <2> QED
    BY <2>1, <2>3 DEF ReadAs
<1>9. \A d : Attribute(scope, file, "Content-Type", namespace, d) =
               IF entry.type # Empty THEN entry.type ELSE d
  <2>1. Among(attributes, "Content-Type") =
          IF entry.type # Empty THEN {It(Empty, "Content-Type", entry.type)} ELSE {}
    BY <1>1, FileSays
  <2>2. MayBe(attributes, Empty, "Content-Type", entry.type)
    BY <2>1 DEF MayBe
  <2>3. ReadAs(scope, file, attributes, "Content-Type", namespace, entry.type)
    BY <1>0, <1>2, <2>2, MayBeRead
  <2> QED
    BY <2>1, <2>3 DEF ReadAs
<1>10. \A d : Attribute(scope, file, "FEC-OTI-Maximum-Source-Block-Length", namespace, d) =
               IF entry.maxBlock \notin {0, global.maxBlock} THEN entry.maxBlock ELSE d
  <2>1. Among(attributes, "FEC-OTI-Maximum-Source-Block-Length") =
          IF entry.maxBlock \notin {0, global.maxBlock} THEN {It(Empty, "FEC-OTI-Maximum-Source-Block-Length", entry.maxBlock)} ELSE {}
    BY <1>1, FileSays
  <2>2. MayBe(attributes, Empty, "FEC-OTI-Maximum-Source-Block-Length", entry.maxBlock)
    BY <2>1 DEF MayBe
  <2>3. ReadAs(scope, file, attributes, "FEC-OTI-Maximum-Source-Block-Length", namespace, entry.maxBlock)
    BY <1>0, <1>2, <2>2, MayBeRead
  <2> QED
    BY <2>1, <2>3 DEF ReadAs
<1>11. \A d : Attribute(scope, file, "FEC-OTI-Encoding-Symbol-Length", namespace, d) =
               IF entry.symbolLength \notin {0, global.symbolLength} THEN entry.symbolLength ELSE d
  <2>1. Among(attributes, "FEC-OTI-Encoding-Symbol-Length") =
          IF entry.symbolLength \notin {0, global.symbolLength} THEN {It(Empty, "FEC-OTI-Encoding-Symbol-Length", entry.symbolLength)} ELSE {}
    BY <1>1, FileSays
  <2>2. MayBe(attributes, Empty, "FEC-OTI-Encoding-Symbol-Length", entry.symbolLength)
    BY <2>1 DEF MayBe
  <2>3. ReadAs(scope, file, attributes, "FEC-OTI-Encoding-Symbol-Length", namespace, entry.symbolLength)
    BY <1>0, <1>2, <2>2, MayBeRead
  <2> QED
    BY <2>1, <2>3 DEF ReadAs
<1>12. \A d : Attribute(scope, file, "File-ETag", Mbms.mbms2012, d) =
               IF entry.etag # Empty THEN entry.etag ELSE d
  <2>1. Among(attributes, "File-ETag") =
          IF entry.etag # Empty THEN {It("mbms2012", "File-ETag", entry.etag)} ELSE {}
    BY <1>1, FileSays
  <2>2. MayBe(attributes, "mbms2012", "File-ETag", entry.etag)
    BY <2>1 DEF MayBe
  <2>3. ReadAs(scope, file, attributes, "File-ETag", Mbms.mbms2012, entry.etag)
    BY <1>0, <1>2, <2>2, MayBeRead
  <2> QED
    BY <2>1, <2>3 DEF ReadAs
<1> QED
  BY <1>3, <1>4, <1>5, <1>6, <1>7, <1>8, <1>9, <1>10, <1>11, <1>12

-----------------------------------------------------------------------------
\* A child of MBMS that declares no namespaces is found by its name.
LEMMA MbmsFound ==
  ASSUME NEW scope, NEW p, NEW namespace, Scoped(scope, p, namespace),
         NEW child, ~Declares(child), child.name[1] = "mbms2007", NEW local
  PROVE  /\ InScope(child, scope) = scope
         /\ Found(child, scope, local, Mbms.mbms2007) <=> child.name[2] = local
<1>1. InScope(child, scope) = scope
  BY ScopeStays
<1>2. NamespaceOf(scope, "mbms2007") = Mbms.mbms2007
  BY EmptyIs DEF Scoped, NamespaceOf
<1> QED
  BY <1>1, <1>2 DEF Found, Matches

\* What EntryOf reads of the Cache-Control of a File.
CachingOf(scope, file) == Children(scope, file, "Cache-Control", Mbms.mbms2007)

SaysNoCache(scope, caching) == Children(scope, caching, "no-cache", Mbms.mbms2007) # <<>>

LEMMA CachingIsRead ==
  ASSUME NEW scope, NEW p, NEW namespace, Scoped(scope, p, namespace),
         NEW file, NEW entry, file.children = CacheControl(entry), entry.noCache \in BOOLEAN,
         ~entry.noCache /\ entry.cacheExpires # None => entry.expires = entry.cacheExpires
  PROVE  \/ /\ CachingOf(scope, file) = <<>>
            /\ ~entry.noCache /\ entry.cacheExpires = None
         \/ /\ CachingOf(scope, file) # <<>>
            /\ InScope(CachingOf(scope, file)[1], scope) = scope
            /\ SaysNoCache(scope, CachingOf(scope, file)[1]) <=> entry.noCache
            /\ CacheExpires(scope, CachingOf(scope, file)[1]) =
                 IF entry.noCache THEN None ELSE entry.cacheExpires
<1>1. CASE ~entry.noCache /\ entry.cacheExpires = None
  <2>1. file.children = <<>>
    BY <1>1 DEF CacheControl
  <2> QED
    BY <1>1, <2>1, NoChild DEF CachingOf
<1>2. CASE ~(~entry.noCache /\ entry.cacheExpires = None)
  <2> DEFINE k == IF entry.noCache THEN Element(<<"mbms2007", "no-cache">>, {}, <<>>)
                  ELSE [Element(<<"mbms2007", "Expires">>, {}, <<>>) EXCEPT !.text = entry.expires]
             c == Element(<<"mbms2007", "Cache-Control">>, {}, <<k>>)
  <2>1. file.children = <<c>>
    BY <1>2 DEF CacheControl
  <2>2. c.name = <<"mbms2007", "Cache-Control">> /\ ~Declares(c) /\ c.children = <<k>>
    BY DEF Element, Declares
  <2>3. /\ ~Declares(k) /\ k.name[1] = "mbms2007"
        /\ entry.noCache => k.name[2] = "no-cache"
        /\ ~entry.noCache => k.name[2] = "Expires" /\ k.text = entry.expires
    BY DEF Element, Declares
  <2> HIDE DEF k
  <2>4. c.name[1] = "mbms2007" /\ c.name[2] = "Cache-Control"
    BY <2>2
  <2> HIDE DEF c
  <2>5. InScope(c, scope) = scope /\ Found(c, scope, "Cache-Control", Mbms.mbms2007)
    BY <2>2, <2>4, MbmsFound
  <2>6. CachingOf(scope, file) = <<c>>
    BY <2>1, <2>5, OneChild DEF CachingOf
  <2>7. Found(k, scope, "no-cache", Mbms.mbms2007) <=> entry.noCache
    BY <2>3, MbmsFound
  <2>8. Found(k, scope, "Expires", Mbms.mbms2007) <=> ~entry.noCache
    BY <2>3, MbmsFound
  <2>9. Children(scope, c, "no-cache", Mbms.mbms2007) = IF entry.noCache THEN <<k>> ELSE <<>>
    BY <2>2, <2>7, OneChild
  <2>10. Children(scope, c, "Expires", Mbms.mbms2007) = IF entry.noCache THEN <<>> ELSE <<k>>
    BY <2>2, <2>8, OneChild
  <2>11. <<k>> # <<>> /\ <<k>>[1] = k /\ <<c>> # <<>> /\ <<c>>[1] = c
    OBVIOUS
  <2>12. SaysNoCache(scope, c) <=> entry.noCache
    BY <2>9, <2>11 DEF SaysNoCache
  <2>13. CacheExpires(scope, c) = IF entry.noCache THEN None ELSE entry.cacheExpires
    <3>1. CASE entry.noCache
      BY <2>10, <3>1 DEF CacheExpires
    <3>2. CASE ~entry.noCache
      <4>1. Children(scope, c, "Expires", Mbms.mbms2007) = <<k>> /\ k.text = entry.cacheExpires
        BY <1>2, <2>3, <2>10, <3>2
      <4> QED
        BY <2>11, <3>2, <4>1 DEF CacheExpires
    <3> QED
      BY <3>1, <3>2
  <2>14. CachingOf(scope, file) # <<>> /\ CachingOf(scope, file)[1] = c
    BY <2>6, <2>11
  <2> QED
    BY <2>5, <2>12, <2>13, <2>14
<1> QED
  BY <1>1, <1>2

\* An entry is a record of these fields.
Fields ==
  {"toi", "location", "contentLength", "transferLength", "md5", "encoding", "type",
   "maxBlock", "symbolLength", "etag", "noCache", "cacheExpires", "expires"}

IsEntry(entry) == entry = [field \in Fields |-> entry[field]]

\* One whose values fit the fields of the document.
EntryFits(entry) ==
  /\ IsEntry(entry)
  /\ \A field \in {"toi", "contentLength", "transferLength", "maxBlock", "symbolLength"} :
       entry[field] \in 0..(Word - 1)
  /\ entry.maxBlock # 0 /\ entry.symbolLength # 0
  /\ entry.transferLength = 0 => entry.contentLength = 0
  /\ entry.noCache \in BOOLEAN
  /\ ~entry.noCache =>
       entry.expires = IF entry.cacheExpires = None THEN 0 ELSE entry.cacheExpires

\* As it is read.
Expected(entry) == IF entry.noCache THEN Uncached(entry) ELSE entry

LEMMA UncachedIs ==
  ASSUME NEW entry, IsEntry(entry)
  PROVE  LET uncached == Uncached(entry)
         IN /\ IsEntry(uncached)
            /\ uncached.noCache = TRUE /\ uncached.cacheExpires = None /\ uncached.expires = 0
            /\ \A field \in Fields \ {"noCache", "cacheExpires", "expires"} :
                 uncached[field] = entry[field]
  BY DEF IsEntry, Fields, Uncached

LEMMA SameEntry ==
  ASSUME NEW entry, NEW other, IsEntry(entry), IsEntry(other),
         \A field \in Fields : entry[field] = other[field]
  PROVE  entry = other
  BY DEF IsEntry

LEMMA ExpectedIs ==
  ASSUME NEW entry, EntryFits(entry)
  PROVE  /\ IsEntry(Expected(entry))
         /\ Expected(entry).noCache = entry.noCache
         /\ Expected(entry).cacheExpires = IF entry.noCache THEN None ELSE entry.cacheExpires
         /\ Expected(entry).expires =
              IF Expected(entry).cacheExpires = None THEN 0 ELSE Expected(entry).cacheExpires
         /\ \A field \in Fields \ {"noCache", "cacheExpires", "expires"} :
              Expected(entry)[field] = entry[field]
<1>1. IsEntry(entry)
  BY DEF EntryFits
<1>2. CASE entry.noCache
  <2>1. Expected(entry) = Uncached(entry) /\ entry.noCache = TRUE
    BY <1>2 DEF Expected, EntryFits
  <2> QED
    BY <1>1, <1>2, <2>1, UncachedIs
<1>3. CASE ~entry.noCache
  BY <1>1, <1>3 DEF Expected, EntryFits
<1> QED
  BY <1>2, <1>3

LEMMA EntryOfIs ==
  ASSUME NEW file, NEW scope, NEW namespace, NEW global, InScope(file, scope) = scope,
         NEW read, read = EntryOf(file, scope, namespace, global)
  PROVE  /\ IsEntry(read)
         /\ read.toi = Attribute(scope, file, "TOI", namespace, None) % Word
         /\ read.location = Attribute(scope, file, "Content-Location", namespace, None)
         /\ read.contentLength = Attribute(scope, file, "Content-Length", namespace, 0) % Word
         /\ read.transferLength =
              Attribute(scope, file, "Transfer-Length", namespace, read.contentLength) % Word
         /\ read.md5 = Attribute(scope, file, "Content-MD5", namespace, None)
         /\ read.encoding = Attribute(scope, file, "Content-Encoding", namespace, Empty)
         /\ read.type = Attribute(scope, file, "Content-Type", namespace, Empty)
         /\ read.maxBlock = Attribute(scope, file, "FEC-OTI-Maximum-Source-Block-Length",
                                     namespace, global.maxBlock) % Word
         /\ read.symbolLength = Attribute(scope, file, "FEC-OTI-Encoding-Symbol-Length",
                                         namespace, global.symbolLength) % Word
         /\ read.etag = Attribute(scope, file, "File-ETag", Mbms.mbms2012, Empty)
         /\ read.expires = IF read.cacheExpires = None THEN 0 ELSE read.cacheExpires
<1>1. IsEntry(read)
  BY DEF EntryOf, IsEntry, Fields
<1>2. /\ read.toi = Attribute(scope, file, "TOI", namespace, None) % Word
      /\ read.location = Attribute(scope, file, "Content-Location", namespace, None)
      /\ read.contentLength = Attribute(scope, file, "Content-Length", namespace, 0) % Word
      /\ read.transferLength =
           Attribute(scope, file, "Transfer-Length", namespace, read.contentLength) % Word
  BY DEF EntryOf
<1>3. /\ read.md5 = Attribute(scope, file, "Content-MD5", namespace, None)
      /\ read.encoding = Attribute(scope, file, "Content-Encoding", namespace, Empty)
      /\ read.type = Attribute(scope, file, "Content-Type", namespace, Empty)
      /\ read.etag = Attribute(scope, file, "File-ETag", Mbms.mbms2012, Empty)
  BY DEF EntryOf
<1>4. /\ read.maxBlock = Attribute(scope, file, "FEC-OTI-Maximum-Source-Block-Length",
                                  namespace, global.maxBlock) % Word
      /\ read.symbolLength = Attribute(scope, file, "FEC-OTI-Encoding-Symbol-Length",
                                      namespace, global.symbolLength) % Word
  BY DEF EntryOf, FecOf
<1>5. read.expires = IF read.cacheExpires = None THEN 0 ELSE read.cacheExpires
  BY DEF EntryOf
<1> QED
  BY <1>1, <1>2, <1>3, <1>4, <1>5

LEMMA CachingOfEntry ==
  ASSUME NEW file, NEW scope, NEW namespace, NEW global, InScope(file, scope) = scope,
         NEW read, read = EntryOf(file, scope, namespace, global),
         NEW caching, caching = CachingOf(scope, file),
         caching # <<>> => InScope(caching[1], scope) = scope
  PROVE  /\ read.noCache \in BOOLEAN
         /\ read.noCache <=> caching # <<>> /\ SaysNoCache(scope, caching[1])
         /\ read.cacheExpires =
              IF caching = <<>> THEN None ELSE CacheExpires(scope, caching[1])
<1>1. read.cacheExpires = IF caching = <<>> THEN None ELSE CacheExpires(scope, caching[1])
  BY DEF EntryOf, CachingOf
<1>2. /\ read.noCache \in BOOLEAN
      /\ read.noCache <=> caching # <<>> /\ SaysNoCache(InScope(caching[1], scope), caching[1])
  BY DEF EntryOf, CachingOf, SaysNoCache
<1> QED
  BY <1>1, <1>2

\* The entry of a File is the one it was written for.
LEMMA EntryIsRead ==
  ASSUME NEW scope, NEW p, NEW namespace, Scoped(scope, p, namespace),
         NEW file, NEW entry, NEW global, IsFile(file, entry, global, p), EntryFits(entry)
  PROVE  EntryOf(file, scope, namespace, global) = Expected(entry)
<1> DEFINE read == EntryOf(file, scope, namespace, global)
           caching == CachingOf(scope, file)
<1>1. InScope(file, scope) = scope
  BY ScopeStays DEF IsFile
<1>2. \A n \in 0..(Word - 1) : n % Word = n
  BY WordAssumption, Fits
<1>3. /\ entry.toi \in 0..(Word - 1) /\ entry.contentLength \in 0..(Word - 1)
      /\ entry.transferLength \in 0..(Word - 1) /\ entry.maxBlock \in 0..(Word - 1)
      /\ entry.symbolLength \in 0..(Word - 1)
      /\ entry.maxBlock # 0 /\ entry.symbolLength # 0
      /\ entry.transferLength = 0 => entry.contentLength = 0
  BY DEF EntryFits
<1>4. read.toi = entry.toi /\ read.contentLength = entry.contentLength
  <2>1. /\ Attribute(scope, file, "TOI", namespace, None) = entry.toi
        /\ Attribute(scope, file, "Content-Length", namespace, 0) = entry.contentLength
    BY FileIsRead
  <2>2. /\ read.toi = Attribute(scope, file, "TOI", namespace, None) % Word
        /\ read.contentLength = Attribute(scope, file, "Content-Length", namespace, 0) % Word
    BY <1>1, EntryOfIs
  <2> QED
    BY <1>2, <1>3, <2>1, <2>2
<1>5. read.transferLength = entry.transferLength
  <2>1. Attribute(scope, file, "Transfer-Length", namespace, entry.contentLength) =
          entry.transferLength
    <3>1. Attribute(scope, file, "Transfer-Length", namespace, entry.contentLength) =
            IF entry.transferLength # 0 THEN entry.transferLength ELSE entry.contentLength
      BY FileIsRead
    <3> QED
      BY <1>3, <3>1
  <2>2. read.transferLength =
          Attribute(scope, file, "Transfer-Length", namespace, read.contentLength) % Word
    BY <1>1, EntryOfIs
  <2> QED
    BY <1>2, <1>3, <1>4, <2>1, <2>2
<1>6. read.location = entry.location /\ read.md5 = entry.md5
  <2>1. /\ Attribute(scope, file, "Content-Location", namespace, None) = entry.location
        /\ Attribute(scope, file, "Content-MD5", namespace, None) =
             IF entry.md5 # None THEN entry.md5 ELSE None
    BY FileIsRead
  <2>2. /\ read.location = Attribute(scope, file, "Content-Location", namespace, None)
        /\ read.md5 = Attribute(scope, file, "Content-MD5", namespace, None)
    BY <1>1, EntryOfIs
  <2> QED
    BY <2>1, <2>2
<1>7. read.encoding = entry.encoding /\ read.type = entry.type
  <2>1. /\ Attribute(scope, file, "Content-Encoding", namespace, Empty) =
             IF entry.encoding # Empty THEN entry.encoding ELSE Empty
        /\ Attribute(scope, file, "Content-Type", namespace, Empty) =
             IF entry.type # Empty THEN entry.type ELSE Empty
    BY FileIsRead
  <2>2. /\ read.encoding = Attribute(scope, file, "Content-Encoding", namespace, Empty)
        /\ read.type = Attribute(scope, file, "Content-Type", namespace, Empty)
    BY <1>1, EntryOfIs
  <2> QED
    BY <2>1, <2>2
<1>8. read.etag = entry.etag
  <2>1. Attribute(scope, file, "File-ETag", Mbms.mbms2012, Empty) =
          IF entry.etag # Empty THEN entry.etag ELSE Empty
    BY FileIsRead
  <2>2. read.etag = Attribute(scope, file, "File-ETag", Mbms.mbms2012, Empty)
    BY <1>1, EntryOfIs
  <2> QED
    BY <2>1, <2>2
<1>9. read.maxBlock = entry.maxBlock
  <2>1. Attribute(scope, file, "FEC-OTI-Maximum-Source-Block-Length", namespace,
                  global.maxBlock) =
          IF entry.maxBlock \notin {0, global.maxBlock} THEN entry.maxBlock ELSE global.maxBlock
    BY FileIsRead
  <2>2. read.maxBlock = Attribute(scope, file, "FEC-OTI-Maximum-Source-Block-Length", namespace,
                                  global.maxBlock) % Word
    BY <1>1, EntryOfIs
  <2> QED
    BY <1>2, <1>3, <2>1, <2>2
<1>10. read.symbolLength = entry.symbolLength
  <2>1. Attribute(scope, file, "FEC-OTI-Encoding-Symbol-Length", namespace,
                  global.symbolLength) =
          IF entry.symbolLength \notin {0, global.symbolLength} THEN entry.symbolLength
          ELSE global.symbolLength
    BY FileIsRead
  <2>2. read.symbolLength = Attribute(scope, file, "FEC-OTI-Encoding-Symbol-Length", namespace,
                                      global.symbolLength) % Word
    BY <1>1, EntryOfIs
  <2> QED
    BY <1>2, <1>3, <2>1, <2>2
<1>11. \/ /\ caching = <<>>
          /\ ~entry.noCache /\ entry.cacheExpires = None
       \/ /\ caching # <<>>
          /\ InScope(caching[1], scope) = scope
          /\ SaysNoCache(scope, caching[1]) <=> entry.noCache
          /\ CacheExpires(scope, caching[1]) = IF entry.noCache THEN None ELSE entry.cacheExpires
  <2>1. /\ file.children = CacheControl(entry) /\ entry.noCache \in BOOLEAN
        /\ ~entry.noCache /\ entry.cacheExpires # None => entry.expires = entry.cacheExpires
    BY DEF IsFile, EntryFits
  <2> QED
    BY <2>1, CachingIsRead
<1>12. /\ read.noCache \in BOOLEAN
       /\ read.noCache <=> caching # <<>> /\ SaysNoCache(scope, caching[1])
       /\ read.cacheExpires = IF caching = <<>> THEN None ELSE CacheExpires(scope, caching[1])
  <2>1. read = EntryOf(file, scope, namespace, global) /\ caching = CachingOf(scope, file)
    OBVIOUS
  <2> HIDE DEF read, caching
  <2>2. caching # <<>> => InScope(caching[1], scope) = scope
    BY <1>11
  <2> QED
    BY <1>1, <2>1, <2>2, CachingOfEntry
<1>13. /\ read.noCache = entry.noCache
       /\ read.cacheExpires = IF entry.noCache THEN None ELSE entry.cacheExpires
  <2>1. entry.noCache \in BOOLEAN
    BY DEF EntryFits
  <2> HIDE DEF read, caching
  <2>2. read.noCache <=> entry.noCache
    BY <1>11, <1>12
  <2>3. read.cacheExpires = IF entry.noCache THEN None ELSE entry.cacheExpires
    BY <1>11, <1>12
  <2>4. read.noCache = entry.noCache
    BY <1>12, <2>1, <2>2
  <2> QED
    BY <2>3, <2>4
<1>14. read.expires = (IF read.cacheExpires = None THEN 0 ELSE read.cacheExpires) /\ IsEntry(read)
  BY <1>1, EntryOfIs
<1> HIDE DEF read
<1>15. \A field \in Fields \ {"noCache", "cacheExpires", "expires"} : read[field] = entry[field]
  BY <1>4, <1>5, <1>6, <1>7, <1>8, <1>9, <1>10 DEF Fields
<1>16. /\ IsEntry(Expected(entry))
       /\ Expected(entry).noCache = entry.noCache
       /\ Expected(entry).cacheExpires = IF entry.noCache THEN None ELSE entry.cacheExpires
       /\ Expected(entry).expires =
            IF Expected(entry).cacheExpires = None THEN 0 ELSE Expected(entry).cacheExpires
       /\ \A field \in Fields \ {"noCache", "cacheExpires", "expires"} :
            Expected(entry)[field] = entry[field]
  BY ExpectedIs
<1>17. \A field \in Fields : read[field] = Expected(entry)[field]
  BY <1>13, <1>14, <1>15, <1>16 DEF Fields
<1>18. read = Expected(entry)
  BY <1>14, <1>16, <1>17, SameEntry
<1> QED
  BY <1>18 DEF read

-----------------------------------------------------------------------------
\* What the attributes of an FDT-Instance say.
LEMMA InstanceSays ==
  ASSUME NEW entries, NEW namespace, NEW expires, NEW global, NEW attributes,
         attributes = ToDocument(entries, namespace, expires, global).attributes
  PROVE  /\ Among(attributes, "Expires") = {It(Empty, "Expires", expires)}
         /\ Among(attributes, "FEC-OTI-Maximum-Source-Block-Length") =
              {It(Empty, "FEC-OTI-Maximum-Source-Block-Length", global.maxBlock)}
         /\ Among(attributes, "FEC-OTI-Encoding-Symbol-Length") =
              {It(Empty, "FEC-OTI-Encoding-Symbol-Length", global.symbolLength)}
<1> DEFINE s0 == It(Empty, "Expires", expires)
           s1 == It(Empty, "FEC-OTI-FEC-Encoding-ID", 0)
           s2 == It(Empty, "FEC-OTI-Maximum-Source-Block-Length", global.maxBlock)
           s3 == It(Empty, "FEC-OTI-Encoding-Symbol-Length", global.symbolLength)
<1>1. attributes = {s0, s1, s2, s3}
  BY DEF ToDocument, Element, Plain, It
<1>2. /\ s0[1][2] = "Expires"
      /\ s1[1][2] = "FEC-OTI-FEC-Encoding-ID"
      /\ s2[1][2] = "FEC-OTI-Maximum-Source-Block-Length"
      /\ s3[1][2] = "FEC-OTI-Encoding-Symbol-Length"
  BY ItHas
<1> HIDE DEF s0, s1, s2, s3
<1>3. /\ Among(attributes, "Expires") = {s0}
      /\ Among(attributes, "FEC-OTI-Maximum-Source-Block-Length") = {s2}
      /\ Among(attributes, "FEC-OTI-Encoding-Symbol-Length") = {s3}
  BY <1>1, <1>2 DEF Among
<1> QED
  BY <1>3 DEF s0, s2, s3

\* FEC parameters that fit the fields of the document.
FecFits(fec) ==
  /\ fec = [maxBlock |-> fec.maxBlock, symbolLength |-> fec.symbolLength]
  /\ fec.maxBlock \in 0..(Word - 1) /\ fec.symbolLength \in 0..(Word - 1)

\* The FDT-Instance of a table, as it is written or with prefix p.
IsInstance(root, scope, entries, namespace, global, p) ==
  /\ root.name[1] = p /\ root.name[2] = "FDT-Instance"
  /\ scope = InScope(root, NoScope) /\ Scoped(scope, p, namespace)
  /\ HasAttributes(root, ToDocument(entries, namespace, 7, global).attributes, p)
  /\ DOMAIN root.children = DOMAIN entries
  /\ \A i \in DOMAIN entries : IsFile(root.children[i], entries[i], global, p)

LEMMA FilesAreFound ==
  ASSUME NEW root, NEW scope, NEW entries, NEW namespace, NEW global, NEW p,
         IsInstance(root, scope, entries, namespace, global, p),
         NEW n \in Nat, DOMAIN entries = 1..n
  PROVE  Children(scope, root, "File", namespace) = [i \in 1..n |-> root.children[i]]
<1>1. ASSUME NEW i \in 1..n
      PROVE  Found(root.children[i], scope, "File", namespace)
  <2> DEFINE child == root.children[i]
  <2>1. IsFile(child, entries[i], global, p) /\ Scoped(scope, p, namespace)
    BY DEF IsInstance
  <2> HIDE DEF child
  <2>2. InScope(child, scope) = scope
    BY <2>1, ScopeStays DEF IsFile
  <2>3. NamespaceOf(scope, p) = namespace
    BY <2>1, OwnScope DEF IsFile
  <2>4. child.name[1] = p /\ child.name[2] = "File"
    BY <2>1 DEF IsFile
  <2>5. Found(child, scope, "File", namespace)
    BY <2>2, <2>3, <2>4 DEF Found, Matches
  <2> QED
    BY <2>5 DEF child
<1>2. DOMAIN root.children = 1..n
  BY DEF IsInstance
<1> QED
  BY <1>1, <1>2, AllChildren

LEMMA InstanceIsRead ==
  ASSUME NEW root, NEW scope, NEW entries, NEW namespace, NEW global, NEW p,
         IsInstance(root, scope, entries, namespace, global, p), FecFits(global)
  PROVE  /\ Attribute(scope, root, "Expires", namespace, None) = 7
         /\ FecOf(scope, root, namespace, [maxBlock |-> 0, symbolLength |-> 0]) = global
<1> DEFINE attributes == ToDocument(entries, namespace, 7, global).attributes
           zeros == [maxBlock |-> 0, symbolLength |-> 0]
<1>1. attributes = ToDocument(entries, namespace, 7, global).attributes
  OBVIOUS
<1> HIDE DEF attributes, zeros
<1>2. Reads(scope, p, namespace, root, attributes)
  BY <1>1 DEF IsInstance, Reads
<1>3. Written(Empty, namespace, namespace)
  BY DEF Written
<1>4. /\ Among(attributes, "Expires") = {It(Empty, "Expires", 7)}
      /\ Among(attributes, "FEC-OTI-Maximum-Source-Block-Length") =
           {It(Empty, "FEC-OTI-Maximum-Source-Block-Length", global.maxBlock)}
      /\ Among(attributes, "FEC-OTI-Encoding-Symbol-Length") =
           {It(Empty, "FEC-OTI-Encoding-Symbol-Length", global.symbolLength)}
  BY <1>1, InstanceSays
<1>5. Attribute(scope, root, "Expires", namespace, None) = 7
  BY <1>2, <1>3, <1>4, AttributeIsRead
<1>6. Attribute(scope, root, "FEC-OTI-Maximum-Source-Block-Length", namespace, zeros.maxBlock)
        = global.maxBlock
  BY <1>2, <1>3, <1>4, AttributeIsRead
<1>7. Attribute(scope, root, "FEC-OTI-Encoding-Symbol-Length", namespace, zeros.symbolLength)
        = global.symbolLength
  BY <1>2, <1>3, <1>4, AttributeIsRead
<1>8. global.maxBlock % Word = global.maxBlock /\ global.symbolLength % Word = global.symbolLength
  BY WordAssumption, Fits DEF FecFits
<1>9. FecOf(scope, root, namespace, zeros) =
        [maxBlock |-> global.maxBlock, symbolLength |-> global.symbolLength]
  BY <1>6, <1>7, <1>8 DEF FecOf
<1> QED
  BY <1>5, <1>9 DEF FecFits, zeros

\* A table whose entries fit, and what is read of it.
TableFits(entries) ==
  /\ \E n \in Nat : DOMAIN entries = 1..n
  /\ \A i \in DOMAIN entries : EntryFits(entries[i])

AsRead(entries, namespace, global) ==
  [namespace |-> namespace, expires |-> 7, global |-> global,
   entries |-> [i \in DOMAIN entries |-> Expected(entries[i])]]

\* A document is read as the table it was written for.
THEOREM DocumentIsRead ==
  ASSUME NEW root, NEW scope, NEW entries, NEW namespace \in FdtNamespaces, NEW global, NEW p,
         IsInstance(root, scope, entries, namespace, global, p), FecFits(global),
         TableFits(entries)
  PROVE  ~Refused(root) /\ FromDocument(root) = AsRead(entries, namespace, global)
<1>0. PICK n \in Nat : DOMAIN entries = 1..n
  BY DEF TableFits
<1>1. /\ scope = InScope(root, NoScope) /\ Scoped(scope, p, namespace)
      /\ root.name[1] = p /\ root.name[2] = "FDT-Instance"
      /\ \A i \in 1..n : IsFile(root.children[i], entries[i], global, p)
  BY <1>0 DEF IsInstance
<1>2. ElementNamespace(scope, root) = namespace /\ NamespaceOf(scope, p) = namespace
  BY <1>1, OwnScope
<1>3. Children(scope, root, "File", namespace) = [i \in 1..n |-> root.children[i]]
  BY <1>0, FilesAreFound
<1> DEFINE files == Children(scope, root, "File", namespace)
<1>4. DOMAIN files = 1..n /\ \A i \in 1..n : files[i] = root.children[i]
  BY <1>3
<1> HIDE DEF files
<1>5. ASSUME NEW i \in 1..n
      PROVE  /\ InScope(files[i], scope) = scope
             /\ Attributes(scope, files[i], "TOI", namespace) # {}
             /\ Attributes(scope, files[i], "Content-Location", namespace) # {}
             /\ EntryOf(files[i], scope, namespace, global) = Expected(entries[i])
  <2> DEFINE file == files[i]
             entry == entries[i]
  <2>1. IsFile(file, entry, global, p) /\ EntryFits(entry)
    BY <1>0, <1>1, <1>4 DEF TableFits
  <2> HIDE DEF file, entry
  <2>2. InScope(file, scope) = scope
    BY <1>1, <2>1, ScopeStays DEF IsFile
  <2>3. /\ Attributes(scope, file, "TOI", namespace) # {}
        /\ Attributes(scope, file, "Content-Location", namespace) # {}
    BY <1>1, <2>1, FileIsRead
  <2>4. EntryOf(file, scope, namespace, global) = Expected(entry)
    BY <1>1, <2>1, EntryIsRead
  <2> QED
    BY <2>2, <2>3, <2>4 DEF file, entry
<1>6. ~Refused(root)
  <2>1. Matches(scope, root.name, "FDT-Instance", namespace)
    BY <1>1, <1>2 DEF Matches
  <2>2. \A i \in DOMAIN files : \A local \in {"TOI", "Content-Location"} :
          Attributes(InScope(files[i], scope), files[i], local, namespace) # {}
    BY <1>4, <1>5
  <2> QED
    BY <1>1, <1>2, <2>1, <2>2 DEF Refused, files
<1>7. FromDocument(root) = AsRead(entries, namespace, global)
  <2> DEFINE zeros == [maxBlock |-> 0, symbolLength |-> 0]
             read == [i \in DOMAIN files |-> EntryOf(files[i], scope, namespace, global)]
  <2>1. read = [i \in DOMAIN entries |-> Expected(entries[i])]
    BY <1>0, <1>4, <1>5
  <2>2. /\ Attribute(scope, root, "Expires", namespace, None) = 7
        /\ FecOf(scope, root, namespace, zeros) = global
    BY InstanceIsRead
  <2>3. FromDocument(root) =
          [namespace |-> namespace,
           expires |-> Attribute(scope, root, "Expires", namespace, None),
           global |-> FecOf(scope, root, namespace, zeros),
           entries |-> [i \in DOMAIN files |->
                          EntryOf(files[i], scope, namespace, FecOf(scope, root, namespace, zeros))]]
    BY <1>1, <1>2 DEF FromDocument, files
  <2> QED
    BY <2>1, <2>2, <2>3 DEF AsRead
<1> QED
  BY <1>6, <1>7

-----------------------------------------------------------------------------
LEMMA MbmsIs ==
  /\ DOMAIN Mbms = {"mbms2007", "mbms2012"}
  /\ Mbms = [prefix \in {"mbms2007", "mbms2012"} |-> Mbms[prefix]]
  /\ Mbms["mbms2007"] = Mbms.mbms2007 /\ Mbms["mbms2012"] = Mbms.mbms2012
  BY DEF Mbms

LEMMA BoundToNone ==
  ASSUME NEW bound, bound = [prefix \in DOMAIN bound |-> bound[prefix]]
  PROVE  WithBound(NoPrefixes, bound) = bound
  BY DEF WithBound, NoPrefixes

LEMMA FileWritten ==
  ASSUME NEW entry, NEW global, NEW file, file = FileElement(entry, global)
  PROVE  /\ file.name[1] = Empty /\ file.name[2] = "File"
         /\ file.xmlns = None /\ file.bound = NoPrefixes
         /\ file.children = CacheControl(entry)
         /\ IsFile(file, entry, global, Empty)
<1>1. /\ file.name = <<Empty, "File">> /\ file.xmlns = None /\ file.bound = NoPrefixes
      /\ file.children = CacheControl(entry)
  BY DEF FileElement, Element, Plain
<1> QED
  BY <1>1 DEF IsFile, Declares, HasAttributes

LEMMA DocumentWritten ==
  ASSUME NEW entries, NEW namespace, NEW expires, NEW global, NEW root,
         root = ToDocument(entries, namespace, expires, global)
  PROVE  /\ root.name[1] = Empty /\ root.name[2] = "FDT-Instance"
         /\ root.xmlns = IF namespace = Empty THEN None ELSE namespace
         /\ root.bound = Mbms
         /\ root.children = [i \in DOMAIN entries |-> FileElement(entries[i], global)]
<1>1. /\ root.name = <<Empty, "FDT-Instance">>
      /\ root.xmlns = IF namespace = Empty THEN None ELSE namespace
      /\ root.bound = Mbms
      /\ root.children = [i \in DOMAIN entries |-> FileElement(entries[i], global)]
  BY DEF ToDocument, Element, Plain
<1> QED
  BY <1>1

\* As it is written.
LEMMA WrittenPlain ==
  ASSUME NEW entries, NEW namespace \in FdtNamespaces, NEW global, NEW root,
         root = ToDocument(entries, namespace, 7, global), None \notin FdtNamespaces
  PROVE  IsInstance(root, InScope(root, NoScope), entries, namespace, global, Empty)
<1> DEFINE scope == InScope(root, NoScope)
<1>1. /\ root.name[1] = Empty /\ root.name[2] = "FDT-Instance"
      /\ root.xmlns = IF namespace = Empty THEN None ELSE namespace
      /\ root.bound = Mbms
      /\ root.children = [i \in DOMAIN entries |-> FileElement(entries[i], global)]
  BY DocumentWritten
<1>2. WithBound(NoPrefixes, Mbms) = Mbms
  BY MbmsIs, BoundToNone
<1>3. scope = [default |-> namespace, bound |-> Mbms]
  BY <1>1, <1>2 DEF InScope, NoScope
<1>4. Scoped(scope, Empty, namespace)
  <2>1. scope.default = namespace /\ scope.bound = Mbms
    BY <1>3
  <2>2. scope = [default |-> scope.default, bound |-> scope.bound]
    BY <1>3
  <2> HIDE DEF scope
  <2> QED
    BY <2>1, <2>2, MbmsIs DEF Scoped
<1>5. \A i \in DOMAIN entries : IsFile(root.children[i], entries[i], global, Empty)
  BY <1>1, FileWritten
<1>6. HasAttributes(root, ToDocument(entries, namespace, 7, global).attributes, Empty)
  BY DEF HasAttributes
<1> HIDE DEF scope
<1>7. scope = InScope(root, NoScope)
  BY DEF scope
<1>8. IsInstance(root, scope, entries, namespace, global, Empty)
  BY <1>1, <1>4, <1>5, <1>6, <1>7 DEF IsInstance
<1> QED
  BY <1>8 DEF scope

LEMMA PrefixedFile ==
  ASSUME NEW entry, NEW global, NEW attributesToo \in BOOLEAN
  PROVE  IsFile(WithPrefix(FileElement(entry, global), "fdt", attributesToo), entry, global, "fdt")
<1> DEFINE file == FileElement(entry, global)
           same == WithPrefix(file, "fdt", attributesToo)
<1>1. /\ file.name[1] = Empty /\ file.name[2] = "File"
      /\ file.xmlns = None /\ file.bound = NoPrefixes
      /\ file.children = CacheControl(entry)
  BY FileWritten
<1>2. DOMAIN file = {"name", "xmlns", "bound", "attributes", "children", "text"}
  BY DEF FileElement, Element
<1>3. file = [field \in DOMAIN file |-> file[field]]
  BY DEF FileElement, Element
<1> HIDE DEF file
<1>4. /\ same.name = Renamed(file.name, "fdt") /\ same.xmlns = None
      /\ same.bound = file.bound /\ same.children = file.children
      /\ same.attributes = IF attributesToo THEN RenamedAttributes(file.attributes, "fdt")
                           ELSE file.attributes
  BY <1>2, <1>3 DEF WithPrefix
<1>5. same.name[1] = "fdt" /\ same.name[2] = "File"
  BY <1>1, <1>4 DEF Renamed
<1> HIDE DEF same
<1>6. IsFile(same, entry, global, "fdt")
  BY <1>1, <1>4, <1>5 DEF IsFile, Declares, HasAttributes, file
<1> QED
  BY <1>6 DEF same, file

\* With a prefix.
LEMMA WrittenPrefixed ==
  ASSUME NEW entries, NEW namespace \in FdtNamespaces \ {Empty}, NEW global, NEW root,
         root = ToDocument(entries, namespace, 7, global),
         NEW attributesToo \in BOOLEAN, NEW same, same = Prefixed(root, attributesToo)
  PROVE  IsInstance(same, InScope(same, NoScope), entries, namespace, global, "fdt")
<1>1. /\ root.name[1] = Empty /\ root.name[2] = "FDT-Instance"
      /\ root.xmlns = namespace
      /\ root.bound = Mbms
      /\ root.children = [i \in DOMAIN entries |-> FileElement(entries[i], global)]
  BY DocumentWritten
<1>2. DOMAIN root = {"name", "xmlns", "bound", "attributes", "children", "text"}
  BY DEF ToDocument, Element
<1>3. root = [field \in DOMAIN root |-> root[field]]
  BY DEF ToDocument, Element
<1> DEFINE bound == WithBound(Mbms, [fdt |-> namespace])
           scope == InScope(same, NoScope)
<1>4. /\ same.name = Renamed(root.name, "fdt") /\ same.xmlns = None
      /\ same.bound = bound
      /\ same.children = [i \in DOMAIN entries |->
                            WithPrefix(FileElement(entries[i], global), "fdt", attributesToo)]
      /\ same.attributes = IF attributesToo THEN RenamedAttributes(root.attributes, "fdt")
                           ELSE root.attributes
  BY <1>1, <1>2, <1>3 DEF WithPrefix, Prefixed
<1>5. same.name[1] = "fdt" /\ same.name[2] = "FDT-Instance"
  BY <1>1, <1>4 DEF Renamed
<1>6. /\ DOMAIN bound = {"mbms2007", "mbms2012", "fdt"}
      /\ bound = [prefix \in DOMAIN bound |-> bound[prefix]]
      /\ bound["mbms2007"] = Mbms.mbms2007 /\ bound["mbms2012"] = Mbms.mbms2012
      /\ bound["fdt"] = namespace
  BY MbmsIs DEF WithBound
<1> HIDE DEF bound
<1>7. scope = [default |-> Empty, bound |-> bound]
  BY <1>4, <1>6, BoundToNone DEF InScope, NoScope
<1>8. Scoped(scope, "fdt", namespace)
  <2>1. scope.bound = bound /\ scope = [default |-> scope.default, bound |-> scope.bound]
    BY <1>7
  <2> HIDE DEF scope
  <2> QED
    BY <1>6, <2>1 DEF Scoped
<1>9. \A i \in DOMAIN entries : IsFile(same.children[i], entries[i], global, "fdt")
  BY <1>4, PrefixedFile
<1>10. HasAttributes(same, ToDocument(entries, namespace, 7, global).attributes, "fdt")
  BY <1>4 DEF HasAttributes
<1>11. scope = InScope(same, NoScope)
  OBVIOUS
<1> HIDE DEF scope
<1>12. IsInstance(same, scope, entries, namespace, global, "fdt")
  BY <1>4, <1>5, <1>8, <1>9, <1>10, <1>11 DEF IsInstance
<1> QED
  BY <1>12 DEF scope

-----------------------------------------------------------------------------
(* What is sent fits *)

\* The parameters a description has kept are those of transmitters.
FecInv ==
  \A h \in Handle : descs[h].fec.symbolLength < HalfWord /\ descs[h].fec.maxBlock < Word

LEMMA FecOfSent ==
  ASSUME NEW desc \in Description, NEW t \in Transmitters,
         desc.fec.symbolLength < HalfWord, desc.fec.maxBlock < Word
  PROVE  LET fec == SentWith(desc, t).fec
         IN /\ fec.symbolLength \in 0..(HalfWord - 1) /\ fec.maxBlock \in 0..(Word - 1)
            /\ fec.symbolLength # 0 /\ fec.maxBlock # 0
<1> DEFINE fec == Merged(desc.fec, FecOfTransmitter[t])
<1>1. /\ desc.fec.symbolLength \in Nat /\ desc.fec.maxBlock \in Nat
      /\ FecOfTransmitter[t].symbolLength \in Nat \ {0}
      /\ FecOfTransmitter[t].maxBlock \in Nat \ {0}
      /\ FecOfTransmitter[t].symbolLength < HalfWord /\ FecOfTransmitter[t].maxBlock < Word
  BY DescriptionAssumption, WireAssumption DEF Description
<1>2. /\ fec.symbolLength = IF desc.fec.symbolLength = 0 THEN FecOfTransmitter[t].symbolLength
                            ELSE desc.fec.symbolLength
      /\ fec.maxBlock = IF desc.fec.maxBlock = 0 THEN FecOfTransmitter[t].maxBlock
                        ELSE desc.fec.maxBlock
  BY DEF Merged
<1>3. SentWith(desc, t).fec = fec
  BY DEF SentWith, Description
<1> HIDE DEF fec
<1> QED
  BY <1>1, <1>2, <1>3, HalfWordIs, WordAssumption

LEMMA FecInvInit == DescriptionInit => FecInv
<1> SUFFICES ASSUME DescriptionInit, NEW h \in Handle
             PROVE  descs[h].fec.symbolLength < HalfWord /\ descs[h].fec.maxBlock < Word
  BY DEF FecInv
<1>1. descs[h] = NewDescription(None)
  BY DEF DescriptionInit
<1>2. NewDescription(None).fec = [symbolLength |-> 0, maxBlock |-> 0]
  BY DEF NewDescription, Calculated
<1> QED
  BY <1>1, <1>2, HalfWordIs, WordAssumption

\* A step that changes one description keeps them if this one's fit.
LEMMA OneFecChanges ==
  ASSUME FecInv, NEW h \in Handle, NEW desc, descs \in [Handle -> Description],
         descs' = [descs EXCEPT ![h] = desc],
         desc.fec.symbolLength < HalfWord, desc.fec.maxBlock < Word
  PROVE  FecInv'
  BY DEF FecInv

LEMMA FecOfContents ==
  ASSUME NEW desc \in Description, NEW toi, NEW area, NEW filename
  PROVE  WithContents(desc, toi, area, filename).fec = desc.fec
  BY DEF WithContents, Calculated, Description

LEMMA FecInvNext == DescriptionTypeOK /\ FecInv /\ [DescriptionNext]_descVars => FecInv'
<1> SUFFICES ASSUME DescriptionTypeOK, FecInv, [DescriptionNext]_descVars PROVE FecInv'
  OBVIOUS
<1>1. descs \in [Handle -> Description]
  BY DEF DescriptionTypeOK
<1>2. \A h \in Handle : /\ descs[h] \in Description
                        /\ descs[h].fec.symbolLength < HalfWord /\ descs[h].fec.maxBlock < Word
  BY <1>1 DEF FecInv
<1>3. ASSUME NEW h \in Handle, NEW area \in Buffer \cup {None}, SetContent(h, area)
      PROVE  FecInv'
  <2> DEFINE desc == descs[h]
             toi == IF Others(desc, area) THEN 0 ELSE desc.toi
             new == IF desc.data = area /\ desc.length = Size[At(area)] THEN desc
                    ELSE WithContents(desc, toi, area, None)
  <2>1. descs' = [descs EXCEPT ![h] = new]
    BY <1>3 DEF SetContent
  <2>2. new.fec = desc.fec
    BY <1>2, FecOfContents
  <2> HIDE DEF new
  <2> QED
    BY <1>1, <1>2, <2>1, <2>2, OneFecChanges
<1>4. ASSUME NEW h \in Handle, NEW area \in Buffer \cup {None}, AssignNew(h, area)
      PROVE  FecInv'
  <2> DEFINE new == NewDescription(area)
  <2>1. descs' = [descs EXCEPT ![h] = new]
    BY <1>4 DEF AssignNew
  <2>2. new.fec.symbolLength = 0 /\ new.fec.maxBlock = 0
    BY DEF NewDescription, Calculated
  <2> HIDE DEF new
  <2>3. new.fec.symbolLength < HalfWord /\ new.fec.maxBlock < Word
    BY <2>2, HalfWordIs, WordAssumption
  <2> QED
    BY <1>1, <2>1, <2>3, OneFecChanges
<1>5. ASSUME NEW h \in Handle, NEW g \in Handle, Assign(h, g)
      PROVE  FecInv'
  <2>1. descs' = [descs EXCEPT ![h] = descs[g]]
    BY <1>5 DEF Assign
  <2> QED
    BY <1>1, <1>2, <2>1, OneFecChanges
<1>6. ASSUME NEW h \in Handle, NEW name \in LocalFile, SetContentFile(h, name)
      PROVE  FecInv'
  <2> DEFINE desc == descs[h]
             new == IF desc.filename = name THEN desc ELSE WithContents(desc, 0, name, name)
  <2>1. descs' = [descs EXCEPT ![h] = new]
    BY <1>6 DEF SetContentFile
  <2>2. new.fec = desc.fec
    BY <1>2, FecOfContents
  <2> HIDE DEF new
  <2> QED
    BY <1>1, <1>2, <2>1, <2>2, OneFecChanges
<1>7. ASSUME NEW h \in Handle, NEW name \in LocalFile, SetContentFileFails(h, name)
      PROVE  FecInv'
  <2> DEFINE desc == descs[h]
             new == [desc EXCEPT !.filename = name]
  <2>1. descs' = [descs EXCEPT ![h] = new]
    BY <1>7 DEF SetContentFileFails
  <2>2. new.fec = desc.fec
    BY <1>2 DEF Description
  <2> HIDE DEF new
  <2> QED
    BY <1>1, <1>2, <2>1, <2>2, OneFecChanges
<1>8. ASSUME NEW h \in Handle, NEW encoding \in Encodings, SetCompression(h, encoding)
      PROVE  FecInv'
  <2> DEFINE desc == descs[h]
             set == [desc EXCEPT !.compression = encoding, !.encoding = encoding, !.toi = 0]
             new == IF desc.compression = encoding THEN desc ELSE Calculated(set)
  <2>1. descs' = [descs EXCEPT ![h] = new]
    BY <1>8 DEF SetCompression
  <2>2. new.fec = desc.fec
    BY <1>2 DEF Description, Calculated
  <2> HIDE DEF new
  <2> QED
    BY <1>1, <1>2, <2>1, <2>2, OneFecChanges
<1>9. ASSUME NEW h \in Handle, NEW details \in Details, SetDetails(h, details)
      PROVE  FecInv'
  <2> DEFINE desc == descs[h]
             new == [desc EXCEPT !.details = details]
  <2>1. descs' = [descs EXCEPT ![h] = new]
    BY <1>9 DEF SetDetails
  <2>2. new.fec = desc.fec
    BY <1>2 DEF Description
  <2> HIDE DEF new
  <2> QED
    BY <1>1, <1>2, <2>1, <2>2, OneFecChanges
<1>10. ASSUME NEW h \in Handle, NEW t \in Transmitters, Send(h, t)
       PROVE  FecInv'
  <2> DEFINE desc == descs[h]
             new == SentWith(desc, t)
  <2>1. descs' = [descs EXCEPT ![h] = new]
    BY <1>10 DEF Send
  <2>2. new.fec.symbolLength \in 0..(HalfWord - 1) /\ new.fec.maxBlock \in 0..(Word - 1)
    <3> HIDE DEF desc
    <3>1. /\ desc \in Description
          /\ desc.fec.symbolLength < HalfWord /\ desc.fec.maxBlock < Word
      BY <1>2 DEF desc
    <3> QED
      BY <3>1, FecOfSent
  <2> HIDE DEF new
  <2>3. new.fec.symbolLength < HalfWord /\ new.fec.maxBlock < Word
    BY <2>2, HalfWordIs, WordAssumption
  <2> QED
    BY <1>1, <2>1, <2>3, OneFecChanges
<1>11. ASSUME NEW name \in LocalFile, NEW c \in Contents, FileAppears(name, c)
       PROVE  FecInv'
  BY <1>11 DEF FileAppears, FecInv
<1>12. CASE UNCHANGED descVars
  BY <1>12 DEF descVars, FecInv
<1> QED
  BY <1>3, <1>4, <1>5, <1>6, <1>7, <1>8, <1>9, <1>10, <1>11, <1>12 DEF DescriptionNext

\* Why receivers are told the truth: the descriptions are sound and what they say fits.
WireInv == DescriptionInv /\ FecInv

LEMMA WireInvariant == DescriptionSpec => []WireInv
<1>1. DescriptionInv => DescriptionTypeOK
  BY DEF DescriptionInv
<1>2. FecInv /\ []DescriptionInv /\ [][DescriptionNext]_descVars => []FecInv
  BY <1>1, FecInvNext, PTL
<1> QED
  BY <1>2, DescriptionInvariant, FecInvInit, PTL DEF DescriptionSpec, WireInv

\* What is sent in the entry of a description.
LEMMA EntryForFits ==
  ASSUME WireInv, NEW h \in Handle, NEW t \in Transmitters, NEW entry,
         entry = EntryFor(descs[h], t)
  PROVE  /\ EntryFits(entry)
         /\ entry.toi <= ToiBound + 1 /\ entry.symbolLength < HalfWord
         /\ entry.noCache = FALSE
<1> DEFINE desc == descs[h]
           sent == SentWith(desc, t)
<1>1. /\ desc \in Description /\ Sound(desc, asked[h]) /\ DescriptionTypeOK
      /\ desc.fec.symbolLength < HalfWord /\ desc.fec.maxBlock < Word
  BY DEF WireInv, DescriptionInv, DescriptionTypeOK, FecInv
<1>2. entry = EntryFor(desc, t)
  OBVIOUS
<1> HIDE DEF desc
<1>3. HalfWord \in Nat /\ Word \in Nat /\ HalfWord < Word /\ ToiBound + 1 < HalfWord /\ ToiBound \in Nat
  BY HalfWordIs, WireAssumption, DescriptionAssumption
<1>4. sent.toi \in Nat /\ sent.toi <= ToiBound + 1
  <2>1. sent.toi \in Nat /\ sent.toi = IF TakesToi(desc, t) THEN nextToi[t] ELSE desc.toi
    BY <1>1, SentWithIs
  <2>2. nextToi[t] <= ToiBound + 1 /\ desc.toi <= ToiBound + 1
    BY <1>1, <1>3 DEF DescriptionTypeOK, Description
  <2> QED
    BY <2>1, <2>2
<1>5. /\ sent.fec.symbolLength \in 0..(HalfWord - 1) /\ sent.fec.maxBlock \in 0..(Word - 1)
      /\ sent.fec.symbolLength # 0 /\ sent.fec.maxBlock # 0
  BY <1>1, FecOfSent
<1> HIDE DEF sent
<1>6. /\ IsEntry(entry)
      /\ entry.toi = sent.toi /\ entry.contentLength = desc.length
      /\ entry.transferLength = TransferSize[desc.encoding][At(desc.data)]
      /\ entry.maxBlock = sent.fec.maxBlock /\ entry.symbolLength = sent.fec.symbolLength
      /\ entry.noCache = FALSE
      /\ entry.expires = IF entry.cacheExpires = None THEN 0 ELSE entry.cacheExpires
  BY <1>2 DEF EntryFor, IsEntry, Fields, sent
<1>7. /\ entry.contentLength \in 0..(Word - 1) /\ entry.transferLength \in 0..(Word - 1)
      /\ entry.transferLength = 0 => entry.contentLength = 0
  <2> DEFINE c == At(desc.data)
  <2>1. c \in Contents \cup {None} /\ desc.length = Size[c] /\ desc.encoding \in Encodings
    <3>1. desc.data \in Area \cup {None} /\ desc.encoding \in Encodings
      BY <1>1 DEF Description
    <3> QED
      BY <1>1, <3>1, AtType DEF Sound, Consistent
  <2> HIDE DEF c
  <2>2. /\ Size[c] \in Nat /\ Size[c] < Word
        /\ TransferSize[desc.encoding][c] \in Nat /\ TransferSize[desc.encoding][c] < Word
        /\ TransferSize[desc.encoding][c] = 0 => Size[c] = 0
    BY <2>1, DescriptionAssumption, WireAssumption
  <2>3. entry.contentLength = Size[c] /\ entry.transferLength = TransferSize[desc.encoding][c]
    BY <1>6, <2>1 DEF c
  <2> QED
    BY <1>3, <2>2, <2>3
<1>8. \A field \in {"toi", "contentLength", "transferLength", "maxBlock", "symbolLength"} :
        entry[field] \in 0..(Word - 1)
  BY <1>3, <1>4, <1>5, <1>6, <1>7
<1>9. entry.noCache \in BOOLEAN
  BY <1>6
<1>10. EntryFits(entry)
  BY <1>5, <1>6, <1>7, <1>8, <1>9 DEF EntryFits
<1> QED
  BY <1>3, <1>4, <1>5, <1>6, <1>10

\* An entry with another TOI and symbol length fits too, if these do.
LEMMA OtherFits ==
  ASSUME NEW entry, EntryFits(entry), entry.toi + 1 < Word,
         NEW symbolLength \in 1..(Word - 1), NEW other,
         other = [entry EXCEPT !.toi = @ + 1, !.symbolLength = symbolLength]
  PROVE  EntryFits(other) /\ other.noCache = entry.noCache
<1>1. IsEntry(entry) /\ entry.toi \in 0..(Word - 1)
  BY DEF EntryFits
<1>2. /\ IsEntry(other) /\ other.toi = entry.toi + 1 /\ other.symbolLength = symbolLength
      /\ \A field \in Fields \ {"toi", "symbolLength"} : other[field] = entry[field]
  BY <1>1 DEF IsEntry, Fields
<1>3. other.toi \in 0..(Word - 1) /\ other.symbolLength \in 0..(Word - 1) /\ other.symbolLength # 0
  BY <1>1, <1>2, WordAssumption
<1>4. /\ other.contentLength = entry.contentLength /\ other.transferLength = entry.transferLength
      /\ other.maxBlock = entry.maxBlock /\ other.noCache = entry.noCache
      /\ other.expires = entry.expires /\ other.cacheExpires = entry.cacheExpires
  BY <1>2 DEF Fields
<1>5. /\ entry.contentLength \in 0..(Word - 1) /\ entry.transferLength \in 0..(Word - 1)
      /\ entry.maxBlock \in 0..(Word - 1)
  BY DEF EntryFits
<1>6. \A field \in {"toi", "contentLength", "transferLength", "maxBlock", "symbolLength"} :
        other[field] \in 0..(Word - 1)
  BY <1>3, <1>4, <1>5
<1> QED
  BY <1>2, <1>3, <1>4, <1>6 DEF EntryFits

LEMMA UncachedFits ==
  ASSUME NEW entry, EntryFits(entry), NEW other, other = [entry EXCEPT !.noCache = TRUE]
  PROVE  EntryFits(other) /\ Expected(other) = Uncached(entry)
<1>1. IsEntry(entry)
  BY DEF EntryFits
<1>2. /\ IsEntry(other) /\ other.noCache = TRUE
      /\ \A field \in Fields \ {"noCache"} : other[field] = entry[field]
  BY <1>1 DEF IsEntry, Fields
<1>3. /\ other.toi = entry.toi /\ other.contentLength = entry.contentLength
      /\ other.transferLength = entry.transferLength /\ other.maxBlock = entry.maxBlock
      /\ other.symbolLength = entry.symbolLength
  BY <1>2 DEF Fields
<1>4. EntryFits(other)
  BY <1>2, <1>3 DEF EntryFits
<1>5. Expected(other) = Uncached(other)
  BY <1>2 DEF Expected
<1>6. Uncached(other) = Uncached(entry)
  <2>1. /\ IsEntry(Uncached(other)) /\ IsEntry(Uncached(entry))
        /\ Uncached(other).noCache = TRUE /\ Uncached(entry).noCache = TRUE
        /\ Uncached(other).cacheExpires = None /\ Uncached(entry).cacheExpires = None
        /\ Uncached(other).expires = 0 /\ Uncached(entry).expires = 0
        /\ \A field \in Fields \ {"noCache", "cacheExpires", "expires"} :
             Uncached(other)[field] = other[field] /\ Uncached(entry)[field] = entry[field]
    BY <1>1, <1>2, UncachedIs
  <2>2. \A field \in Fields \ {"noCache", "cacheExpires", "expires"} :
          Uncached(other)[field] = Uncached(entry)[field]
    BY <1>2, <2>1
  <2>3. \A field \in Fields : \/ field \in {"noCache", "cacheExpires", "expires"}
                              \/ field \in Fields \ {"noCache", "cacheExpires", "expires"}
    OBVIOUS
  <2>4. \A field \in {"noCache", "cacheExpires", "expires"} :
          Uncached(other)[field] = Uncached(entry)[field]
    BY <2>1
  <2>5. \A field \in Fields : Uncached(other)[field] = Uncached(entry)[field]
    <3> HIDE DEF Fields
    <3> QED
      BY <2>2, <2>3, <2>4
  <2> QED
    BY <2>1, <2>5, SameEntry
<1> QED
  BY <1>4, <1>5, <1>6

\* The table of two files.
LEMMA TableWithFits ==
  ASSUME WireInv, NEW h \in Handle, NEW t \in Transmitters, NEW table,
         table = TableWith(EntryFor(descs[h], t), t)
  PROVE  /\ TableFits(table) /\ DOMAIN table = 1..2 /\ table = [i \in 1..2 |-> table[i]]
         /\ \A i \in 1..2 : EntryFits(table[i]) /\ table[i].noCache = FALSE
         /\ FecFits(FecOfTransmitter[t])
<1> DEFINE entry == EntryFor(descs[h], t)
           other == [entry EXCEPT !.toi = @ + 1, !.symbolLength = FecOfTransmitter[t].symbolLength]
<1>1. /\ EntryFits(entry) /\ entry.toi <= ToiBound + 1 /\ entry.noCache = FALSE
  BY EntryForFits
<1>2. table = <<entry, other>>
  BY DEF TableWith
<1>3. /\ HalfWord \in Nat /\ Word \in Nat /\ HalfWord < Word
      /\ ToiBound + 1 < HalfWord /\ ToiBound \in Nat
      /\ FecOfTransmitter[t] \in [symbolLength : Nat \ {0}, maxBlock : Nat \ {0}]
      /\ FecOfTransmitter[t].symbolLength < HalfWord /\ FecOfTransmitter[t].maxBlock < Word
  BY HalfWordIs, WireAssumption, DescriptionAssumption
<1>4. FecOfTransmitter[t].symbolLength \in 1..(Word - 1)
  BY <1>3
<1>5. EntryFits(other) /\ other.noCache = FALSE
  <2>1. entry.toi \in 0..(Word - 1)
    BY <1>1 DEF EntryFits
  <2> HIDE DEF entry
  <2>2. entry.toi + 1 < Word
    BY <1>1, <1>3, <2>1
  <2> QED
    BY <1>1, <1>4, <2>2, OtherFits
<1>6. FecFits(FecOfTransmitter[t])
  BY <1>3 DEF FecFits
<1> HIDE DEF entry, other
<1>7. /\ DOMAIN table = 1..2 /\ table = [i \in 1..2 |-> table[i]]
      /\ \A i \in 1..2 : EntryFits(table[i]) /\ table[i].noCache = FALSE
  BY <1>1, <1>2, <1>5
<1>8. TableFits(table)
  BY <1>7 DEF TableFits
<1> QED
  BY <1>6, <1>7, <1>8

LEMMA EntriesSurvive ==
  ASSUME WireInv
  PROVE  EntrySurvives
<1> SUFFICES ASSUME NEW h \in Handle, NEW t \in Transmitters, NEW namespace \in FdtNamespaces
             PROVE  LET table    == TableWith(EntryFor(descs[h], t), t)
                        uncached == [i \in 1..2 |-> [table[i] EXCEPT !.noCache = TRUE]]
                        document == DocumentOf(table, namespace, t)
                    IN /\ ~Refused(document)
                       /\ FromDocument(document) =
                            [namespace |-> namespace, expires |-> 7,
                             global |-> FecOfTransmitter[t], entries |-> table]
                       /\ FromDocument(DocumentOf(uncached, namespace, t)).entries
                            = [i \in 1..2 |-> Uncached(table[i])]
  BY DEF EntrySurvives
<1> DEFINE global == FecOfTransmitter[t]
           table == TableWith(EntryFor(descs[h], t), t)
           uncached == [i \in 1..2 |-> [table[i] EXCEPT !.noCache = TRUE]]
<1>1. /\ TableFits(table) /\ DOMAIN table = 1..2 /\ table = [i \in 1..2 |-> table[i]]
      /\ \A i \in 1..2 : EntryFits(table[i]) /\ table[i].noCache = FALSE
      /\ FecFits(global)
  BY TableWithFits
<1>2. /\ TableFits(uncached) /\ DOMAIN uncached = 1..2
      /\ \A i \in 1..2 : Expected(uncached[i]) = Uncached(table[i])
  <2>1. /\ DOMAIN uncached = 1..2
        /\ \A i \in 1..2 : EntryFits(uncached[i]) /\ Expected(uncached[i]) = Uncached(table[i])
    BY <1>1, UncachedFits
  <2> HIDE DEF uncached
  <2>2. TableFits(uncached)
    BY <2>1 DEF TableFits
  <2> QED
    BY <2>1, <2>2
<1> HIDE DEF table, uncached, global
<1>3. None \notin FdtNamespaces
  BY WireAssumption
<1>4. ASSUME NEW entries, TableFits(entries)
      PROVE  /\ ~Refused(DocumentOf(entries, namespace, t))
             /\ FromDocument(DocumentOf(entries, namespace, t))
                  = AsRead(entries, namespace, global)
  <2> DEFINE root == ToDocument(entries, namespace, 7, global)
             scope == InScope(root, NoScope)
  <2>1. IsInstance(root, scope, entries, namespace, global, Empty)
    BY <1>3, WrittenPlain
  <2>2. DocumentOf(entries, namespace, t) = root
    BY DEF DocumentOf, global
  <2> HIDE DEF root, scope
  <2> QED
    BY <1>1, <1>3, <1>4, <2>1, <2>2, DocumentIsRead
<1>5. [i \in 1..2 |-> Expected(table[i])] = table
  <2>1. \A i \in 1..2 : Expected(table[i]) = table[i]
    BY <1>1 DEF Expected
  <2> QED
    BY <1>1, <2>1
<1>6. /\ ~Refused(DocumentOf(table, namespace, t))
      /\ FromDocument(DocumentOf(table, namespace, t)) =
           [namespace |-> namespace, expires |-> 7, global |-> global, entries |-> table]
  BY <1>1, <1>4, <1>5 DEF AsRead
<1>7. FromDocument(DocumentOf(uncached, namespace, t)).entries = [i \in 1..2 |-> Uncached(table[i])]
  <2>1. FromDocument(DocumentOf(uncached, namespace, t)) = AsRead(uncached, namespace, global)
    BY <1>2, <1>4
  <2>2. [i \in DOMAIN uncached |-> Expected(uncached[i])] = [i \in 1..2 |-> Uncached(table[i])]
    BY <1>2
  <2> QED
    BY <2>1, <2>2 DEF AsRead
<1> QED
  BY <1>6, <1>7 DEF table, uncached, global

LEMMA PrefixesAreIgnored ==
  ASSUME WireInv
  PROVE  ReaderIgnoresPrefixes
<1> SUFFICES ASSUME NEW h \in Handle, NEW t \in Transmitters,
                    NEW namespace \in FdtNamespaces \ {Empty}, NEW attributesToo \in BOOLEAN
             PROVE  LET document == DocumentOf(TableWith(EntryFor(descs[h], t), t), namespace, t)
                    IN /\ ~Refused(Prefixed(document, attributesToo))
                       /\ FromDocument(Prefixed(document, attributesToo)) = FromDocument(document)
  BY DEF ReaderIgnoresPrefixes
<1> DEFINE global == FecOfTransmitter[t]
           table == TableWith(EntryFor(descs[h], t), t)
           root == ToDocument(table, namespace, 7, global)
           same == Prefixed(root, attributesToo)
<1>1. TableFits(table) /\ FecFits(global)
  BY TableWithFits
<1>2. DocumentOf(table, namespace, t) = root
  BY DEF DocumentOf
<1> HIDE DEF table, global
<1>3. None \notin FdtNamespaces /\ namespace \in FdtNamespaces
  BY WireAssumption
<1>4. IsInstance(root, InScope(root, NoScope), table, namespace, global, Empty)
  BY <1>3, WrittenPlain
<1>5. IsInstance(same, InScope(same, NoScope), table, namespace, global, "fdt")
  BY WrittenPrefixed
<1> HIDE DEF root, same
<1>6. FromDocument(root) = AsRead(table, namespace, global)
  BY <1>1, <1>3, <1>4, DocumentIsRead
<1>7. ~Refused(same) /\ FromDocument(same) = AsRead(table, namespace, global)
  BY <1>1, <1>3, <1>5, DocumentIsRead
<1> QED
  BY <1>2, <1>6, <1>7 DEF root, same, table, global

LEMMA HeadersSurvive ==
  ASSUME WireInv
  PROVE  HeaderSurvives
<1> SUFFICES ASSUME NEW h \in Handle, NEW t \in Transmitters,
                    NEW instance \in {1, HalfWord - 1, HalfWord},
                    NEW length \in {1, HalfWord - 1},
                    NEW entry, entry = EntryFor(descs[h], t),
                    NEW fec, fec = [transferLength |-> length, symbolLength |-> entry.symbolLength,
                                    maxBlock |-> entry.maxBlock],
                    NEW toi \in {0, entry.toi}
             PROVE  HeaderIsRead(TsiOf[t], toi, fec, instance)
  BY DEF HeaderSurvives
<1>1. /\ EntryFits(entry)
      /\ entry.toi <= ToiBound + 1 /\ entry.symbolLength < HalfWord
  BY EntryForFits
<1>2. /\ entry.toi \in 0..(Word - 1) /\ entry.symbolLength \in 0..(Word - 1)
      /\ entry.maxBlock \in 0..(Word - 1)
  BY <1>1 DEF EntryFits
<1>3. /\ ToiBound + 1 < HalfWord /\ ToiBound \in Nat /\ Word = Whole
      /\ TsiOf[t] \in 0..(HalfWord - 1)
  BY WireAssumption, DescriptionAssumption
<1>4. /\ HalfWord \in Nat /\ HalfWord > 1 /\ Whole \in Nat
      /\ InstanceModulus \in Nat /\ HalfWord < InstanceModulus
  BY HalfWordIs
<1>5. /\ toi \in 0..(HalfWord - 1) /\ length \in 0..(HalfWord - 1)
      /\ instance \in 0..(InstanceModulus - 1)
      /\ entry.symbolLength \in 0..(HalfWord - 1) /\ entry.maxBlock \in 0..(Whole - 1)
  BY <1>1, <1>2, <1>3, <1>4
<1>6. HeaderFits(TsiOf[t], toi, fec, instance)
  BY <1>3, <1>5 DEF HeaderFits
<1> QED
  BY <1>6, HeadersAreRead

LEMMA BlocksPartition ==
  ASSUME WireInv
  PROVE  BlocksArePartition
<1> SUFFICES ASSUME NEW h \in Handle, NEW t \in Transmitters,
                    NEW length \in 0..EntryFor(descs[h], t).transferLength
             PROVE  CreatedSymbols(length) = DividedSymbols(length)
  BY DEF BlocksArePartition
<1> QED
  BY CreatedSymbolsAreDivided


\* What receivers read of the entries they are sent is what the sender's table has, for any
\* descriptions, namespaces and parameters, as to_string and the constructor that parses
\* see to.
THEOREM EntriesAreRead == DescriptionSpec => []EntrySurvives
<1>1. WireInv => EntrySurvives
  BY EntriesSurvive
<1> QED
  BY <1>1, WireInvariant, PTL

\* And what they read of the documents of senders that write prefixes is the same, as
\* XMLNamespaces and findAttribute see to.
THEOREM PrefixesDoNotMatter == DescriptionSpec => []ReaderIgnoresPrefixes
<1>1. WireInv => ReaderIgnoresPrefixes
  BY PrefixesAreIgnored
<1> QED
  BY <1>1, WireInvariant, PTL

\* What packet headers say of what is sent is what receivers read, in each of the forms
\* that AlcPacket's constructor reads.
THEOREM HeadersSayWhatIsSent == DescriptionSpec => []HeaderSurvives
<1>1. WireInv => HeaderSurvives
  BY HeadersSurvive
<1> QED
  BY <1>1, WireInvariant, PTL

\* The source blocks that create_blocks makes of what is sent are those that numbers on the
\* wire name.
THEOREM BlocksAreOfPartition == DescriptionSpec => []BlocksArePartition
<1>1. WireInv => BlocksArePartition
  BY BlocksPartition
<1> QED
  BY <1>1, WireInvariant, PTL
================================================================================
