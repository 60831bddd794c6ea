------------------------------- MODULE FdtDocument -----------------------------
(***************************************************************************)
(* The FDT as an XML document: what to_string writes, and what the         *)
(* receiver's constructor reads, from this sender or another.  A document  *)
(* is its root element.  A name is a prefix, "" if there is none, and a    *)
(* local part.  Numbers are written in decimal digits, which is exact; the *)
(* reader keeps them in unsigned integers of a limited width.  Formatting, *)
(* escapes and the tokens of XML are tinyxml2's and not modelled.          *)
(***************************************************************************)
EXTENDS Integers, Sequences, SequencesExt

CONSTANTS
  None,   \* no value
  Word    \* 2^32: the modulus of a uint32_t

ASSUME WordAssumption == Word \in Nat \ {0}

\* The empty string: no prefix, no namespace, nothing given.
Empty == ""

Plain(local) == <<Empty, local>>

NoPrefixes == [prefix \in {} |-> Empty]

(***************************************************************************)
(* An element: its name, the namespace its "xmlns" attribute gives or      *)
(* None, those its "xmlns:p" attributes bind to prefixes, its other        *)
(* attributes, each a name and a value, and its child elements or its      *)
(* text.                                                                   *)
(***************************************************************************)
Element(name, attributes, children) ==
  [name |-> name, xmlns |-> None, bound |-> NoPrefixes, attributes |-> attributes,
   children |-> children, text |-> None]

\* The namespaces the reader takes, as it names them; "" is FDT_NS_NONE.
FdtNamespaces == {Empty, "RFC3926", "DRAFT_2005", "3GPP_CONSOLIDATED_V2"}

Mbms == [mbms2007 |-> "MBMS 2007", mbms2012 |-> "MBMS 2012"]

-----------------------------------------------------------------------------
(* to_string *)

\* An attribute that is written only if there is something to say.
OnlyIf(said, name, value) == IF said THEN {<<name, value>>} ELSE {}

CacheControl(entry) ==
  IF ~entry.noCache /\ entry.cacheExpires = None THEN <<>>
  ELSE <<Element(<<"mbms2007", "Cache-Control">>, {},
           <<IF entry.noCache THEN Element(<<"mbms2007", "no-cache">>, {}, <<>>)
             ELSE [Element(<<"mbms2007", "Expires">>, {}, <<>>) EXCEPT !.text = entry.expires]>>)>>

\* (Mutant: the FEC parameters of files are left to the FDT's.)
FileElementWithoutFec(entry, global) ==
  Element(Plain("File"),
    {<<Plain("TOI"), entry.toi>>, <<Plain("Content-Location"), entry.location>>,
     <<Plain("Content-Length"), entry.contentLength>>}
    \cup OnlyIf(entry.transferLength # 0, Plain("Transfer-Length"), entry.transferLength)
    \cup OnlyIf(entry.md5 # None, Plain("Content-MD5"), entry.md5)
    \cup OnlyIf(entry.encoding # Empty, Plain("Content-Encoding"), entry.encoding)
    \cup OnlyIf(entry.type # Empty, Plain("Content-Type"), entry.type)
    \cup OnlyIf(entry.etag # Empty, <<"mbms2012", "File-ETag">>, entry.etag),
    CacheControl(entry))

\* FEC parameters are written when they are neither 0 nor the FDT's.
FileElement(entry, global) ==
  Element(Plain("File"),
    {<<Plain("TOI"), entry.toi>>, <<Plain("Content-Location"), entry.location>>,
     <<Plain("Content-Length"), entry.contentLength>>}
    \cup OnlyIf(entry.transferLength # 0, Plain("Transfer-Length"), entry.transferLength)
    \cup OnlyIf(entry.md5 # None, Plain("Content-MD5"), entry.md5)
    \cup OnlyIf(entry.encoding # Empty, Plain("Content-Encoding"), entry.encoding)
    \cup OnlyIf(entry.type # Empty, Plain("Content-Type"), entry.type)
    \cup OnlyIf(entry.maxBlock \notin {0, global.maxBlock},
                 Plain("FEC-OTI-Maximum-Source-Block-Length"), entry.maxBlock)
    \cup OnlyIf(entry.symbolLength \notin {0, global.symbolLength},
                 Plain("FEC-OTI-Encoding-Symbol-Length"), entry.symbolLength)
    \cup OnlyIf(entry.etag # Empty, <<"mbms2012", "File-ETag">>, entry.etag),
    CacheControl(entry))

\* A table with its namespace, expiry time and FEC parameters.  Compact No-Code FEC, the
\* one scheme there is, has id 0 and no instance.
ToDocument(entries, namespace, expires, global) ==
  [Element(Plain("FDT-Instance"),
     {<<Plain("Expires"), expires>>, <<Plain("FEC-OTI-FEC-Encoding-ID"), 0>>,
      <<Plain("FEC-OTI-Maximum-Source-Block-Length"), global.maxBlock>>,
      <<Plain("FEC-OTI-Encoding-Symbol-Length"), global.symbolLength>>},
     [i \in DOMAIN entries |-> FileElement(entries[i], global)])
   EXCEPT !.xmlns = IF namespace = Empty THEN None ELSE namespace,
          !.bound = Mbms]

-----------------------------------------------------------------------------
(* XMLNamespaces *)

NoScope == [default |-> Empty, bound |-> NoPrefixes]

\* Bindings with others added: of a prefix bound before, the old one is kept.
WithBound(old, new) ==
  [prefix \in DOMAIN old \cup DOMAIN new |->
     IF prefix \in DOMAIN old THEN old[prefix] ELSE new[prefix]]

\* The namespaces in scope within an element.
InScope(element, scope) ==
  [default |-> IF element.xmlns = None THEN scope.default ELSE element.xmlns,
   bound   |-> WithBound(scope.bound, element.bound)]

\* The namespace of a name; a prefix that is not bound stands for itself.
NamespaceOf(scope, prefix) ==
  IF prefix = Empty THEN scope.default
  ELSE IF prefix \in DOMAIN scope.bound THEN scope.bound[prefix] ELSE prefix

Matches(scope, name, local, namespace) ==
  name[2] = local /\ NamespaceOf(scope, name[1]) = namespace

\* An element's namespace, where a prefix must be bound.
ElementNamespace(scope, element) ==
  LET prefix == element.name[1]
  IN IF prefix # Empty /\ prefix \notin DOMAIN scope.bound THEN "<Unknown>"
     ELSE NamespaceOf(scope, prefix)

\* (Mutant: an attribute without a prefix is of the default namespace.)
AttributesInDefault(scope, element, local, namespace) ==
  {a \in element.attributes : Matches(scope, a[1], local, namespace)}

\* The attributes that findAttribute may find.  One without a prefix is of its element's
\* namespace.
Attributes(scope, element, local, namespace) ==
  LET own == [scope EXCEPT !.default = ElementNamespace(scope, element)]
  IN {a \in element.attributes : Matches(own, a[1], local, namespace)}

\* The value of one, or what stands for it when there is none.
Attribute(scope, element, local, namespace, default) ==
  LET found == Attributes(scope, element, local, namespace)
  IN IF found = {} THEN default ELSE (CHOOSE a \in found : TRUE)[2]

\* The children of a name, each looked at in its own scope.
Children(scope, element, local, namespace) ==
  LET With(found, child) ==
        IF Matches(InScope(child, scope), child.name, local, namespace)
        THEN Append(found, child) ELSE found
  IN FoldLeft(With, <<>>, element.children)

-----------------------------------------------------------------------------
(* The constructor that parses *)

\* FEC parameters: those of the element, or the ones that hold without them.
FecOf(scope, element, namespace, default) ==
  [maxBlock     |-> Attribute(scope, element, "FEC-OTI-Maximum-Source-Block-Length", namespace,
                              default.maxBlock) % Word,
   symbolLength |-> Attribute(scope, element, "FEC-OTI-Encoding-Symbol-Length", namespace,
                              default.symbolLength) % Word]

CacheExpires(scope, caching) ==
  LET times == Children(scope, caching, "Expires", Mbms.mbms2007)
  IN IF times = <<>> THEN None ELSE times[1].text

\* The entry of a File element.
EntryOf(file, parentScope, namespace, global) ==
  LET scope     == InScope(file, parentScope)
      length    == Attribute(scope, file, "Content-Length", namespace, 0) % Word
      fec       == FecOf(scope, file, namespace, global)
      caching   == Children(scope, file, "Cache-Control", Mbms.mbms2007)
      cc        == InScope(caching[1], scope)
      expires   == IF caching = <<>> THEN None ELSE CacheExpires(cc, caching[1])
  IN [toi            |-> Attribute(scope, file, "TOI", namespace, None) % Word,
      location       |-> Attribute(scope, file, "Content-Location", namespace, None),
      contentLength  |-> length,
      transferLength |-> Attribute(scope, file, "Transfer-Length", namespace, length) % Word,
      md5            |-> Attribute(scope, file, "Content-MD5", namespace, None),
      encoding       |-> Attribute(scope, file, "Content-Encoding", namespace, Empty),
      type           |-> Attribute(scope, file, "Content-Type", namespace, Empty),
      maxBlock       |-> fec.maxBlock,
      symbolLength   |-> fec.symbolLength,
      etag           |-> Attribute(scope, file, "File-ETag", Mbms.mbms2012, Empty),
      noCache        |-> /\ caching # <<>>
                         /\ Children(cc, caching[1], "no-cache", Mbms.mbms2007) # <<>>,
      cacheExpires   |-> expires,
      expires        |-> IF expires = None THEN 0 ELSE expires]

\* What is thrown at: a root that is not an FDT-Instance of a known namespace, a File
\* without TOI or Content-Location.  (Documents have a root element and an Expires
\* attribute: without them the code reads through a null pointer.)
Refused(root) ==
  LET scope     == InScope(root, NoScope)
      namespace == ElementNamespace(scope, root)
  IN \/ ~Matches(scope, root.name, "FDT-Instance", namespace)
     \/ namespace \notin FdtNamespaces
     \/ \E i \in DOMAIN Children(scope, root, "File", namespace) :
          LET file == Children(scope, root, "File", namespace)[i]
          IN \E local \in {"TOI", "Content-Location"} :
               Attributes(InScope(file, scope), file, local, namespace) = {}

FromDocument(root) ==
  LET scope     == InScope(root, NoScope)
      namespace == ElementNamespace(scope, root)
      global    == FecOf(scope, root, namespace, [maxBlock |-> 0, symbolLength |-> 0])
      files     == Children(scope, root, "File", namespace)
  IN [namespace |-> namespace,
      expires   |-> Attribute(scope, root, "Expires", namespace, None),
      global    |-> global,
      entries   |-> [i \in DOMAIN files |-> EntryOf(files[i], scope, namespace, global)]]
================================================================================
