------------------------------ MODULE MCDescription ----------------------------
(***************************************************************************)
(* Descriptions for TLC.                                                   *)
(***************************************************************************)
EXTENDS FileDescription, TLC

CONSTANTS c1, c2, c3, t1, t2

\* Two contents of one size.
SizeOf == [c \in Contents \cup {None} |-> CASE c = None -> 0 [] c = c3 -> 3 [] OTHER -> 10]
TransferSizeOf ==
  [encoding \in Encodings |->
     [c \in Contents \cup {None} |-> IF encoding = NoEncoding THEN SizeOf[c] ELSE 5 + SizeOf[c] \div 2]]
FecOfEach == [t \in Transmitters |-> [symbolLength |-> IF t = t1 THEN 4 ELSE 3, maxBlock |-> 2]]

FecOfAll == [t \in Transmitters |-> [symbolLength |-> 4, maxBlock |-> 2]]

PlainDetails == [location |-> "a", type |-> "", etag |-> "", expires |-> None]
FullDetails  == [location |-> "b", type |-> "text", etag |-> "e", expires |-> 9]
BothDetails  == {PlainDetails, FullDetails}
OneDetails   == {PlainDetails}

\* Handles, areas and, if they are of one size, contents are interchangeable.
Alike == Permutations(Handle) \cup Permutations(Buffer) \cup Permutations(Contents)

\* And so are transmitters of the same parameters.
AllAlike == Alike \cup Permutations(Transmitters)
================================================================================
