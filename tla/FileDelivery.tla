------------------------------ MODULE FileDelivery -----------------------------
(***************************************************************************)
(* What a FLUTE session promises the application at the receiving end: it  *)
(* is handed files that the application at the sending end sent, contents  *)
(* and metadata together.  Nothing says that every file arrives, or that   *)
(* it arrives in order or once: the network is free to lose packets, and   *)
(* the sender to send a file again.                                        *)
(***************************************************************************)

CONSTANT Files

VARIABLES
  sent,       \* files the sending application has sent
  received    \* files the receiving application has been handed

vars == <<sent, received>>

Init == sent = {} /\ received = {}

Send(f) == sent' = sent \cup {f} /\ UNCHANGED received

HandOver(f) ==
  /\ f \in sent
  /\ received' = received \cup {f}
  /\ UNCHANGED sent

Next == \E f \in Files : Send(f) \/ HandOver(f)

Spec == Init /\ [][Next]_vars
================================================================================
