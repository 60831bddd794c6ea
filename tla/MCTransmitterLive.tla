--------------------------- MODULE MCTransmitterLive ---------------------------
(***************************************************************************)
(* What must eventually happen, and the timing it rests on.  The FDT is    *)
(* repeated every 5 seconds, ahead of every file.  `quiet' records that,   *)
(* since the repeat timer last expired, the send loop has had a turn with  *)
(* no document of the FDT left to send; the timer expires only then.  That *)
(* is 5 seconds outlasting the sending of one document.                    *)
(***************************************************************************)
EXTENDS MCTransmitter

VARIABLES
  quiet,   \* the loop has had a turn of its own since the timer last expired
  lost     \* packets the socket refused

liveVars == <<vars, quiet, lost>>

\* No symbol of the queued FDT is still to be picked, or picked and not reported.
FdtDone ==
  files[0] = None \/ (Pending(objs[files[0]]) = {} /\ ~FdtInFlight)

LoopTurn ==
  /\ RunSendNextPacket
  /\ quiet' = (quiet \/ FdtDone)
  /\ UNCHANGED lost

FdtTimer ==
  /\ quiet
  /\ FdtTimerExpires
  /\ quiet' = FALSE
  /\ UNCHANGED lost

Succeeds == SendSucceeds /\ UNCHANGED <<quiet, lost>>
SendTimer == SendTimerExpires /\ UNCHANGED <<quiet, lost>>
Tick == FdtSendTick /\ UNCHANGED <<quiet, lost>>

\* The application sends and describes; it does not deactivate or touch the tunnel.
Calls ==
  /\ ApplicationCalls
  /\ active' /\ tunnelled' = tunnelled /\ rateLimited' = rateLimited
  /\ UNCHANGED <<quiet, lost>>

\* A packet of the FDT is refused, once in a behaviour.
FdtRefused ==
  /\ lost = 0
  /\ SendFails
  /\ objs[Head(inflight).file].toi = 0
  /\ lost' = 1
  /\ UNCHANGED quiet

\* The io_context goes on running handlers, its timers expire, its sends complete.
Fairness ==
  /\ WF_liveVars(LoopTurn)
  /\ WF_liveVars(SendTimer)
  /\ WF_liveVars(Succeeds)
  /\ WF_liveVars(FdtTimer)
  /\ WF_liveVars(Tick)

LiveInit == Init /\ active /\ ~tunnelled /\ quiet = FALSE /\ lost = 0

LiveNext == LoopTurn \/ FdtTimer \/ Succeeds \/ SendTimer \/ Tick \/ Calls

\* The socket may refuse a packet of the FDT, but none of a file, which would stay queued,
\* and with it every file behind it.
LiveSpec == LiveInit /\ [][LiveNext \/ FdtRefused]_liveVars /\ Fairness

\* Every file queued is transmitted, and its callback called, however often the FDT
\* is repeated ahead of it.
QueuedFileIsTransmitted ==
  \A toi \in 1..ToiMax : files[toi] # None ~> files[toi] = None
================================================================================
