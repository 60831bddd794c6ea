----------------------------- MODULE MCTransmitter -----------------------------
(***************************************************************************)
(* Instances of Transmitter for TLC, and the conditions under which the    *)
(* runs other than the unrestricted one look at it.  A condition on steps  *)
(* strengthens Next, one on states holds of every state of the behaviour.  *)
(***************************************************************************)
EXTENDS Transmitter

CONSTANTS c1, c2, m1, m2, d1, d2

\* With an MTU of 128 a payload is 64 bytes, 36 in a tunnel.
OneOrTwoSymbols == [c \in Data |-> IF c = c1 THEN 64 ELSE 100]

DefaultSymbolLength == [d \in Desc |-> 0]
\* Two symbols of 32 bytes fill a payload of 64.
HalfSymbolLength == [d \in Desc |-> IF d = d1 THEN 0 ELSE 32]

-----------------------------------------------------------------------------
\* A transmitter that stays active, with no tunnel and no rate limit.
InitSteady == Init /\ active /\ ~rateLimited /\ ~tunnelled
StaysSteady == active' /\ ~rateLimited' /\ ~tunnelled'

-----------------------------------------------------------------------------
\* The application activates again only when the handlers that deactivation left
\* queued have run.
DrainedActivation == ~active /\ active' => ready = 0

PacedSpec == (Init /\ ~tunnelled) /\ [][Next /\ DrainedActivation /\ ~tunnelled']_vars

-----------------------------------------------------------------------------
\* The socket takes every packet.
ErrorFreeNext == ApplicationCalls \/ Handlers

\* An active transmitter without a rate limit, in a tunnel or not.
InitUnlimited == Init /\ active /\ ~rateLimited
StaysUnlimited == active' /\ ~rateLimited'

\* The tunnel stays as the constructor found it.
FixedTunnelSpec ==
  InitUnlimited /\ [][ErrorFreeNext /\ StaysUnlimited /\ tunnelled' = tunnelled]_vars

-----------------------------------------------------------------------------
\* No FDT is queued while a packet of an FDT is in flight.  (Kept with one packet in
\* flight at most: a file's completion could not be held back.)
FdtInFlight == \E k \in DOMAIN inflight : objs[inflight[k].file].toi = 0

NoStaleFdt == FdtInFlight => files'[0] \in {files[0], None}

AnnouncedSpec == InitSteady /\ [][ErrorFreeNext /\ StaysSteady /\ NoStaleFdt]_vars

UnannouncedSpec == InitSteady /\ [][ErrorFreeNext /\ StaysSteady]_vars
================================================================================
