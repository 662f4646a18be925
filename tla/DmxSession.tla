----------------------------- MODULE DmxSession -----------------------------
(***************************************************************************)
(* What the DMX transport promises to the rest of TuxDMX, without its       *)
(* threads, mutexes, probes and handles: at any time there is at most one   *)
(* session, with one device at one endpoint.  A session begins only while   *)
(* the engine serves, keeps its device and endpoint until it ends, and is   *)
(* given up only after as many lost frames in a row as the write retry      *)
(* limit says; anything else that ends it is an explicit disconnect.  From  *)
(* the blackout of stop() on no session begins, and stop() leaves none.     *)
(*                                                                         *)
(* DmxTransport implements this specification (DmxTransport!Session).       *)
(***************************************************************************)
EXTENDS Integers

CONSTANTS
  Devices,    \* device ids a session may be with
  Endpoints,  \* endpoints a session may be at
  NoDevice, NoEndpoint,
  Limits      \* values of the write retry limit

VARIABLES
  phase,      \* life of the engine: before start(), until the blackout of
              \* stop(), until its disconnect(), and after
  limit,      \* write retry limit in force
  session,    \* device and endpoint being driven
  lost        \* frames lost since the last delivered one

vars == <<phase, limit, session, lost>>

Down == [device |-> NoDevice, endpoint |-> NoEndpoint]

Up == session # Down

Transmitting == phase \in {"serving", "stopping"} /\ Up

-----------------------------------------------------------------------------
Begin(from, to) == phase = from /\ phase' = to

Start ==
  /\ Begin("starting", "serving")
  /\ UNCHANGED <<limit, session, lost>>

Configure ==
  /\ limit' \in Limits
  /\ UNCHANGED <<phase, session, lost>>

Establish ==
  /\ phase = "serving"
  /\ ~Up
  /\ session' \in [device : Devices, endpoint : Endpoints]
  /\ lost' = 0
  /\ UNCHANGED <<phase, limit>>

Deliver ==
  /\ Transmitting
  /\ lost' = 0
  /\ UNCHANGED <<phase, limit, session>>

Lose ==
  /\ Transmitting
  /\ lost' = lost + 1
  /\ UNCHANGED <<phase, limit, session>>

\* The last of limit frames in a row is lost, and the session with it.
GiveUp ==
  /\ Transmitting
  /\ lost + 1 >= limit
  /\ session' = Down
  /\ lost' = 0
  /\ UNCHANGED <<phase, limit>>

\* forceReconnect() and a request that races stop().
Close ==
  /\ Up
  /\ session' = Down
  /\ lost' = 0
  /\ UNCHANGED <<phase, limit>>

\* The worker has ended: only the blackout frames of stop() are still sent.
\* They may end the session.
BlackOut ==
  /\ Begin("serving", "stopping")
  /\ UNCHANGED <<limit, session, lost>>

Stop ==
  /\ Begin("stopping", "stopped")
  /\ session' = Down
  /\ lost' = 0
  /\ UNCHANGED limit

Init ==
  /\ phase = "starting"
  /\ limit \in Limits
  /\ session = Down
  /\ lost = 0

Next ==
  \/ Start \/ Configure
  \/ Establish \/ Deliver \/ Lose \/ GiveUp \/ Close
  \/ BlackOut \/ Stop

Spec == Init /\ [][Next]_vars
=============================================================================
