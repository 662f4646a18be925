--------------------------- MODULE MCFixturePatch ---------------------------
(***************************************************************************)
(* TLC instance of FixturePatch.                                           *)
(***************************************************************************)
EXTENDS FixturePatch, TLC

\* A moving head with two channels and a par with one.
TwoChannels == 1 :> [kind |-> "red", default |-> 1] @@ 2 :> [kind |-> "red", default |-> 0]
OneChannel == 1 :> [kind |-> "red", default |-> 0]

\* A rig in use: both fixtures patched side by side, then grouped and captured.
Rig ==
  1 :> [template |-> Mira, universe |-> 1, start |-> 1, count |-> 2, order |-> 1,
        enabled |-> TRUE, values |-> <<1, 0>>] @@
  2 :> [template |-> Par, universe |-> 1, start |-> 3, count |-> 1, order |-> 2,
        enabled |-> TRUE, values |-> <<0>>]

InUse ==
  /\ fixtures = Rig
  /\ groups \in [Groups -> {DOMAIN Rig}]
  /\ scenes \in [Scenes -> {<<1, 1>> :> 1 @@ <<1, 2>> :> 0 @@ <<2, 1>> :> 0}]
  /\ templates = [t \in {Mira, Par} |->
       LET channels == IF t = Mira THEN MiraChannels ELSE ParChannels
       IN  [footprint |-> FootprintOf(channels), channels |-> channels]]
  /\ up = TRUE
  /\ pc = [r \in Requesters |-> "idle"]
  /\ work = [r \in Requesters |-> NoWork]
  /\ created = 2 /\ births = 2 /\ spent = 0
  /\ born = 1 :> 1 @@ 2 :> 2
  /\ tolerated = {} /\ torn = {}

RigSpec == (Init \/ InUse) /\ [][Next]_vars
=============================================================================
