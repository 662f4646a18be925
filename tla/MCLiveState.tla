---------------------------- MODULE MCLiveState ----------------------------
(***************************************************************************)
(* TLC instances of LiveState: two fixtures of one channel each, on        *)
(* universes of their own; or one fixture of two channels.                 *)
(***************************************************************************)
EXTENDS LiveState, TLC

CONSTANTS spot, wash

OnePerFixture == 1 :> spot @@ 2 :> wash
BothOnSpot == 1 :> spot @@ 2 :> spot
TwoUniverses == 1 :> 1 @@ 2 :> 2
OneUniverse == 1 :> 1 @@ 2 :> 1

ThreadSymmetry == Permutations(Requesters) \cup Permutations(Fades)

\* Everything enabled and full on.
Full == [c \in Channels |-> MaxValue]
AllEnabled == \A f \in Fixtures : enabled[f]

LitInit == Init /\ AllEnabled /\ stored = Full /\ \A s \in Scenes : scenes[s] = Full
LitSpec == LitInit /\ [][Next]_vars

\* Any values, the first fixture enabled, and every scene full on.
AnyInit == Init /\ enabled[spot] /\ \A s \in Scenes : scenes[s] = Full
AnySpec == AnyInit /\ [][Next]_vars
LitFairSpec == LitSpec /\ Fairness
=============================================================================
