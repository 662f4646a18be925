--------------------------- MODULE MCDmxTransport ---------------------------
(***************************************************************************)
(* TLC instances of DmxTransport.                                          *)
(***************************************************************************)
EXTENDS DmxTransport, TLC

SerialSymmetry == Permutations(Serials)

\* Two interfaces plugged, automatic selection.
BothPlugged == \A p \in Ports : plugged[p] # NoId

AutoInit == Init /\ BothPlugged /\ config.preferred = NoId /\ config.strict

AutoSpec == AutoInit /\ [][Next]_vars

AutoFairSpec == AutoSpec /\ Fairness
=============================================================================
