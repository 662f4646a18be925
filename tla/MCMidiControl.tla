--------------------------- MODULE MCMidiControl ----------------------------
(***************************************************************************)
(* TLC instance of MidiControl.                                            *)
(***************************************************************************)
EXTENDS MidiControl, TLC

Symmetry ==
  Permutations(Controls) \cup Permutations(Inputs) \cup Permutations(Requesters)
=============================================================================
