--------------------------- MODULE MCMidiDispatch ---------------------------
(***************************************************************************)
(* TLC instance of MidiDispatch.                                           *)
(***************************************************************************)
EXTENDS MidiDispatch

\* Control change 7 on channel 1, note 60 on channel 2 on and off.
NotesAndControls == {<<176, 7, 100>>, <<145, 60, 90>>, <<129, 60, 0>>}
=============================================================================
