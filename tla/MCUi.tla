--------------------------------- MODULE MCUi ---------------------------------
(* Two bars: keys 5 and 9, which the chord chooser and the grid treat apart. *)
EXTENDS Ui

MCBars  == {5, 9}
MCTypes == {"major", "minor"}
=============================================================================
