----------------------------- MODULE MCArpEngine ----------------------------
(***************************************************************************)
(* ArpEngine on chords of none to four notes, out of order, with a note    *)
(* twice, with one that is not a MIDI note, and with a fifth one.          *)
(***************************************************************************)
EXTENDS ArpEngine

MCChords == {<<>>, <<5>>, <<9, 2>>, <<4, 4>>, <<2, 9, 5>>, <<9, 200, 4>>,
             <<9, 5, 4, 2>>, <<4, 2, 5, 7, 9>>}
=============================================================================
