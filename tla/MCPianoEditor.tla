---------------------------- MODULE MCPianoEditor ----------------------------
(* A ledger of eight positions, all a stored length can need to cross a byte: bars of
   1/4 and 1/8. *)
EXTENDS PianoEditor

MCBars       == {1, 2}
MCBarLengths == {4, 8}
MCPitches    == {60}
MCTransposed == {0, 24}
MCInputs     == {{}, {55, 60, 64, 110}}
MCChords     == {{0, 4, 7, 10, 11}}

Blank == [ledger |-> [p \in Positions |-> {}], length |-> [p \in Positions |-> 1],
          lane |-> [p \in Positions |-> [k \in Lanes |-> 0]], explicit |-> {},
          skip |-> FALSE, mask |-> {}, type |-> "Empty"]

(* Two events, the first with outputs of its own, lowest note at output C. *)
Laned == Summarized([Blank EXCEPT
           !.ledger[0] = {60, 64}, !.length[0] = 4, !.explicit = {0},
           !.lane[0] = [k \in Lanes |-> IF k = 0 THEN 2 ELSE 0],
           !.ledger[6] = {60}])

MCBarsAtStart == {Laned, Blank}
=============================================================================
