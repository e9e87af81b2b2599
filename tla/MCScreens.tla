------------------------------ MODULE MCScreens ------------------------------
(***************************************************************************)
(* The screens on one display.  The router has one of them active at a     *)
(* time, and entering another draws everything anew: PianoScreen,          *)
(* GridScreen and MenuScreens each have the leaving of their screens and   *)
(* the coming back to them, and share no cache.  So a behaviour follows    *)
(* the screens of one module, and which one is chosen at the start.        *)
(*                                                                         *)
(* The bar editor has three rows of five pitches with an octave of two, so *)
(* that a shift can be a whole octave, or less at either end.  The grid    *)
(* has two patterns of two bars, with notes in different bars.             *)
(***************************************************************************)
EXTENDS PianoScreen, GridScreen, MenuScreens

MCBars       == {1}
MCBarLengths == {4}
MCInputs     == {{}, {59, 60}}
MCChords     == {}

Blank == [ledger |-> [p \in Positions |-> {}], length |-> [p \in Positions |-> 1],
          lane |-> [p \in Positions |-> [k \in Lanes |-> 0]], explicit |-> {},
          skip |-> FALSE, mask |-> {}, type |-> "Empty"]

(* An event of two notes over two columns, and one of a single note. *)
Filled == Summarized([Blank EXCEPT
            !.ledger[0] = {60, 62}, !.length[0] = 2, !.ledger[2] = {59}, !.length[2] = 2])

MCBarsAtStart == {Filled}
MCUnderDialog == {1}

MCSongs == {{<<1, 2>>, <<2, 1>>}}

VARIABLE active      (* whose screens are on the display                       *)

ScreensInit ==
  /\ active \in {"editor", "grid", "menus"}
  /\ Init /\ GridInit /\ MenuInit
  /\ active # "editor" => division = 8    \* the grid of bars nobody edits

ScreensNext ==
  /\ \/ active = "editor" /\ Next /\ UNCHANGED <<gridVars, menuVars>>
     \/ active = "grid" /\ GridNext /\ UNCHANGED <<vars, menuVars>>
     \/ active = "menus" /\ MenuNext /\ UNCHANGED <<vars, gridVars>>
  /\ UNCHANGED active

ScreensSpec == ScreensInit /\ [][ScreensNext]_<<vars, gridVars, menuVars, active>>

=============================================================================
