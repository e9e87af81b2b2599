---------------------------- MODULE MenuScreens -----------------------------
(***************************************************************************)
(* The five menus that draw only what changed: pattern timing, quantiser   *)
(* timing, the router of the quantiser, the arpeggio and the song chain.   *)
(* Each drawing function of ui_display.c compares what it is called with   *)
(* with what it was called with last, and all of them rely on              *)
(* MenuTemplate_Begin to forget that when another menu, the grid or the    *)
(* bar editor was drawn in between.  Over two of them the question whether *)
(* to leave is drawn, and over all of them the screensaver.                *)
(*                                                                         *)
(* A menu is entered with whatever values the device or the last visit     *)
(* left, so a value needs no life outside its menu.  The footers, the      *)
(* texts and the colours other than the selection's are left out.          *)
(***************************************************************************)
EXTENDS Integers, Sequences

CONSTANTS
  TimingRows,   (* rows of the two timing menus: 5                         *)
  RouterRows,   (* rows of the router: 8                                   *)
  SongRows,     (* slots of a page of the song chain: 4                    *)
  ChainSlots,   (* slots of the song chain: 32                             *)
  Values,       (* values of a row, and patterns of a slot                 *)
  Repeats       (* times a pattern of the song is repeated                 *)

NoCursor == 255

ASSUME MenuAssumption ==
  /\ {TimingRows, RouterRows, SongRows, ChainSlots, Repeats} \subseteq Nat \ {0}
  /\ TimingRows >= 3 /\ Values # {} /\ Values \subseteq Nat
  /\ {TimingRows, RouterRows, ChainSlots} \subseteq 1 .. NoCursor

VARIABLES
  menuUi,       (* ui_sequencer.c: screen, way back, cursor, question ...  *)
  draft,        (* the values of the menu as edited, by row                *)
  saved,        (* and as they are in the device, or as last saved         *)
  song,         (* the chain, and where in it the engine is                *)
  menuDisp,     (* what the display shows: the rows and the header         *)
  menuCache     (* what ui_display.c believes it drew                      *)

menuVars == <<menuUi, draft, saved, song, menuDisp, menuCache>>

Lists == {"timing", "quant", "router", "arp"}
Menus == Lists \cup {"song"}

MenuRows(m) == 0 .. (CASE m \in {"timing", "quant"} -> TimingRows - 1
                       [] m = "router" -> RouterRows - 1
                       [] m = "arp"    -> 1
                       [] m = "song"   -> SongRows - 1)

Contents(m) == IF m = "router" THEN {<<s, t>> : s, t \in Values} ELSE {<<v>> : v \in Values}

(* The timings SetPatternTiming refuses: no whole number of steps in a bar, which two
   or three of the values decide together. *)
Refused(d) == d[1] = d[2] /\ d[1] # <<CHOOSE v \in Values : \A w \in Values : v <= w>>

-----------------------------------------------------------------------------
(* What a row and the header are to show *)

BaseOf(cursor) == (cursor \div SongRows) * SongRows

(* UI_Sequencer_DrawSongChainMenu *)
PlayingSlot == IF song.playing THEN song.slot ELSE menuUi.cursor
RepeatIndex == IF song.playing THEN song.repeat ELSE 0

SlotRow(slot) ==
  IF slot < Len(song.chain)
  THEN [label |-> "song", value |-> <<slot, song.chain[slot + 1]>>,
        lit |-> slot = menuUi.cursor,
        mark |-> IF slot # PlayingSlot THEN "none"
                 ELSE IF menuUi.blink THEN "bright" ELSE "dim"]
  ELSE [label |-> "song", value |-> <<>>, lit |-> FALSE, mark |-> "none"]

ListRow(r) ==
  [label |-> menuUi.screen, value |-> draft[r], lit |-> r = menuUi.cursor,
   mark |-> IF menuUi.screen = "router" /\ r = menuUi.cursor THEN menuUi.field ELSE "none"]

MenuRow(r) == IF menuUi.screen = "song" THEN SlotRow(BaseOf(menuUi.cursor) + r) ELSE ListRow(r)

(* Rows and headers of no menu: under a box, under the screensaver, not drawn. *)
UnderBox(row) == [row EXCEPT !.label = "box", !.mark = "box"]
Black == [label |-> "black", value |-> <<>>, lit |-> FALSE, mark |-> "black"]
NoHeader(why) == [title |-> why, text |-> why, length |-> 0, repeat |-> 0]

MenuHeader ==
  IF menuUi.screen = "song"
  THEN [title |-> "song", text |-> "length", length |-> Len(song.chain),
        repeat |-> RepeatIndex]
  ELSE [title |-> menuUi.screen, length |-> 0, repeat |-> 0,
        text |-> IF menuUi.rejected THEN "INVALID"
                 ELSE IF draft # saved THEN "UNSAVED" ELSE "plain"]

-----------------------------------------------------------------------------
(* Drawing *)

(* The caches after a reset.  Those of the values, field, slot and page are compared only
   once cursor or base have been set. *)
Forgotten(frame) ==
  [frame |-> frame, header |-> NoHeader("none"), cursor |-> NoCursor, values |-> <<>>,
   field |-> "source", unsaved |-> FALSE,
   base |-> NoCursor, length |-> 0, slot |-> NoCursor, blink |-> FALSE, page |-> <<>>]

(* MenuTemplate_Begin.  The arpeggio has the frame of the timing menu. *)
BeginFrame(frame) == IF menuCache.frame = frame THEN menuCache ELSE Forgotten(frame)
FrameOf(m) == IF m = "arp" THEN "timing" ELSE m

(* MenuTemplate_DrawHeader *)
HeaderHasOtherTitle(c, h) == c.header.title # h.title   \* mutant
HeaderOutOfDate(c, h) == c.header # h

DrawnHeader(c, h) == IF HeaderOutOfDate(c, h) THEN h ELSE menuDisp.header

RowOfCursor(m, c) ==   \* mutant
  IF c.cursor # menuUi'.cursor \/ c.values # draft' THEN {menuUi'.cursor} ELSE {}

(* The rows a list redraws when it is called again.  The timing menus count on the value
   that changed being the one under the cursor. *)
RowsToDraw(m, c) ==
  LET moved   == c.cursor # menuUi'.cursor
      changed == {r \in MenuRows(m) : c.values[r] # draft'[r]}
  IN CASE m \in {"timing", "quant"} ->
            IF moved THEN {c.cursor, menuUi'.cursor}
            ELSE IF changed # {} THEN {menuUi'.cursor} ELSE {}
       [] m = "arp" -> IF moved \/ changed # {} THEN MenuRows(m) ELSE {}
       [] m = "router" ->
            changed \cup (IF moved THEN {c.cursor, menuUi'.cursor} ELSE {})
                    \cup (IF c.field # menuUi'.field THEN {menuUi'.cursor} ELSE {})

(* Over what is there: the router draws a row anew, the others its value and its sign. *)
Over(old, new) == IF new.label = "router" THEN new ELSE [new EXCEPT !.label = old.label]

(* UI_Display_DrawTimingMenu, ...DrawQuantiserTimingMenu, ...DrawQuanRouterMenu and
   ...DrawArpMenu: the first time everything.  The router asks for the header only when
   `unsaved' changed. *)
DrawList(m) ==
  LET c     == BeginFrame(FrameOf(m))
      first == c.cursor = NoCursor
      asks  == m # "router" \/ first \/ c.unsaved # (draft' # saved')
  IN /\ menuDisp' =
          [rows   |-> [r \in MenuRows(m) |->
                        IF first THEN MenuRow(r)'
                        ELSE IF r \in RowsToDraw(m, c) THEN Over(menuDisp.rows[r], MenuRow(r)')
                        ELSE menuDisp.rows[r]],
           header |-> IF asks THEN DrawnHeader(c, MenuHeader') ELSE menuDisp.header]
     /\ menuCache' = [c EXCEPT !.cursor = menuUi'.cursor, !.values = draft',
                               !.field = menuUi'.field, !.unsaved = draft' # saved',
                               !.header = IF asks THEN MenuHeader' ELSE @]

(* The rows of a page on which a slot is. *)
On(base, slot) == {r \in MenuRows("song") : base + r = slot}

(* The outline goes from the slot that played to the one that plays. *)
OutlineOfNewSlot(c, base) ==   \* mutant
  IF c.slot # PlayingSlot' \/ c.blink # menuUi'.blink THEN On(base, PlayingSlot') ELSE {}
OutlineRows(c, base) ==
  IF c.slot # PlayingSlot' \/ c.blink # menuUi'.blink
  THEN On(base, c.slot) \cup On(base, PlayingSlot') ELSE {}

(* UI_Display_DrawSongChainMenu: everything when the page or the length is another one,
   else the rows of the two cursors, of the outline, and those with another pattern. *)
DrawSong ==
  LET c    == BeginFrame("song")
      base == BaseOf(menuUi'.cursor)
      page == [r \in MenuRows("song") |-> IF base + r < Len(song'.chain)
                                          THEN song'.chain[base + r + 1] ELSE NoCursor]
      full == c.base # base \/ c.length # Len(song'.chain)
      rows == (IF c.cursor # menuUi'.cursor
               THEN On(base, c.cursor) \cup On(base, menuUi'.cursor) ELSE {})
              \cup OutlineRows(c, base) \cup {r \in MenuRows("song") : c.page[r] # page[r]}
  IN /\ menuDisp' = [rows |-> [r \in MenuRows("song") |->
                       IF full \/ r \in rows THEN MenuRow(r)' ELSE menuDisp.rows[r]],
                     header |-> DrawnHeader(c, MenuHeader')]
     /\ menuCache' = [c EXCEPT !.base = base, !.cursor = menuUi'.cursor,
                               !.length = Len(song'.chain), !.slot = PlayingSlot',
                               !.blink = menuUi'.blink, !.page = page, !.header = MenuHeader']

(* on_draw of the screen: the grid forgets all (UI_Display_FastReturnToGrid), the bar
   editor begins a frame of its own. *)
Draw ==
  CASE menuUi'.screen \in Lists -> DrawList(menuUi'.screen)
    [] menuUi'.screen = "song"  -> DrawSong
    [] OTHER -> /\ menuDisp' = [rows |-> <<>>, header |-> NoHeader("none")]
                /\ menuCache' = IF menuUi'.screen = "grid"
                                THEN Forgotten("none") ELSE BeginFrame("chord")

-----------------------------------------------------------------------------
(* Going to a menu and back *)

NoSong == [chain |-> <<>>, playing |-> FALSE, slot |-> 0, repeat |-> 0]

MenuInit ==
  /\ menuUi = [screen |-> "grid", back |-> "grid", asleep |-> FALSE, cursor |-> 0,
               field |-> "source", rejected |-> FALSE, question |-> "none", blink |-> FALSE]
  /\ draft = <<>> /\ saved = <<>> /\ song = NoSong
  /\ menuDisp = [rows |-> <<>>, header |-> NoHeader("none")]
  /\ menuCache = Forgotten("none")

Free(m) == menuUi.screen = m /\ ~menuUi.asleep /\ menuUi.question = "none"

(* UI_Sequencer_EnterTimingMenu, ...QuantTimingMenu, ...QuanRouterMenu, ...ArpMenu *)
EnterList(m, from, cursor) ==
  /\ Free(from)
  /\ \E d \in [MenuRows(m) -> Contents(m)] :
       /\ m = "timing" => ~Refused(d)
       /\ draft' = d /\ saved' = d
  /\ menuUi' = [menuUi EXCEPT !.screen = m, !.back = from, !.cursor = cursor,
                              !.field = "source", !.rejected = FALSE]
  /\ UNCHANGED song
  /\ Draw

EnterTiming == \E from \in {"grid", "bars"} : EnterList("timing", from, 1)
EnterArp    == EnterList("arp", "bars", 0)
EnterQuant  == \E cursor \in {0, 1} : EnterList("quant", "grid", cursor)
EnterRouter == \E cursor \in MenuRows("router") : EnterList("router", "grid", cursor)

Chains == UNION {[1 .. n -> Values] : n \in 1 .. ChainSlots}

(* UI_Sequencer_EnterSongChain, which the shifted key of bar 9 calls with slot 0; the
   transport may run or not. *)
EnterSong ==
  /\ Free("grid")
  /\ \E c \in Chains, on \in BOOLEAN, s \in 0 .. ChainSlots - 1, r \in 0 .. Repeats - 1 :
       /\ s < Len(c)
       /\ song' = [chain |-> c, playing |-> on, slot |-> s, repeat |-> r]
  /\ menuUi' = [menuUi EXCEPT !.screen = "song", !.back = "grid", !.cursor = 0,
                              !.blink = TRUE]
  /\ UNCHANGED <<draft, saved>>
  /\ Draw

ToBars ==
  /\ Free("grid")
  /\ menuUi' = [menuUi EXCEPT !.screen = "bars"]
  /\ UNCHANGED <<draft, saved, song>>
  /\ Draw

ToGrid ==
  /\ Free("bars")
  /\ menuUi' = [menuUi EXCEPT !.screen = "grid"]
  /\ UNCHANGED <<draft, saved, song>>
  /\ Draw

(* UI_Sequencer_ExitTimingMenu and its like: a timing the device refuses keeps its menu
   open; all else leads back. *)
Exit(commit) ==
  IF commit /\ menuUi.screen = "timing" /\ Refused(draft)
  THEN /\ menuUi' = [menuUi EXCEPT !.rejected = TRUE, !.question = "none"]
       /\ UNCHANGED <<draft, saved, song>>
       /\ Draw
  ELSE /\ menuUi' = [menuUi EXCEPT !.screen = menuUi.back, !.back = "grid", !.cursor = 0,
                                   !.field = "source", !.rejected = FALSE, !.question = "none",
                                   !.blink = FALSE]
       /\ draft' = <<>> /\ saved' = <<>> /\ song' = NoSong
       /\ Draw

(* PLAY and the shifted encoder save, REC does not; the song chain has nothing to save. *)
LeaveMenu ==
  /\ \E m \in Menus : Free(m)
  /\ \E commit \in BOOLEAN : Exit(commit)

-----------------------------------------------------------------------------
(* Inputs *)

(* UI_EncoderDelta_TimingMenu and its like: the value under the cursor, and in the router
   the field of it that is edited. *)
Turn ==
  /\ \E m \in Lists : Free(m)
  /\ \E v \in Values :
       draft' = [draft EXCEPT ![menuUi.cursor] =
                   IF menuUi.screen # "router" THEN <<v>>
                   ELSE IF menuUi.field = "source" THEN <<v, @[2]>> ELSE <<@[1], v>>]
  /\ menuUi' = [menuUi EXCEPT !.rejected = FALSE]
  /\ UNCHANGED <<saved, song>>
  /\ Draw

(* UI_EncoderPress_TimingMenu and its like *)
Press ==
  /\ \E m \in Lists : Free(m)
  /\ menuUi' =
       IF menuUi.screen = "router"
       THEN [menuUi EXCEPT !.field = IF @ = "source" THEN "target" ELSE "source"]
       ELSE [menuUi EXCEPT !.cursor = IF @ + 1 \in MenuRows(menuUi.screen) THEN @ + 1 ELSE 0]
  /\ UNCHANGED <<draft, saved, song>>
  /\ Draw

(* UI_EncoderDelta_SongChain *)
TurnSlot ==
  /\ Free("song")
  /\ \E p \in Values : song' = [song EXCEPT !.chain[menuUi.cursor + 1] = p]
  /\ UNCHANGED <<menuUi, draft, saved>>
  /\ Draw

(* UI_StepRoute_SongChain: slots of the page, add, delete, previous, next. *)
SelectSlot ==
  /\ Free("song")
  /\ \E slot \in 0 .. Len(song.chain) - 1 :
       /\ BaseOf(slot) = BaseOf(menuUi.cursor) \/ slot \in {menuUi.cursor - 1, menuUi.cursor + 1}
       /\ menuUi' = [menuUi EXCEPT !.cursor = slot]
  /\ UNCHANGED <<draft, saved, song>>
  /\ Draw

AddSlot ==
  /\ Free("song") /\ Len(song.chain) < ChainSlots
  /\ song' = [song EXCEPT !.chain = Append(@, @[menuUi.cursor + 1])]
  /\ menuUi' = [menuUi EXCEPT !.cursor = Len(song.chain)]
  /\ UNCHANGED <<draft, saved>>
  /\ Draw

DeleteSlot ==
  /\ Free("song") /\ Len(song.chain) > 1
  /\ song' = [song EXCEPT !.chain = SubSeq(@, 1, Len(@) - 1)]
  /\ menuUi' = [menuUi EXCEPT
       !.cursor = IF @ < Len(song'.chain) THEN @ ELSE Len(song'.chain) - 1]
  /\ UNCHANGED <<draft, saved>>
  /\ Draw

(* UI_Sequencer_UpdateSongChainBlink, every 180 ms: what draws the progress of the song. *)
Blink ==
  /\ Free("song")
  /\ menuUi' = [menuUi EXCEPT !.blink = ~@]
  /\ UNCHANGED <<draft, saved, song>>
  /\ Draw

(* The engine goes on in the song, or stops, without a drawing; it may be at a slot that
   was deleted until its next advance. *)
Advance ==
  /\ menuUi.screen = "song" /\ song.playing
  /\ \E s \in 0 .. Len(song.chain) - 1, r \in 0 .. Repeats - 1, on \in BOOLEAN :
       song' = [song EXCEPT !.slot = s, !.repeat = r, !.playing = on]
  /\ UNCHANGED <<menuUi, draft, saved, menuDisp, menuCache>>

-----------------------------------------------------------------------------
(* What is drawn over a menu *)

(* UI_Display_DrawYesNoQuestionModal: the box covers rows 1 to 4 but for their signs. *)
DrawBox ==
  menuDisp' = [menuDisp EXCEPT
    !.rows = [r \in DOMAIN @ |-> IF r = 0 THEN @[r] ELSE UnderBox(@[r])]]

(* A long press in the timing menu, or in one that was opened from the bar editor. *)
AskInMenu ==
  /\ \E m \in {"timing", "arp"} : Free(m)
  /\ menuUi' = [menuUi EXCEPT !.question = "no"]
  /\ DrawBox
  /\ UNCHANGED <<draft, saved, song, menuCache>>

TurnAnswer ==
  /\ menuUi.question # "none" /\ ~menuUi.asleep
  /\ \E a \in {"no", "yes"} : menuUi' = [menuUi EXCEPT !.question = a]
  /\ DrawBox
  /\ UNCHANGED <<draft, saved, song, menuCache>>

(* UI_Sequencer_ConfirmExitConfirmSelection: YES leaves and saves, NO calls on_draw. *)
Answer ==
  /\ menuUi.question # "none" /\ ~menuUi.asleep
  /\ IF menuUi.question = "yes" THEN Exit(TRUE)
     ELSE /\ menuUi' = [menuUi EXCEPT !.question = "none"]
          /\ UNCHANGED <<draft, saved, song>>
          /\ Draw

(* The screensaver fills the display; the key that ends it calls on_draw. *)
MenuSleep ==
  /\ menuUi.screen \in Menus /\ ~menuUi.asleep
  /\ menuUi' = [menuUi EXCEPT !.asleep = TRUE]
  /\ menuDisp' = [rows |-> [r \in DOMAIN menuDisp.rows |-> Black],
                  header |-> NoHeader("black")]
  /\ UNCHANGED <<draft, saved, song, menuCache>>

MenuWake ==
  /\ menuUi.asleep
  /\ menuUi' = [menuUi EXCEPT !.asleep = FALSE]
  /\ UNCHANGED <<draft, saved, song>>
  /\ Draw

MenuNext ==
  \/ EnterTiming \/ EnterArp \/ EnterQuant \/ EnterRouter \/ EnterSong
  \/ ToBars \/ ToGrid \/ LeaveMenu \/ Turn \/ Press
  \/ TurnSlot \/ SelectSlot \/ AddSlot \/ DeleteSlot \/ Blink \/ Advance
  \/ AskInMenu \/ TurnAnswer \/ Answer \/ MenuSleep \/ MenuWake

MenuSpec == MenuInit /\ [][MenuNext]_menuVars

-----------------------------------------------------------------------------
(* Properties *)

InMenu == menuUi.screen \in Menus /\ ~menuUi.asleep

(* Whatever was left and entered before, and whichever rows the last calls drew: a row of
   the menu that shows a value shows that of the draft, or of the chain, and the sign of
   the cursor is at the cursor and nowhere else (ui_display.c:1918-1940, 2110-2185,
   2311-2375).  Rows under a box or black from the screensaver show none. *)
MenuShowsDraft ==
  InMenu => \A r \in MenuRows(menuUi.screen) :
    LET row == menuDisp.rows[r] IN
      /\ row.label \in {menuUi.screen, "box", "black"}
      /\ row.mark \notin {"box", "black"} =>
           /\ row.value = MenuRow(r).value /\ row.lit = MenuRow(r).lit
           /\ menuUi.screen \in Lists => row.mark = MenuRow(r).mark

(* The header says that a timing was refused until it is edited again, and of every list
   whether it holds something not saved; over the chain it tells its length.  It is drawn
   apart from the rows, and by the router only on some calls (ui_display.c:1020-1040,
   1945-1949, 2099-2104). *)
HeaderTellsState ==
  InMenu /\ menuDisp.header.title # "black" =>
    [menuDisp.header EXCEPT !.repeat = MenuHeader.repeat] = MenuHeader

(* The drawings that draw only what changed show the values being edited. *)
MenuIsTrue == MenuShowsDraft /\ HeaderTellsState

(* Each drawing for the blinking leaves one slot outlined, the one that plays, wherever
   the engine and the cursor went since the one before (ui_display.c:2342-2362); the
   repeats in the header are those of the engine. *)
OneOutline ==
  [][Blink =>
       /\ \A r \in MenuRows("song") :
            menuDisp'.rows[r].mark \in {"bright", "dim"}
              <=> BaseOf(menuUi.cursor) + r = PlayingSlot /\ PlayingSlot < Len(song.chain)
       /\ menuDisp'.header.title = "song" => menuDisp'.header.repeat = RepeatIndex]_menuVars

(* The code does not keep the two that follow.

   UI_Sequencer_DismissExitConfirm draws the active screen to take the box off it. *)
MenuBoxOnlyWhenAsked ==
  InMenu /\ menuUi.question = "none" =>
    \A r \in MenuRows(menuUi.screen) : menuDisp.rows[r].label # "box"

(* "force one full, state-preserving repaint of whatever screen was already active"
   (ui_sequencer.c:4436). *)
RepaintedOnWaking ==
  InMenu => \A r \in MenuRows(menuUi.screen) : menuDisp.rows[r].label # "black"
=============================================================================
