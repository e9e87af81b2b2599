------------------------------- MODULE UiProofs -------------------------------
(***************************************************************************)
(* Proofs about the user interface, for any bars, chords and notes, and    *)
(* about the input it is given, for any panel and any intervals.           *)
(***************************************************************************)
EXTENDS Ui, UiInput, SequenceTheorems, FiniteSetTheorems, WellFoundedInduction, TLAPS

-----------------------------------------------------------------------------
(* Stacks of at most three screens *)

LEMMA PairIs ==
  ASSUME NEW S, NEW s \in Seq(S), Len(s) = 2
  PROVE  s = <<s[1], s[2]>>
<1> DEFINE t == <<s[1], s[2]>>
<1>0. s[1] \in S /\ s[2] \in S
  BY ElementOfSeq
<1>1. t \in Seq(S) /\ Len(t) = 2 /\ t[1] = s[1] /\ t[2] = s[2]
  BY <1>0
<1> HIDE DEF t
<1>2. \A i \in 1 .. Len(s) : s[i] = t[i]
  BY <1>1
<1>3. s = t
  BY <1>1, <1>2, SeqEqual
<1> QED
  BY <1>3 DEF t

LEMMA SingleIs ==
  ASSUME NEW S, NEW s \in Seq(S), Len(s) = 1
  PROVE  s = <<s[1]>>
<1> DEFINE t == <<s[1]>>
<1>0. s[1] \in S
  BY ElementOfSeq
<1>1. t \in Seq(S) /\ Len(t) = 1 /\ t[1] = s[1]
  BY <1>0
<1> HIDE DEF t
<1>2. \A i \in 1 .. Len(s) : s[i] = t[i]
  BY <1>1
<1>3. s = t
  BY <1>1, <1>2, SeqEqual
<1> QED
  BY <1>3 DEF t

LEMMA TripleIs ==
  ASSUME NEW S, NEW s \in Seq(S), Len(s) = 3
  PROVE  s = <<s[1], s[2], s[3]>>
<1> DEFINE t == <<s[1], s[2], s[3]>>
<1>0. s[1] \in S /\ s[2] \in S /\ s[3] \in S
  <2>1. 1 \in 1 .. Len(s) /\ 2 \in 1 .. Len(s) /\ 3 \in 1 .. Len(s)
    OBVIOUS
  <2> QED
    BY <2>1, ElementOfSeq
<1>1. t \in Seq(S) /\ Len(t) = 3 /\ t[1] = s[1] /\ t[2] = s[2] /\ t[3] = s[3]
  BY <1>0
<1> HIDE DEF t
<1>2. \A i \in 1 .. Len(s) : s[i] = t[i]
  BY <1>1
<1>3. s = t
  BY <1>1, <1>2, SeqEqual
<1> QED
  BY <1>3 DEF t

LEMMA AppendIs ==
  ASSUME NEW S, NEW s \in Seq(S), NEW e \in S
  PROVE  /\ Append(s, e) \in Seq(S)
         /\ Len(Append(s, e)) = Len(s) + 1
         /\ Append(s, e)[Len(s) + 1] = e
         /\ \A i \in 1 .. Len(s) : Append(s, e)[i] = s[i]
<1>1. Append(s, e) \in Seq(S)
  BY AppendProperties, Zenon
<1>2. Len(Append(s, e)) = Len(s) + 1 /\ Append(s, e)[Len(s) + 1] = e
  BY AppendProperties, Zenon
<1>3. ASSUME NEW i \in 1 .. Len(s)
      PROVE  Append(s, e)[i] = s[i]
  BY AppendProperties, SMT
<1> QED
  BY <1>1, <1>2, <1>3

LEMMA AppendToOne ==
  ASSUME NEW S, NEW s \in Seq(S), NEW e \in S, Len(s) = 1
  PROVE  Append(s, e) = <<s[1], e>>
<1> DEFINE t == Append(s, e)
<1>1. /\ t \in Seq(S) /\ Len(t) = Len(s) + 1 /\ t[Len(s) + 1] = e
      /\ \A i \in 1 .. Len(s) : t[i] = s[i]
  BY AppendIs
<1> HIDE DEF t
<1>2. Len(t) = 2 /\ t[1] = s[1] /\ t[2] = e
  BY <1>1
<1> QED
  BY <1>1, <1>2, PairIs DEF t

LEMMA AppendToTwo ==
  ASSUME NEW S, NEW s \in Seq(S), NEW e \in S, Len(s) = 2
  PROVE  Append(s, e) = <<s[1], s[2], e>>
<1> DEFINE t == Append(s, e)
<1>1. /\ t \in Seq(S) /\ Len(t) = Len(s) + 1 /\ t[Len(s) + 1] = e
      /\ \A i \in 1 .. Len(s) : t[i] = s[i]
  BY AppendIs
<1> HIDE DEF t
<1>2. Len(t) = 3 /\ t[1] = s[1] /\ t[2] = s[2] /\ t[3] = e
  BY <1>1
<1> QED
  BY <1>1, <1>2, TripleIs DEF t

LEMMA OneScreen ==
  ASSUME NEW a
  PROVE  Len(<<a>>) = 1 /\ Last(<<a>>) = a /\ <<a>> # <<>>
<1>1. Len(<<a>>) = 1 /\ <<a>>[1] = a /\ <<a>> # <<>>
  OBVIOUS
<1> QED
  BY <1>1 DEF Last

LEMMA TwoScreens ==
  ASSUME NEW a, NEW b
  PROVE  /\ Len(<<a, b>>) = 2 /\ Last(<<a, b>>) = b /\ <<a, b>> # <<>>
         /\ Append(<<a>>, b) = <<a, b>> /\ Front(<<a, b>>) = <<a>>
<1> DEFINE S == {a, b}
           one == <<a>>
           two == <<a, b>>
<1>1. Len(one) = 1 /\ one \in Seq(S) /\ one[1] = a /\ b \in S /\ a \in S
  OBVIOUS
<1>2. Len(two) = 2 /\ two \in Seq(S) /\ two[1] = a /\ two[2] = b /\ two # <<>>
  OBVIOUS
<1> HIDE DEF S, one, two
<1>3. Last(two) = b
  BY <1>2 DEF Last
<1>4. Append(one, b) = <<a, b>>
  BY <1>1, AppendToOne
<1>5. Front(two) = <<a>>
  <2> DEFINE t == SubSeq(two, 1, 1)
  <2>1. \A i \in 1 .. 1 : two[i] \in S
    BY <1>1, <1>2
  <2>2. t \in Seq(S) /\ Len(t) = 1 /\ t[1] = a
    BY <1>2, <2>1, SubSeqProperties
  <2> HIDE DEF t
  <2>3. t = <<a>>
    BY <2>2, SingleIs
  <2> QED
    BY <2>3, <1>2 DEF Front, t
<1> QED
  BY <1>2, <1>3, <1>4, <1>5 DEF one, two

LEMMA ThreeScreens ==
  ASSUME NEW a, NEW b, NEW c
  PROVE  /\ Len(<<a, b, c>>) = 3 /\ Last(<<a, b, c>>) = c /\ <<a, b, c>> # <<>>
         /\ Append(<<a, b>>, c) = <<a, b, c>> /\ Front(<<a, b, c>>) = <<a, b>>
         /\ SubSeq(<<a, b, c>>, 1, 2) = <<a, b>>
<1> DEFINE S == {a, b, c}
           two == <<a, b>>
           three == <<a, b, c>>
<1>1. Len(two) = 2 /\ two \in Seq(S) /\ two[1] = a /\ two[2] = b
        /\ a \in S /\ b \in S /\ c \in S
  OBVIOUS
<1>2. Len(three) = 3 /\ three \in Seq(S) /\ three[1] = a /\ three[2] = b /\ three[3] = c
        /\ three # <<>>
  OBVIOUS
<1> HIDE DEF S, two, three
<1>3. Last(three) = c
  BY <1>2 DEF Last
<1>4. Append(two, c) = <<a, b, c>>
  BY <1>1, AppendToTwo
<1>5. SubSeq(three, 1, 2) = <<a, b>>
  <2> DEFINE t == SubSeq(three, 1, 2)
  <2>1. \A i \in 1 .. 2 : three[i] \in S
    BY <1>1, <1>2
  <2>2. t \in Seq(S) /\ Len(t) = 2 /\ t[1] = a /\ t[2] = b
    BY <1>2, <2>1, SubSeqProperties
  <2> HIDE DEF t
  <2> QED
    BY <2>2, PairIs DEF t
<1>6. Front(three) = <<a, b>>
  BY <1>2, <1>5 DEF Front
<1> QED
  BY <1>2, <1>3, <1>4, <1>5, <1>6 DEF two, three

Stacks == UNION {[1 .. n -> Modes] : n \in 1 .. 3}

LEMMA StacksOfModes ==
  ASSUME NEW a \in Modes, NEW b \in Modes, NEW c \in Modes
  PROVE  <<a>> \in Stacks /\ <<a, b>> \in Stacks /\ <<a, b, c>> \in Stacks
<1>1. <<a>> \in [1 .. 1 -> Modes]
  OBVIOUS
<1>2. <<a, b>> \in [1 .. 2 -> Modes]
  OBVIOUS
<1>3. <<a, b, c>> \in [1 .. 3 -> Modes]
  OBVIOUS
<1>4. 1 \in 1 .. 3 /\ 2 \in 1 .. 3 /\ 3 \in 1 .. 3
  OBVIOUS
<1> QED
  BY <1>1, <1>2, <1>3, <1>4 DEF Stacks

LEMMA EditorOnStack ==
  ASSUME NEW m, m # "STEP_PIANO"
  PROVE  /\ {k \in 1 .. Len(<<"GRID", "STEP_PIANO", m>>) :
               <<"GRID", "STEP_PIANO", m>>[k] = "STEP_PIANO"} = {2}
         /\ Max({2}) = 2
<1> DEFINE s == <<"GRID", "STEP_PIANO", m>>
<1>1. Len(s) = 3 /\ s[1] = "GRID" /\ s[2] = "STEP_PIANO" /\ s[3] = m
  OBVIOUS
<1> HIDE DEF s
<1>2. {k \in 1 .. Len(s) : s[k] = "STEP_PIANO"} = {2}
  BY <1>1
<1>3. Max({2}) = 2
  BY DEF Max
<1> QED
  BY <1>2, <1>3 DEF s

-----------------------------------------------------------------------------
(* The invariant *)

UiType ==
  [mode : Modes, main : Range(MainModes), stack : Stacks, target : {"GRID", "BAR"},
   shortcut : {"none", "CHORD", "TIMING_MENU", "ARP_MENU"}, direct : Bars \cup {0},
   dialog : {"none", "replace", "CHORD", "TIMING", "ARP", "clear", "exit"},
   yes : BOOLEAN, quick : BOOLEAN, length : BOOLEAN, selected : Bars, menu : Bars,
   draft : [Bars -> Drafts], shown : Drafts, action : Range(FooterKeys),
   encoder : {"up", "down", "held"}, notes : [Bars -> NoteValues]]

(* The screens that lead to a mode: there is only one way to each, but for the menus
   that open from the grid and from the bar editor. *)
StackOK(u) ==
  /\ u.mode = "GRID" => u.stack = <<"GRID">>
  /\ u.mode = "STEP_PIANO" => u.stack = <<"GRID", "STEP_PIANO">>
  /\ u.mode = "CHORD_MENU" => u.stack = <<"CHORD_MENU">>
  /\ u.mode = "USER_MENU" => u.stack = <<"CHORD_MENU", "USER_MENU">>
  /\ u.mode \in UserModes => u.stack = <<"CHORD_MENU", "USER_MENU", u.mode>>
  /\ u.mode = "CHORD_PARAMS" /\ u.quick => u.stack = <<"GRID">>
  /\ u.mode = "CHORD_PARAMS" /\ ~u.quick /\ u.target = "GRID" =>
       u.stack = <<"CHORD_MENU", "CHORD_PARAMS">>
  /\ u.mode \in Menus /\ u.target = "GRID" => u.stack = <<"GRID", u.mode>>
  /\ u.target = "BAR" => u.stack = <<"GRID", "STEP_PIANO", u.mode>>

(* The way back, the shortcut and the bar of the chord chooser go together, and every
   dialog and the length mode belong to the mode that ends them. *)
WayBackOK(u) ==
  /\ u.target = "BAR" =>
       /\ u.mode \in {"CHORD_PARAMS", "TIMING_MENU", "ARP_MENU"} /\ ~u.quick
       /\ u.shortcut = IF u.mode = "CHORD_PARAMS" THEN "CHORD" ELSE u.mode
  /\ u.target = "GRID" => u.shortcut = "none" /\ u.direct = 0
  /\ u.direct # 0 => u.mode = "CHORD_PARAMS"
DialogOK(u) ==
  /\ u.dialog \in {"clear", "exit"} => u.mode = "STEP_PIANO" /\ ~u.length
  /\ u.dialog = "replace" => u.direct # 0
  /\ u.dialog = "CHORD" => u.mode = "CHORD_PARAMS" /\ u.target = "BAR"
  /\ u.dialog = "TIMING" => u.mode = "TIMING_MENU"
  /\ u.dialog = "ARP" => u.mode = "ARP_MENU" /\ u.target = "BAR"
ModesOK(u) ==
  /\ u.quick => u.mode = "CHORD_PARAMS"
  /\ u.length => u.mode = "STEP_PIANO"
CopyOK(u) == u.mode = "CHORD_PARAMS" => u.shown = u.draft[u.menu]

ScreensOK(u) == StackOK(u) /\ WayBackOK(u) /\ DialogOK(u) /\ ModesOK(u)
Good(u) == u \in UiType /\ ScreensOK(u) /\ CopyOK(u)

(* What a handler that only edits a chord leaves as it is. *)
SameScreens(u, v) ==
  /\ v.mode = u.mode /\ v.stack = u.stack /\ v.target = u.target
  /\ v.shortcut = u.shortcut /\ v.direct = u.direct /\ v.dialog = u.dialog
  /\ v.quick = u.quick /\ v.length = u.length

LEMMA SameScreensOK ==
  ASSUME NEW u, NEW v, ScreensOK(u), SameScreens(u, v)
  PROVE  ScreensOK(v)
<1>1. StackOK(v) /\ WayBackOK(v)
  BY DEF SameScreens, ScreensOK, StackOK, WayBackOK
<1>2. DialogOK(v) /\ ModesOK(v)
  BY DEF SameScreens, ScreensOK, DialogOK, ModesOK
<1> QED
  BY <1>1, <1>2 DEF ScreensOK

(* The screen on top of each path. *)
LEMMA TopOfPath ==
  ASSUME NEW u, Good(u)
  PROVE  /\ Active(u) = IF u.mode = "CHORD_PARAMS" /\ u.quick THEN "GRID" ELSE u.mode
         /\ Len(u.stack) \in 1 .. 3
<1>1. /\ StackOK(u) /\ u.mode \in Modes /\ u.target \in {"GRID", "BAR"}
      /\ u.quick \in BOOLEAN /\ u.target = "BAR" => ~u.quick
  BY DEF Good, ScreensOK, UiType, WayBackOK
<1> DEFINE top == IF u.mode = "CHORD_PARAMS" /\ u.quick THEN "GRID" ELSE u.mode
<1>5. \/ u.stack = <<top>>
      \/ u.stack = <<"GRID", top>>
      \/ u.stack = <<"CHORD_MENU", top>>
      \/ u.stack = <<"CHORD_MENU", "USER_MENU", top>>
      \/ u.stack = <<"GRID", "STEP_PIANO", top>>
  BY <1>1 DEF StackOK, Modes, UserModes, Menus
<1> HIDE DEF top
<1>6. u.stack # <<>> /\ Len(u.stack) \in 1 .. 3 /\ Last(u.stack) = top
  <2> DEFINE Fine(s) == s # <<>> /\ Len(s) \in 1 .. 3 /\ Last(s) = top
  <2>1. Fine(<<top>>)
    BY OneScreen
  <2>2. ASSUME NEW m PROVE Fine(<<m, top>>)
    <3>1. <<m, top>> # <<>> /\ Len(<<m, top>>) = 2 /\ Last(<<m, top>>) = top
      BY TwoScreens
    <3> QED
      BY <3>1
  <2>3. ASSUME NEW l, NEW m PROVE Fine(<<l, m, top>>)
    <3>1. <<l, m, top>> # <<>> /\ Len(<<l, m, top>>) = 3 /\ Last(<<l, m, top>>) = top
      BY ThreeScreens
    <3> QED
      BY <3>1
  <2> HIDE DEF Fine
  <2>4. Fine(u.stack)
    BY <1>5, <2>1, <2>2, <2>3
  <2> QED
    BY <2>4 DEF Fine
<1> QED
  BY <1>6 DEF Active, top

(* So the screens are consistent. *)
LEMMA GoodIsConsistent == Good(ui) => ScreensAreConsistent /\ ScreenCopyIsDraft
<1> SUFFICES ASSUME Good(ui) PROVE ScreensAreConsistent /\ ScreenCopyIsDraft
  OBVIOUS
<1>1. TypeOK
  BY DEF Good, UiType, Stacks, TypeOK
<1>2. ModeHasItsScreen
  BY TopOfPath DEF ModeHasItsScreen
<1>3. ShortcutHasWayBack
  <2> SUFFICES ASSUME ui.target = "BAR"
               PROVE  /\ \E k \in 1 .. Len(ui.stack) : ui.stack[k] = "STEP_PIANO"
                      /\ ui.mode \in {"CHORD_PARAMS", "TIMING_MENU", "ARP_MENU"}
    BY DEF ShortcutHasWayBack
  <2>1. ui.mode \in {"CHORD_PARAMS", "TIMING_MENU", "ARP_MENU"}
    BY DEF Good, ScreensOK, WayBackOK
  <2>2. ui.stack = <<"GRID", "STEP_PIANO", ui.mode>>
    BY DEF Good, ScreensOK, StackOK
  <2>3. 2 \in 1 .. Len(ui.stack) /\ ui.stack[2] = "STEP_PIANO"
    BY <2>2
  <2> QED
    BY <2>1, <2>3
<1>4. ScreenCopyIsDraft
  BY DEF Good, CopyOK, ScreenCopyIsDraft
<1> QED
  BY <1>1, <1>2, <1>3, <1>4 DEF ScreensAreConsistent

-----------------------------------------------------------------------------
(* What only edits a chord keeps the screens *)

LEMMA ChordTypes ==
  /\ Drafts \subseteq NoteValues /\ Types \subseteq Drafts
  /\ None \in Drafts /\ MajorC \in Drafts
  /\ \A n \in NoteValues : n # None /\ n # Own => n \in Types
  BY UiAssumption DEF Drafts, NoteValues

LEMMA HydratedIs ==
  ASSUME NEW u \in UiType, NEW b \in Bars
  PROVE  /\ Hydrated(u, b) \in UiType /\ SameScreens(u, Hydrated(u, b))
         /\ Hydrated(u, b).menu = u.menu /\ Hydrated(u, b).notes = u.notes
<1> DEFINE d == IF u.notes[b] = None THEN None
                ELSE IF u.draft[b] # None THEN u.draft[b]
                ELSE IF u.notes[b] = Own THEN MajorC ELSE u.notes[b]
<1>1. u.draft \in [Bars -> Drafts] /\ u.notes \in [Bars -> NoteValues]
  BY DEF UiType
<1>2. d \in Drafts
  BY <1>1, ChordTypes
<1>3. Hydrated(u, b) = [u EXCEPT !.draft = [u.draft EXCEPT ![b] = d]]
  BY DEF Hydrated
<1> HIDE DEF d
<1>4. [u.draft EXCEPT ![b] = d] \in [Bars -> Drafts]
  BY <1>1, <1>2
<1> QED
  BY <1>3, <1>4 DEF UiType, SameScreens

LEMMA CommittedIs ==
  ASSUME NEW u \in UiType
  PROVE  /\ Committed(u) \in UiType /\ SameScreens(u, Committed(u))
         /\ Committed(u).menu = u.menu /\ Committed(u).draft = u.draft
         /\ Committed(u).shown = u.shown
<1>1. u.draft \in [Bars -> NoteValues]
  BY ChordTypes DEF UiType
<1> QED
  BY <1>1 DEF Committed, UiType, SameScreens

LEMMA RefreshIs ==
  ASSUME NEW u \in UiType
  PROVE  /\ RefreshChordParams(u) \in UiType /\ SameScreens(u, RefreshChordParams(u))
         /\ RefreshChordParams(u).shown = RefreshChordParams(u).draft[u.menu]
         /\ RefreshChordParams(u).menu = u.menu /\ RefreshChordParams(u).notes = u.notes
<1>1. u.draft[u.menu] \in Drafts
  BY DEF UiType
<1> QED
  BY <1>1 DEF RefreshChordParams, UiType, SameScreens

LEMMA RefreshIsGood ==
  ASSUME NEW u \in UiType, ScreensOK(u)
  PROVE  Good(RefreshChordParams(u))
  BY RefreshIs, SameScreensOK DEF Good, CopyOK

-----------------------------------------------------------------------------
(* Ways out *)

LEMMA ExitToGridIsGood ==
  ASSUME NEW u \in UiType, ~u.quick, ~u.length
  PROVE  Good(ExitToGrid(u))
<1> DEFINE v == ExitToGrid(u)
<1>1. "GRID" \in Modes /\ <<"GRID">> \in Stacks
  BY StacksOfModes DEF Modes
<1>2. /\ v \in UiType
      /\ v.mode = "GRID" /\ v.stack = <<"GRID">> /\ v.target = "GRID"
      /\ v.shortcut = "none" /\ v.direct = 0 /\ v.dialog = "none"
      /\ v.quick = u.quick /\ v.length = u.length
  BY <1>1 DEF ExitToGrid, NoShortcut, UiType
<1> HIDE DEF v
<1>3. ScreensOK(v) /\ CopyOK(v)
  BY <1>2 DEF ScreensOK, StackOK, WayBackOK, DialogOK, ModesOK, CopyOK, UserModes, Menus
<1> QED
  BY <1>2, <1>3 DEF Good, v

LEMMA ReturnIs ==
  ASSUME NEW u \in UiType, ScreensOK(u), u.target = "BAR"
  PROVE  ReturnToBarEditor(u) =
           [u EXCEPT !.target = "GRID", !.shortcut = "none", !.direct = 0,
                     !.dialog = "none", !.mode = "STEP_PIANO",
                     !.stack = <<"GRID", "STEP_PIANO">>]
<1>1. u.mode # "STEP_PIANO" /\ u.stack = <<"GRID", "STEP_PIANO", u.mode>>
  BY DEF ScreensOK, WayBackOK, StackOK
<1> DEFINE editors == {k \in 1 .. Len(u.stack) : u.stack[k] = "STEP_PIANO"}
<1>2. editors = {2} /\ Max(editors) = 2
  BY <1>1, EditorOnStack
<1>3. SubSeq(u.stack, 1, 2) = <<"GRID", "STEP_PIANO">>
  BY <1>1, ThreeScreens
<1>4. NoShortcut(u).stack = u.stack
  BY DEF NoShortcut, UiType
<1>5. ReturnToBarEditor(u) = [NoShortcut(u) EXCEPT !.mode = "STEP_PIANO",
                                !.stack = SubSeq(NoShortcut(u).stack, 1, Max(editors))]
  BY <1>2 DEF ReturnToBarEditor
<1>6. ReturnToBarEditor(u) = [NoShortcut(u) EXCEPT !.mode = "STEP_PIANO",
                                !.stack = <<"GRID", "STEP_PIANO">>]
  BY <1>2, <1>3, <1>4, <1>5
<1> QED
  BY <1>6 DEF NoShortcut, UiType

LEMMA ReturnIsGood ==
  ASSUME NEW u \in UiType, ScreensOK(u), u.target = "BAR"
  PROVE  Good(ReturnToBarEditor(u)) /\ ReturnToBarEditor(u).notes = u.notes
<1> DEFINE v == ReturnToBarEditor(u)
<1>1. "STEP_PIANO" \in Modes /\ <<"GRID", "STEP_PIANO">> \in Stacks
  BY StacksOfModes DEF Modes
<1>2. ~u.length /\ ~u.quick
  BY DEF ScreensOK, WayBackOK, ModesOK
<1>3. /\ v \in UiType
      /\ v.mode = "STEP_PIANO" /\ v.stack = <<"GRID", "STEP_PIANO">> /\ v.target = "GRID"
      /\ v.shortcut = "none" /\ v.direct = 0 /\ v.dialog = "none"
      /\ v.quick = u.quick /\ v.length = u.length /\ v.notes = u.notes
  <2>1. v = [u EXCEPT !.target = "GRID", !.shortcut = "none", !.direct = 0,
                      !.dialog = "none", !.mode = "STEP_PIANO",
                      !.stack = <<"GRID", "STEP_PIANO">>]
    BY ReturnIs
  <2> HIDE DEF v
  <2> QED
    BY <1>1, <2>1 DEF UiType
<1> HIDE DEF v
<1>4. ScreensOK(v) /\ CopyOK(v)
  BY <1>2, <1>3 DEF ScreensOK, StackOK, WayBackOK, DialogOK, ModesOK, CopyOK, UserModes, Menus
<1> QED
  BY <1>3, <1>4 DEF Good, v

LEMMA ExitMenuIsGood ==
  ASSUME NEW u, Good(u), u.mode \in Menus, u.dialog = "none"
  PROVE  Good(ExitMenu(u)) /\ ExitMenu(u).notes = u.notes
<1>1. u \in UiType /\ ScreensOK(u)
  BY DEF Good
<1>2. CASE u.mode \in {"TIMING_MENU", "ARP_MENU"} /\ u.target = "BAR"
  BY <1>1, <1>2, ReturnIsGood DEF ExitMenu
<1>3. CASE ~ (u.mode \in {"TIMING_MENU", "ARP_MENU"} /\ u.target = "BAR")
  <2> DEFINE v == ExitMenu(u)
             m == IF u.mode = "SONG_CHAIN" THEN "STEP" ELSE u.main
  <2>1. u.target = "GRID" /\ ~u.length /\ ~u.quick
    BY <1>1, <1>3 DEF ScreensOK, WayBackOK, ModesOK, Menus, UiType
  <2>2. u.stack = <<"GRID", u.mode>>
    BY <2>1 DEF Good, ScreensOK, StackOK
  <2>3. Active(u) = u.mode /\ Popped(u) = <<"GRID">>
    BY <2>2, TwoScreens DEF Active, Popped
  <2>4. v = [u EXCEPT !.mode = "GRID", !.main = m, !.stack = <<"GRID">>]
    BY <1>3, <2>3 DEF ExitMenu
  <2>5. "GRID" \in Modes /\ <<"GRID">> \in Stacks /\ m \in Range(MainModes)
    <3>1. "STEP" \in Range(MainModes)
      <4>1. 1 \in DOMAIN MainModes /\ MainModes[1] = "STEP"
        BY DEF MainModes
      <4> QED
        BY <4>1 DEF Range
    <3> QED
      BY <1>1, <3>1, StacksOfModes DEF Modes, UiType
  <2> HIDE DEF m
  <2>6. /\ v \in UiType
        /\ v.mode = "GRID" /\ v.stack = <<"GRID">> /\ v.target = "GRID"
        /\ v.shortcut = u.shortcut /\ v.direct = u.direct /\ v.dialog = u.dialog
        /\ v.quick = u.quick /\ v.length = u.length /\ v.notes = u.notes
    BY <1>1, <2>1, <2>4, <2>5 DEF UiType
  <2> HIDE DEF v
  <2>7. ScreensOK(v) /\ CopyOK(v)
    BY <1>1, <2>1, <2>6
       DEF ScreensOK, StackOK, WayBackOK, DialogOK, ModesOK, CopyOK, UserModes, Menus
  <2> QED
    BY <2>6, <2>7 DEF Good, v
<1> QED
  BY <1>2, <1>3

-----------------------------------------------------------------------------
(* Ways in *)

LEMMA OpenedOverGrid ==
  ASSUME NEW u, NEW m, u.stack = <<"GRID">>
  PROVE  /\ Opened(u, m, {"GRID"}) = [u EXCEPT !.mode = m, !.stack = <<"GRID", m>>]
         /\ OpenedAlone(u, m, {"STEP_PIANO"}) = [u EXCEPT !.mode = m, !.stack = <<m>>]
<1>1. Len(u.stack) = 1 /\ Last(u.stack) = "GRID" /\ u.stack # <<>>
  BY OneScreen
<1>2. Append(u.stack, m) = <<"GRID", m>>
  BY TwoScreens
<1>3. Fits(u, {"GRID"}) /\ ~ Fits(u, {"STEP_PIANO"})
  BY <1>1 DEF Fits, Active, MaxDepth
<1> QED
  BY <1>2, <1>3 DEF Opened, OpenedAlone

LEMMA OpenedOverEditor ==
  ASSUME NEW u, NEW m, u.stack = <<"GRID", "STEP_PIANO">>
  PROVE  /\ Opened(u, m, {"GRID", "STEP_PIANO"}) =
              [u EXCEPT !.mode = m, !.stack = <<"GRID", "STEP_PIANO", m>>]
         /\ OpenedAlone(u, m, {"CHORD_MENU", "STEP_PIANO"}) =
              [u EXCEPT !.mode = m, !.stack = <<"GRID", "STEP_PIANO", m>>]
<1>1. Len(u.stack) = 2 /\ Last(u.stack) = "STEP_PIANO" /\ u.stack # <<>>
  BY TwoScreens
<1>2. Append(u.stack, m) = <<"GRID", "STEP_PIANO", m>>
  BY ThreeScreens
<1>3. Fits(u, {"GRID", "STEP_PIANO"}) /\ Fits(u, {"CHORD_MENU", "STEP_PIANO"})
  BY <1>1 DEF Fits, Active, MaxDepth
<1> QED
  BY <1>2, <1>3 DEF Opened, OpenedAlone

LEMMA OpenedOverMenu ==
  ASSUME NEW u, NEW m, NEW under, u.stack = <<"CHORD_MENU">>, "CHORD_MENU" \in under
  PROVE  OpenedAlone(u, m, under) = [u EXCEPT !.mode = m, !.stack = <<"CHORD_MENU", m>>]
<1>1. Len(u.stack) = 1 /\ Last(u.stack) = "CHORD_MENU" /\ u.stack # <<>>
  BY OneScreen
<1>2. Append(u.stack, m) = <<"CHORD_MENU", m>>
  BY TwoScreens
<1>3. Fits(u, under)
  BY <1>1 DEF Fits, Active, MaxDepth
<1> QED
  BY <1>2, <1>3 DEF OpenedAlone

LEMMA OpenedOverUserMenu ==
  ASSUME NEW u, NEW m, NEW under, u.stack = <<"CHORD_MENU", "USER_MENU">>,
         "USER_MENU" \in under
  PROVE  OpenedAlone(u, m, under) =
           [u EXCEPT !.mode = m, !.stack = <<"CHORD_MENU", "USER_MENU", m>>]
<1>1. Len(u.stack) = 2 /\ Last(u.stack) = "USER_MENU" /\ u.stack # <<>>
  BY TwoScreens
<1>2. Append(u.stack, m) = <<"CHORD_MENU", "USER_MENU", m>>
  BY ThreeScreens
<1>3. Fits(u, under)
  BY <1>1 DEF Fits, Active, MaxDepth
<1> QED
  BY <1>2, <1>3 DEF OpenedAlone

LEMMA ScreenNames ==
  /\ Menus \subseteq Modes /\ UserModes \subseteq Modes
  /\ {"GRID", "STEP_PIANO", "CHORD_MENU", "CHORD_PARAMS", "USER_MENU"} \subseteq Modes
  BY DEF Modes

LEMMA EnterStepPianoIsGood ==
  ASSUME NEW u, Good(u), u.mode = "GRID", NEW b \in Bars
  PROVE  /\ Good(EnterStepPianoView(u, b))
         /\ EnterStepPianoView(u, b).notes = u.notes
<1> DEFINE w == [NoShortcut(u) EXCEPT !.selected = b, !.length = FALSE]
           v == EnterStepPianoView(u, b)
<1>1. u \in UiType /\ u.stack = <<"GRID">> /\ ~u.quick
  BY DEF Good, ScreensOK, StackOK, ModesOK
<1>2. /\ w \in UiType /\ w.stack = <<"GRID">> /\ ~w.quick /\ ~w.length
      /\ w.target = "GRID" /\ w.shortcut = "none" /\ w.direct = 0 /\ w.dialog = "none"
      /\ w.notes = u.notes
  BY <1>1 DEF NoShortcut, UiType
<1> HIDE DEF w
<1>3. v = [w EXCEPT !.mode = "STEP_PIANO", !.stack = <<"GRID", "STEP_PIANO">>]
  <2>1. v = Opened(w, "STEP_PIANO", {"GRID"})
    BY DEF EnterStepPianoView, w
  <2> HIDE DEF v
  <2> QED
    BY <1>2, <2>1, OpenedOverGrid
<1> HIDE DEF v
<1>4. "STEP_PIANO" \in Modes /\ <<"GRID", "STEP_PIANO">> \in Stacks
  BY ScreenNames, StacksOfModes
<1>5. /\ v \in UiType /\ v.mode = "STEP_PIANO" /\ v.stack = <<"GRID", "STEP_PIANO">>
      /\ ~v.quick /\ ~v.length /\ v.target = "GRID" /\ v.shortcut = "none"
      /\ v.direct = 0 /\ v.dialog = "none" /\ v.notes = u.notes
  BY <1>2, <1>3, <1>4 DEF UiType
<1>6. ScreensOK(v) /\ CopyOK(v)
  BY <1>5 DEF ScreensOK, StackOK, WayBackOK, DialogOK, ModesOK, CopyOK, UserModes, Menus
<1> QED
  BY <1>5, <1>6 DEF Good, v

LEMMA MenuFromGridIsGood ==
  ASSUME NEW u, Good(u), u.mode = "GRID", NEW m \in Menus
  PROVE  Good(Opened(u, m, {"GRID"})) /\ Opened(u, m, {"GRID"}).notes = u.notes
<1> DEFINE v == Opened(u, m, {"GRID"})
<1>1. /\ u \in UiType /\ u.stack = <<"GRID">> /\ ~u.quick /\ ~u.length
      /\ u.target = "GRID" /\ u.shortcut = "none" /\ u.direct = 0 /\ u.dialog = "none"
  BY DEF Good, ScreensOK, StackOK, ModesOK, WayBackOK, DialogOK, UiType
<1>2. v = [u EXCEPT !.mode = m, !.stack = <<"GRID", m>>]
  BY <1>1, OpenedOverGrid
<1> HIDE DEF v
<1>3. m \in Modes /\ <<"GRID", m>> \in Stacks
  BY ScreenNames, StacksOfModes
<1>4. /\ v \in UiType /\ v.mode = m /\ v.stack = <<"GRID", m>>
      /\ ~v.quick /\ ~v.length /\ v.target = "GRID" /\ v.shortcut = "none"
      /\ v.direct = 0 /\ v.dialog = "none" /\ v.notes = u.notes
  BY <1>1, <1>2, <1>3 DEF UiType
<1>5. ScreensOK(v) /\ CopyOK(v)
  BY <1>4 DEF ScreensOK, StackOK, WayBackOK, DialogOK, ModesOK, CopyOK, UserModes, Menus
<1> QED
  BY <1>4, <1>5 DEF Good, v

LEMMA MenuFromEditorIsGood ==
  ASSUME NEW u, Good(u), u.mode = "STEP_PIANO", ~u.length, ~AskingBar(u),
         NEW m \in {"TIMING_MENU", "ARP_MENU"}
  PROVE  Good(EnterFromBarEditor(u, m)) /\ EnterFromBarEditor(u, m).notes = u.notes
<1> DEFINE w == [u EXCEPT !.target = "BAR", !.shortcut = m]
           v == EnterFromBarEditor(u, m)
<1>1. /\ u \in UiType /\ u.stack = <<"GRID", "STEP_PIANO">> /\ ~u.quick
      /\ u.direct = 0 /\ u.dialog = "none"
  BY DEF Good, ScreensOK, StackOK, ModesOK, WayBackOK, DialogOK, UiType, AskingBar
<1>2. /\ w \in UiType /\ w.stack = <<"GRID", "STEP_PIANO">> /\ ~w.quick /\ ~w.length
      /\ w.target = "BAR" /\ w.shortcut = m /\ w.direct = 0 /\ w.dialog = "none"
      /\ w.notes = u.notes
  BY <1>1 DEF UiType
<1> HIDE DEF w
<1>3. v = [w EXCEPT !.mode = m, !.stack = <<"GRID", "STEP_PIANO", m>>]
  <2>1. v = Opened(w, m, {"GRID", "STEP_PIANO"})
    BY DEF EnterFromBarEditor, w
  <2> HIDE DEF v
  <2> QED
    BY <1>2, <2>1, OpenedOverEditor
<1> HIDE DEF v
<1>4. m \in Modes /\ <<"GRID", "STEP_PIANO", m>> \in Stacks
  BY ScreenNames, StacksOfModes DEF Menus
<1>5. /\ v \in UiType /\ v.mode = m /\ v.stack = <<"GRID", "STEP_PIANO", m>>
      /\ ~v.quick /\ ~v.length /\ v.target = "BAR" /\ v.shortcut = m
      /\ v.direct = 0 /\ v.dialog = "none" /\ v.notes = u.notes
  BY <1>2, <1>3, <1>4 DEF UiType
<1>6. ScreensOK(v) /\ CopyOK(v)
  BY <1>5 DEF ScreensOK, StackOK, WayBackOK, DialogOK, ModesOK, CopyOK, UserModes, Menus
<1> QED
  BY <1>5, <1>6 DEF Good, v

LEMMA EnterChordMenuIsGood ==
  ASSUME NEW u, Good(u), u.mode = "GRID", NEW b \in Bars
  PROVE  Good(EnterChordMenu(u, b)) /\ EnterChordMenu(u, b).notes = u.notes
<1> DEFINE w == [u EXCEPT !.selected = b, !.menu = b]
           h == Hydrated(w, b)
           v == EnterChordMenu(u, b)
<1>1. /\ u \in UiType /\ u.stack = <<"GRID">> /\ ~u.quick /\ ~u.length
      /\ u.target = "GRID" /\ u.shortcut = "none" /\ u.direct = 0 /\ u.dialog = "none"
  BY DEF Good, ScreensOK, StackOK, ModesOK, WayBackOK, DialogOK, UiType
<1>2. w \in UiType /\ SameScreens(u, w) /\ w.notes = u.notes
  BY <1>1 DEF SameScreens, UiType
<1> HIDE DEF w
<1>3. h \in UiType /\ SameScreens(w, h) /\ h.notes = u.notes
  BY <1>2, HydratedIs
<1>4. v = OpenedAlone(h, "CHORD_MENU", {"STEP_PIANO"})
  BY DEF EnterChordMenu, w
<1> HIDE DEF h, v
<1>5. h.stack = <<"GRID">>
  BY <1>1, <1>2, <1>3 DEF SameScreens
<1>6. v = [h EXCEPT !.mode = "CHORD_MENU", !.stack = <<"CHORD_MENU">>]
  BY <1>4, <1>5, OpenedOverGrid
<1>7. "CHORD_MENU" \in Modes /\ <<"CHORD_MENU">> \in Stacks
  BY ScreenNames, StacksOfModes
<1>8. /\ v \in UiType /\ v.mode = "CHORD_MENU" /\ v.stack = <<"CHORD_MENU">>
      /\ v.quick = h.quick /\ v.length = h.length /\ v.target = h.target
      /\ v.shortcut = h.shortcut /\ v.direct = h.direct /\ v.dialog = h.dialog
      /\ v.notes = u.notes
  BY <1>3, <1>6, <1>7 DEF UiType
<1>9. /\ ~v.quick /\ ~v.length /\ v.target = "GRID" /\ v.shortcut = "none"
      /\ v.direct = 0 /\ v.dialog = "none"
  BY <1>1, <1>2, <1>3, <1>8 DEF SameScreens
<1>10. ScreensOK(v) /\ CopyOK(v)
  BY <1>8, <1>9
     DEF ScreensOK, StackOK, WayBackOK, DialogOK, ModesOK, CopyOK, UserModes, Menus
<1> QED
  BY <1>8, <1>10 DEF Good, v

LEMMA FooterIsKnown ==
  /\ "MAIN" \in Range(FooterKeys)
  /\ \A k \in 1 .. 4 : FooterKeys[k] \in Range(FooterKeys) /\ MainModes[k] \in Range(MainModes)
  /\ "STEP" \in Range(MainModes) /\ "TIMING" \in Range(MainModes)
<1>1. DOMAIN FooterKeys = 1 .. 4 /\ FooterKeys[1] = "MAIN"
  BY DEF FooterKeys
<1>2. DOMAIN MainModes = 1 .. 4 /\ MainModes[1] = "STEP" /\ MainModes[3] = "TIMING"
  BY DEF MainModes
<1>3. 1 \in 1 .. 4 /\ 3 \in 1 .. 4
  OBVIOUS
<1> QED
  BY <1>1, <1>2, <1>3 DEF Range

(* The bar is chosen, its draft read, and the screen's copy taken from it. *)
LEMMA ParamsDrawn ==
  ASSUME NEW u \in UiType, NEW b \in Bars, NEW q \in BOOLEAN
  PROVE  LET w == RefreshChordParams(Hydrated([u EXCEPT !.selected = b, !.menu = b,
                                                 !.quick = q, !.action = "MAIN"], b))
         IN /\ w \in UiType /\ w.notes = u.notes /\ w.quick = q
            /\ w.shown = w.draft[w.menu]
            /\ w.mode = u.mode /\ w.stack = u.stack /\ w.target = u.target
            /\ w.shortcut = u.shortcut /\ w.direct = u.direct /\ w.dialog = u.dialog
            /\ w.length = u.length
<1> DEFINE t == [u EXCEPT !.selected = b, !.menu = b, !.quick = q, !.action = "MAIN"]
           h == Hydrated(t, b)
           w == RefreshChordParams(h)
<1>1. /\ t \in UiType /\ t.notes = u.notes /\ t.quick = q
      /\ t.mode = u.mode /\ t.stack = u.stack /\ t.target = u.target
      /\ t.shortcut = u.shortcut /\ t.direct = u.direct /\ t.dialog = u.dialog
      /\ t.length = u.length
  BY FooterIsKnown DEF UiType
<1> HIDE DEF t
<1>2. h \in UiType /\ SameScreens(t, h) /\ h.notes = t.notes
  BY <1>1, HydratedIs
<1> HIDE DEF h
<1>3. /\ w \in UiType /\ SameScreens(h, w) /\ w.notes = h.notes
      /\ w.shown = w.draft[w.menu]
  BY <1>2, RefreshIs
<1> HIDE DEF w
<1>4. /\ w \in UiType /\ w.notes = u.notes /\ w.quick = q
      /\ w.shown = w.draft[w.menu]
      /\ w.mode = u.mode /\ w.stack = u.stack /\ w.target = u.target
      /\ w.shortcut = u.shortcut /\ w.direct = u.direct /\ w.dialog = u.dialog
      /\ w.length = u.length
  BY <1>1, <1>2, <1>3 DEF SameScreens
<1> QED
  BY <1>4 DEF w, h, t

LEMMA EnterChordParamsIsGood ==
  ASSUME NEW u \in UiType, ScreensOK(u), u.mode = "CHORD_MENU", NEW b \in Bars
  PROVE  Good(EnterChordParams(u, b)) /\ EnterChordParams(u, b).notes = u.notes
<1> DEFINE w == RefreshChordParams(Hydrated([u EXCEPT !.selected = b, !.menu = b,
                                               !.quick = FALSE, !.action = "MAIN"], b))
           v == EnterChordParams(u, b)
<1>1. /\ u.stack = <<"CHORD_MENU">> /\ u.target = "GRID" /\ u.shortcut = "none"
      /\ u.direct = 0 /\ u.dialog = "none" /\ ~u.length
  BY DEF ScreensOK, StackOK, WayBackOK, DialogOK, ModesOK, UiType
<1>2. /\ w \in UiType /\ w.notes = u.notes /\ w.quick = FALSE
      /\ w.shown = w.draft[w.menu]
      /\ w.mode = u.mode /\ w.stack = u.stack /\ w.target = u.target
      /\ w.shortcut = u.shortcut /\ w.direct = u.direct /\ w.dialog = u.dialog
      /\ w.length = u.length
  BY ParamsDrawn
<1>3. v = OpenedAlone(w, "CHORD_PARAMS", {"CHORD_MENU", "STEP_PIANO"})
  BY DEF EnterChordParams
<1> HIDE DEF w, v
<1>4. v = [w EXCEPT !.mode = "CHORD_PARAMS", !.stack = <<"CHORD_MENU", "CHORD_PARAMS">>]
  <2>1. w.stack = <<"CHORD_MENU">> /\ "CHORD_MENU" \in {"CHORD_MENU", "STEP_PIANO"}
    BY <1>1, <1>2
  <2> QED
    BY <1>3, <2>1, OpenedOverMenu
<1>5. "CHORD_PARAMS" \in Modes /\ <<"CHORD_MENU", "CHORD_PARAMS">> \in Stacks
  BY ScreenNames, StacksOfModes
<1>6. /\ v \in UiType /\ v.mode = "CHORD_PARAMS" /\ v.stack = <<"CHORD_MENU", "CHORD_PARAMS">>
      /\ v.notes = u.notes /\ v.shown = v.draft[v.menu] /\ v.quick = FALSE
      /\ v.target = "GRID" /\ v.shortcut = "none" /\ v.direct = 0 /\ v.dialog = "none"
      /\ ~v.length
  BY <1>1, <1>2, <1>4, <1>5 DEF UiType
<1>7. ScreensOK(v) /\ CopyOK(v)
  BY <1>6 DEF ScreensOK, StackOK, WayBackOK, DialogOK, ModesOK, CopyOK, UserModes, Menus
<1> QED
  BY <1>6, <1>7 DEF Good, v

LEMMA ChooserIsGood ==
  ASSUME NEW u, Good(u), u.mode = "STEP_PIANO", ~u.length, ~AskingBar(u)
  PROVE  Good(EnterChordFromBarEditor(u)) /\ EnterChordFromBarEditor(u).notes = u.notes
<1> DEFINE b == u.selected
           t == [u EXCEPT !.target = "BAR", !.shortcut = "CHORD", !.direct = b]
           w == RefreshChordParams(Hydrated([t EXCEPT !.selected = b, !.menu = b,
                                               !.quick = FALSE, !.action = "MAIN"], b))
           v == EnterChordFromBarEditor(u)
<1>1. /\ u \in UiType /\ b \in Bars /\ b # 0
      /\ u.stack = <<"GRID", "STEP_PIANO">> /\ u.dialog = "none"
  BY UiAssumption DEF Good, ScreensOK, StackOK, WayBackOK, DialogOK, ModesOK, UiType, AskingBar
<1>2. v = OpenedAlone(w, "CHORD_PARAMS", {"CHORD_MENU", "STEP_PIANO"})
  BY DEF EnterChordFromBarEditor, EnterChordParams
<1> HIDE DEF b, v
<1>3. /\ t \in UiType /\ t.stack = u.stack /\ t.target = "BAR" /\ t.shortcut = "CHORD"
      /\ t.direct = b /\ t.dialog = "none" /\ ~t.length /\ t.notes = u.notes
  BY <1>1 DEF UiType
<1> HIDE DEF t
<1>4. /\ w \in UiType /\ w.notes = t.notes /\ w.quick = FALSE
      /\ w.shown = w.draft[w.menu] /\ w.stack = t.stack /\ w.target = t.target
      /\ w.shortcut = t.shortcut /\ w.direct = t.direct /\ w.dialog = t.dialog
      /\ w.length = t.length
  BY <1>1, <1>3, ParamsDrawn
<1> HIDE DEF w
<1>5. v = [w EXCEPT !.mode = "CHORD_PARAMS", !.stack = <<"GRID", "STEP_PIANO", "CHORD_PARAMS">>]
  <2>1. w.stack = <<"GRID", "STEP_PIANO">>
    BY <1>1, <1>3, <1>4
  <2> QED
    BY <1>2, <2>1, OpenedOverEditor
<1>6. "CHORD_PARAMS" \in Modes /\ <<"GRID", "STEP_PIANO", "CHORD_PARAMS">> \in Stacks
  BY ScreenNames, StacksOfModes
<1>7. /\ v \in UiType /\ v.mode = "CHORD_PARAMS"
      /\ v.stack = <<"GRID", "STEP_PIANO", "CHORD_PARAMS">>
      /\ v.notes = u.notes /\ v.shown = v.draft[v.menu] /\ v.quick = FALSE
      /\ v.target = "BAR" /\ v.shortcut = "CHORD" /\ v.direct = b /\ v.dialog = "none"
      /\ ~v.length
  BY <1>1, <1>3, <1>4, <1>5, <1>6 DEF UiType
<1>8. ScreensOK(v) /\ CopyOK(v)
  BY <1>7 DEF ScreensOK, StackOK, WayBackOK, DialogOK, ModesOK, CopyOK, UserModes, Menus
<1> QED
  BY <1>7, <1>8 DEF Good, v

LEMMA QuickTimingIsGood ==
  ASSUME NEW u, Good(u), u.mode = "GRID", NEW b \in Bars
  PROVE  Good(QuickTiming(u, b)) /\ QuickTiming(u, b).notes = u.notes
<1> DEFINE t == [u EXCEPT !.mode = "CHORD_PARAMS"]
           w == RefreshChordParams(Hydrated([t EXCEPT !.selected = b, !.menu = b,
                                               !.quick = TRUE, !.action = "MAIN"], b))
           v == QuickTiming(u, b)
<1>1. /\ u \in UiType /\ u.stack = <<"GRID">> /\ ~u.length
      /\ u.target = "GRID" /\ u.shortcut = "none" /\ u.direct = 0 /\ u.dialog = "none"
  BY DEF Good, ScreensOK, StackOK, ModesOK, WayBackOK, DialogOK, UiType
<1>2. [u EXCEPT !.selected = b, !.menu = b, !.quick = TRUE, !.mode = "CHORD_PARAMS",
                !.action = "MAIN"]
        = [t EXCEPT !.selected = b, !.menu = b, !.quick = TRUE, !.action = "MAIN"]
  BY <1>1 DEF UiType
<1>3. v = w
  BY <1>2 DEF QuickTiming
<1> HIDE DEF v
<1>4. /\ t \in UiType /\ t.mode = "CHORD_PARAMS" /\ t.stack = <<"GRID">> /\ ~t.length
      /\ t.target = "GRID" /\ t.shortcut = "none" /\ t.direct = 0 /\ t.dialog = "none"
      /\ t.notes = u.notes
  BY <1>1, ScreenNames DEF UiType
<1> HIDE DEF t
<1>5. /\ w \in UiType /\ w.notes = t.notes /\ w.quick = TRUE
      /\ w.shown = w.draft[w.menu] /\ w.mode = t.mode /\ w.stack = t.stack
      /\ w.target = t.target /\ w.shortcut = t.shortcut /\ w.direct = t.direct
      /\ w.dialog = t.dialog /\ w.length = t.length
  BY <1>4, ParamsDrawn
<1> HIDE DEF w
<1>6. ScreensOK(w) /\ CopyOK(w)
  BY <1>4, <1>5
     DEF ScreensOK, StackOK, WayBackOK, DialogOK, ModesOK, CopyOK, UserModes, Menus
<1>7. Good(v) /\ v.notes = u.notes
  BY <1>3, <1>4, <1>5, <1>6 DEF Good
<1> QED
  BY <1>7 DEF v

-----------------------------------------------------------------------------
(* Handlers that keep the screens *)

LEMMA EditIsGood ==
  ASSUME NEW u, ScreensOK(u), NEW v \in UiType, SameScreens(u, v), CopyOK(v)
  PROVE  Good(v)
  BY SameScreensOK DEF Good

LEMMA EncoderIsGood ==
  ASSUME NEW u, Good(u), NEW e \in {"up", "down", "held"}
  PROVE  /\ Good([u EXCEPT !.encoder = e])
         /\ SameScreens(u, [u EXCEPT !.encoder = e])
         /\ [u EXCEPT !.encoder = e].notes = u.notes
         /\ [u EXCEPT !.encoder = e].yes = u.yes
<1> DEFINE v == [u EXCEPT !.encoder = e]
<1>1. u \in UiType /\ ScreensOK(u) /\ CopyOK(u)
  BY DEF Good
<1>2. /\ v \in UiType /\ SameScreens(u, v) /\ v.notes = u.notes /\ v.yes = u.yes
      /\ v.shown = u.shown /\ v.draft = u.draft /\ v.menu = u.menu
  BY <1>1 DEF UiType, SameScreens
<1> HIDE DEF v
<1>3. CopyOK(v)
  BY <1>1, <1>2 DEF CopyOK, SameScreens
<1>4. Good(v)
  BY <1>1, <1>2, <1>3, EditIsGood
<1> QED
  BY <1>2, <1>4 DEF v

LEMMA MainIsGood ==
  ASSUME NEW u, Good(u), NEW m \in Range(MainModes)
  PROVE  Good([u EXCEPT !.main = m])
<1> DEFINE v == [u EXCEPT !.main = m]
<1>1. u \in UiType /\ ScreensOK(u) /\ CopyOK(u)
  BY DEF Good
<1>2. /\ v \in UiType /\ SameScreens(u, v)
      /\ v.shown = u.shown /\ v.draft = u.draft /\ v.menu = u.menu
  BY <1>1 DEF UiType, SameScreens
<1> HIDE DEF v
<1>3. CopyOK(v)
  BY <1>1, <1>2 DEF CopyOK, SameScreens
<1>4. Good(v)
  BY <1>1, <1>2, <1>3, EditIsGood
<1> QED
  BY <1>4 DEF v

LEMMA NotesAreGood ==
  ASSUME NEW u, Good(u), NEW n \in [Bars -> NoteValues]
  PROVE  Good([u EXCEPT !.notes = n]) /\ SameScreens(u, [u EXCEPT !.notes = n])
<1> DEFINE v == [u EXCEPT !.notes = n]
<1>1. u \in UiType /\ ScreensOK(u) /\ CopyOK(u)
  BY DEF Good
<1>2. /\ v \in UiType /\ SameScreens(u, v)
      /\ v.shown = u.shown /\ v.draft = u.draft /\ v.menu = u.menu
  BY <1>1 DEF UiType, SameScreens
<1> HIDE DEF v
<1>3. CopyOK(v)
  BY <1>1, <1>2 DEF CopyOK, SameScreens
<1>4. Good(v)
  BY <1>1, <1>2, <1>3, EditIsGood
<1> QED
  BY <1>2, <1>4 DEF v

LEMMA EditedBarIsGood ==
  ASSUME NEW u, Good(u), NEW v \in EditedBar(u)
  PROVE  Good(v)
<1>1. PICK n \in NoteValues : v = [u EXCEPT !.notes[u.selected] = n]
  BY DEF EditedBar
<1>2. u.notes \in [Bars -> NoteValues]
  BY DEF Good, UiType
<1>3. PICK m \in [Bars -> NoteValues] : m = [u.notes EXCEPT ![u.selected] = n]
  BY <1>2
<1>4. v = [u EXCEPT !.notes = m]
  BY <1>1, <1>3
<1> QED
  BY <1>4, NotesAreGood

(* A question is closed, or asked where its answer is taken. *)
LEMMA ClosedIsGood ==
  ASSUME NEW u, Good(u)
  PROVE  /\ Good([u EXCEPT !.dialog = "none"])
         /\ [u EXCEPT !.dialog = "none"].notes = u.notes
         /\ [u EXCEPT !.dialog = "none"].mode = u.mode
         /\ [u EXCEPT !.dialog = "none"].target = u.target
         /\ [u EXCEPT !.dialog = "none"].shortcut = u.shortcut
         /\ [u EXCEPT !.dialog = "none"].direct = u.direct
         /\ [u EXCEPT !.dialog = "none"].quick = u.quick
         /\ [u EXCEPT !.dialog = "none"].length = u.length
         /\ [u EXCEPT !.dialog = "none"].dialog = "none"
<1> DEFINE v == [u EXCEPT !.dialog = "none"]
<1>1. u \in UiType /\ ScreensOK(u) /\ CopyOK(u)
  BY DEF Good
<1>2. /\ v \in UiType /\ v.mode = u.mode /\ v.stack = u.stack /\ v.target = u.target
      /\ v.shortcut = u.shortcut /\ v.direct = u.direct /\ v.dialog = "none"
      /\ v.quick = u.quick /\ v.length = u.length /\ v.notes = u.notes
      /\ v.shown = u.shown /\ v.draft = u.draft /\ v.menu = u.menu
  BY <1>1 DEF UiType
<1> HIDE DEF v
<1>3. StackOK(v) /\ WayBackOK(v)
  BY <1>1, <1>2 DEF ScreensOK, StackOK, WayBackOK
<1>4. DialogOK(v) /\ ModesOK(v) /\ CopyOK(v)
  BY <1>1, <1>2 DEF ScreensOK, DialogOK, ModesOK, CopyOK
<1>5. Good(v)
  BY <1>2, <1>3, <1>4 DEF Good, ScreensOK
<1> QED
  BY <1>2, <1>5 DEF v

LEMMA AskedIsGood ==
  ASSUME NEW u, Good(u), NEW d \in {"replace", "CHORD", "TIMING", "ARP", "clear", "exit"},
         DialogOK([u EXCEPT !.dialog = d, !.yes = FALSE])
  PROVE  /\ Good([u EXCEPT !.dialog = d, !.yes = FALSE])
         /\ [u EXCEPT !.dialog = d, !.yes = FALSE].notes = u.notes
<1> DEFINE v == [u EXCEPT !.dialog = d, !.yes = FALSE]
<1>1. u \in UiType /\ ScreensOK(u) /\ CopyOK(u)
  BY DEF Good
<1>2. /\ v \in UiType /\ v.mode = u.mode /\ v.stack = u.stack /\ v.target = u.target
      /\ v.shortcut = u.shortcut /\ v.direct = u.direct
      /\ v.quick = u.quick /\ v.length = u.length /\ v.notes = u.notes
      /\ v.shown = u.shown /\ v.draft = u.draft /\ v.menu = u.menu
  BY <1>1 DEF UiType
<1>0. DialogOK(v)
  OBVIOUS
<1> HIDE DEF v
<1>3. StackOK(v) /\ WayBackOK(v)
  BY <1>1, <1>2 DEF ScreensOK, StackOK, WayBackOK
<1>4. ModesOK(v) /\ CopyOK(v)
  BY <1>1, <1>2 DEF ScreensOK, ModesOK, CopyOK
<1>5. Good(v)
  BY <1>0, <1>2, <1>3, <1>4 DEF Good, ScreensOK
<1> QED
  BY <1>2, <1>5 DEF v

-----------------------------------------------------------------------------
(* The chord chooser of the bar editor *)

LEMMA DirectIs ==
  ASSUME NEW u, Good(u)
  PROVE  /\ DirectActive(u) <=> u.direct # 0
         /\ DirectActive(u) => /\ u.mode = "CHORD_PARAMS" /\ u.target = "BAR"
                               /\ u.direct \in Bars /\ ~u.quick /\ ~u.length
         /\ u.target = "BAR" => ~u.quick /\ ~u.length
         /\ u.mode \notin {"CHORD_PARAMS", "TIMING_MENU", "ARP_MENU"} => u.target = "GRID"
         /\ u.mode # "STEP_PIANO" /\ ~Asking(u) => u.dialog = "none"
         /\ u.mode = "STEP_PIANO" => ~Asking(u)
  BY DEF Good, ScreensOK, WayBackOK, ModesOK, DialogOK, DirectActive, Asking, UiType

(* What a press may change of the notes: one bar. *)
OthersKept(u, v, b) == \A c \in Bars \ {b} : v.notes[c] = u.notes[c]

LEMMA PlacedIsGood ==
  ASSUME NEW u, Good(u), u.direct # 0, NEW d, NEW v \in Placed(u, d)
  PROVE  Good(v) /\ OthersKept(u, v, u.direct)
<1>1. PICK n \in NoteValues :
        v = ReturnToBarEditor([u EXCEPT !.notes[u.direct] = n, !.main = "STEP"])
  BY ChordTypes DEF Placed
<1>2. u \in UiType /\ ScreensOK(u) /\ u.target = "BAR" /\ u.direct \in Bars
  BY DirectIs DEF Good
<1> DEFINE w == [u EXCEPT !.notes[u.direct] = n, !.main = "STEP"]
<1>3. PICK m \in [Bars -> NoteValues] : m = [u.notes EXCEPT ![u.direct] = n]
  BY <1>2 DEF UiType
<1>4. w = [u EXCEPT !.notes = m, !.main = "STEP"]
  BY <1>3
<1>5. w \in UiType /\ SameScreens(u, w) /\ w.notes = m
  BY <1>2, <1>4, FooterIsKnown DEF UiType, SameScreens
<1> HIDE DEF w
<1>6. ScreensOK(w) /\ w.target = "BAR"
  BY <1>2, <1>5, SameScreensOK DEF SameScreens
<1>7. Good(ReturnToBarEditor(w)) /\ ReturnToBarEditor(w).notes = w.notes
  BY <1>5, <1>6, ReturnIsGood
<1>8. \A c \in Bars \ {u.direct} : m[c] = u.notes[c]
  BY <1>2, <1>3 DEF UiType
<1>9. v = ReturnToBarEditor(w)
  BY <1>1 DEF w
<1> QED
  BY <1>5, <1>7, <1>8, <1>9 DEF OthersKept

LEMMA CommitDirectIsGood ==
  ASSUME NEW u, Good(u), u.direct # 0, NEW d, NEW v \in CommitDirectChordToSlot(u, d)
  PROVE  Good(v) /\ OthersKept(u, v, u.direct)
<1>1. CASE v \in Placed(u, d)
  BY <1>1, PlacedIsGood
<1>2. CASE v = [u EXCEPT !.dialog = "replace", !.yes = FALSE]
  <2>1. [u EXCEPT !.dialog = "replace", !.yes = FALSE].dialog = "replace"
         /\ [u EXCEPT !.dialog = "replace", !.yes = FALSE].direct # 0
    BY DEF Good, UiType
  <2>2. DialogOK([u EXCEPT !.dialog = "replace", !.yes = FALSE])
    BY <2>1 DEF DialogOK
  <2>3. Good(v) /\ v.notes = u.notes
    BY <1>2, <2>2, AskedIsGood
  <2> QED
    BY <2>3 DEF OthersKept
<1> QED
  BY <1>1, <1>2 DEF CommitDirectChordToSlot

-----------------------------------------------------------------------------
(* The chord parameters *)

LEMMA RecBackIsGood ==
  ASSUME NEW u, Good(u), u.mode = "CHORD_PARAMS"
  PROVE  Good(RecBackToChordMenu(u))
<1>1. u \in UiType /\ ScreensOK(u) /\ u.target \in {"GRID", "BAR"}
  BY DEF Good, UiType
<1>2. CASE u.target = "BAR"
  BY <1>1, <1>2, ReturnIsGood DEF RecBackToChordMenu
<1>3. CASE u.target = "GRID" /\ u.quick
  <2> DEFINE w == [u EXCEPT !.quick = FALSE, !.main = "TIMING"]
  <2>1. w \in UiType /\ ~w.quick /\ ~w.length
    BY <1>1, FooterIsKnown DEF UiType, ScreensOK, ModesOK
  <2> HIDE DEF w
  <2>2. Good(ExitToGrid(w))
    BY <2>1, ExitToGridIsGood
  <2> QED
    BY <1>3, <2>2 DEF RecBackToChordMenu, w
<1>4. CASE u.target = "GRID" /\ ~u.quick
  <2> DEFINE v == [u EXCEPT !.mode = "CHORD_MENU", !.stack = <<"CHORD_MENU">>]
  <2>1. u.stack = <<"CHORD_MENU", "CHORD_PARAMS">>
    BY <1>1, <1>4 DEF ScreensOK, StackOK
  <2>2. Popped(u) = <<"CHORD_MENU">>
    BY <2>1, TwoScreens DEF Popped
  <2>3. RecBackToChordMenu(u) = v
    BY <1>4, <2>2 DEF RecBackToChordMenu
  <2>4. "CHORD_MENU" \in Modes /\ <<"CHORD_MENU">> \in Stacks
    BY ScreenNames, StacksOfModes
  <2>5. /\ v \in UiType /\ v.mode = "CHORD_MENU" /\ v.stack = <<"CHORD_MENU">>
        /\ v.quick = u.quick /\ v.length = u.length /\ v.target = u.target
        /\ v.shortcut = u.shortcut /\ v.direct = u.direct /\ v.dialog = u.dialog
    BY <1>1, <2>4 DEF UiType
  <2> HIDE DEF v
  <2>6. u.shortcut = "none" /\ u.direct = 0 /\ u.dialog = "none" /\ ~u.length
    BY <1>1, <1>4 DEF ScreensOK, WayBackOK, DialogOK, ModesOK, UiType
  <2>7. ScreensOK(v) /\ CopyOK(v)
    BY <1>4, <2>5, <2>6
       DEF ScreensOK, StackOK, WayBackOK, DialogOK, ModesOK, CopyOK, UserModes, Menus
  <2> QED
    BY <2>3, <2>5, <2>7 DEF Good
<1> QED
  BY <1>1, <1>2, <1>3, <1>4

LEMMA BackFromChordIsGood ==
  ASSUME NEW u \in UiType, ScreensOK(u), ~u.quick, ~u.length
  PROVE  Good(BackFromChord(u))
  BY ReturnIsGood, ExitToGridIsGood DEF BackFromChord

(* A set of numbers that has an element has a least one. *)
LEMMA LeastBarExists ==
  ASSUME NEW S \in SUBSET Nat, S # {}
  PROVE  \E x \in S : \A y \in S : x <= y
<1>1. PICK x \in S : \A y \in S : ~ (<<y, x>> \in OpToRel(<, Nat))
  BY NatLessThanWellFounded, WFMin
<1>2. \A y \in S : ~ (y < x)
  BY <1>1 DEF OpToRel
<1>3. \A y \in S : x <= y
  BY <1>2
<1> QED
  BY <1>3

LEMMA MinIsMember ==
  ASSUME NEW S \in SUBSET (1 .. 12), S # {}
  PROVE  Min(S) \in S
<1>1. S \in SUBSET Nat
  OBVIOUS
<1>2. \E x \in S : \A y \in S : x <= y
  BY <1>1, LeastBarExists
<1> QED
  BY <1>2 DEF Min

LEMMA MaxIsMember ==
  ASSUME NEW S \in SUBSET (1 .. 12), S # {}
  PROVE  Max(S) \in S
<1> DEFINE T == {t \in 0 .. 11 : 12 - t \in S}
<1>1. T \in SUBSET Nat
  OBVIOUS
<1>2. T # {}
  <2>1. PICK s : s \in S
    OBVIOUS
  <2>2. 12 - s \in 0 .. 11 /\ 12 - (12 - s) = s
    BY <2>1
  <2> QED
    BY <2>1, <2>2
<1>3. PICK t \in T : \A r \in T : t <= r
  BY <1>1, <1>2, LeastBarExists
<1>4. 12 - t \in S
  BY <1>3
<1>5. ASSUME NEW s \in S
      PROVE  s <= 12 - t
  <2>1. 12 - s \in 0 .. 11 /\ 12 - (12 - s) = s
    OBVIOUS
  <2>2. t <= 12 - s
    BY <1>3, <2>1
  <2>3. t \in 0 .. 11
    BY <1>3
  <2> QED
    BY <2>2, <2>3
<1> QED
  BY <1>4, <1>5 DEF Max

LEMMA NeighbourIsBar ==
  ASSUME NEW a, NEW b
  PROVE  Neighbour(a, b) \in Bars
<1> DEFINE before == {c \in Bars : c < b}
           after == {c \in Bars : c > b}
           below == IF before = {} THEN Bars ELSE before
           above == IF after = {} THEN Bars ELSE after
<1>1. below \subseteq Bars /\ below \in SUBSET (1 .. 12) /\ below # {}
  BY UiAssumption
<1>2. above \subseteq Bars /\ above \in SUBSET (1 .. 12) /\ above # {}
  BY UiAssumption
<1>3. Neighbour(a, b) = IF a = "PREV" THEN Max(below) ELSE Min(above)
  BY DEF Neighbour
<1> HIDE DEF below, above
<1>4. Max(below) \in Bars /\ Min(above) \in Bars
  BY <1>1, <1>2, MaxIsMember, MinIsMember
<1> QED
  BY <1>3, <1>4

LEMMA FooterIsGood ==
  ASSUME NEW u, Good(u), u.mode = "CHORD_PARAMS", NEW a
  PROVE  Good(Footer(u, a))
<1> DEFINE c == Committed(u)
           b == Neighbour(a, u.menu)
<1>1. u \in UiType /\ ScreensOK(u) /\ CopyOK(u)
  BY DEF Good
<1>2. /\ c \in UiType /\ SameScreens(u, c) /\ c.menu = u.menu /\ c.draft = u.draft
      /\ c.shown = u.shown
  BY <1>1, CommittedIs
<1>3. CASE a = "MAIN"
  BY <1>3, RecBackIsGood DEF Footer
<1>4. CASE a = "SAVE"
  <2> DEFINE v == [c EXCEPT !.main = IF u.quick THEN @ ELSE "STEP", !.action = "MAIN"]
  <2>1. Footer(u, a) = v
    BY <1>4 DEF Footer
  <2> HIDE DEF c
  <2>2. /\ v \in UiType /\ SameScreens(c, v) /\ v.menu = c.menu /\ v.draft = c.draft
        /\ v.shown = c.shown
    BY <1>2, FooterIsKnown DEF UiType, SameScreens
  <2> HIDE DEF v
  <2>3. SameScreens(u, v) /\ CopyOK(v)
    BY <1>1, <1>2, <2>2 DEF SameScreens, CopyOK
  <2> QED
    BY <1>1, <2>1, <2>2, <2>3, EditIsGood
<1>5. CASE a # "MAIN" /\ a # "SAVE"
  <2> DEFINE w == [c EXCEPT !.menu = b, !.selected = b, !.draft[b] = u.draft[u.menu]]
  <2>1. Footer(u, a) = RefreshChordParams(w)
    BY <1>5 DEF Footer
  <2>2. b \in Bars /\ u.draft[u.menu] \in Drafts
    BY <1>1, NeighbourIsBar DEF UiType
  <2> HIDE DEF c, b
  <2>3. w \in UiType /\ SameScreens(c, w)
    BY <1>2, <2>2 DEF UiType, SameScreens
  <2> HIDE DEF w
  <2>4. SameScreens(u, w)
    BY <1>2, <2>3 DEF SameScreens
  <2>5. Good(RefreshChordParams(w))
    BY <1>1, <2>3, <2>4, SameScreensOK, RefreshIsGood
  <2> QED
    BY <2>1, <2>5
<1> QED
  BY <1>3, <1>4, <1>5

LEMMA DirectFooterIsGood ==
  ASSUME NEW u, Good(u), u.direct # 0, NEW a, NEW v \in DirectFooter(u, a)
  PROVE  Good(v) /\ OthersKept(u, v, u.direct)
<1>1. CASE a = "SAVE"
  BY <1>1, CommitDirectIsGood DEF DirectFooter
<1>2. CASE a # "SAVE"
  <2> DEFINE w == [u EXCEPT !.action = "MAIN"]
  <2>1. v = RefreshChordParams(w)
    BY <1>2 DEF DirectFooter
  <2>2. u \in UiType /\ ScreensOK(u)
    BY DEF Good
  <2>3. w \in UiType /\ SameScreens(u, w) /\ w.notes = u.notes
    BY <2>2, FooterIsKnown DEF UiType, SameScreens
  <2> HIDE DEF w
  <2>4. Good(RefreshChordParams(w)) /\ RefreshChordParams(w).notes = u.notes
    BY <2>2, <2>3, SameScreensOK, RefreshIsGood, RefreshIs
  <2> QED
    BY <2>1, <2>4 DEF OthersKept
<1> QED
  BY <1>1, <1>2

LEMMA ParamActionIsGood ==
  ASSUME NEW u, Good(u), u.mode = "CHORD_PARAMS", NEW a \in Range(FooterKeys),
         NEW v \in HandleChordParamAction(u, a)
  PROVE  Good(v) /\ (DirectActive(u) => OthersKept(u, v, u.direct))
<1> DEFINE w == [u EXCEPT !.draft[u.menu] = u.shown, !.action = a]
<1>1. u \in UiType /\ ScreensOK(u) /\ CopyOK(u)
  BY DEF Good
<1>2. /\ w \in UiType /\ SameScreens(u, w) /\ w.notes = u.notes
      /\ w.shown = w.draft[w.menu]
  BY <1>1 DEF UiType, SameScreens
<1>3. v \in IF DirectActive(u) THEN DirectFooter(w, a) ELSE {Footer(w, a)}
  BY DEF HandleChordParamAction
<1> HIDE DEF w
<1>4. Good(w) /\ w.mode = "CHORD_PARAMS" /\ w.direct = u.direct
  BY <1>1, <1>2, EditIsGood DEF CopyOK, SameScreens
<1>5. CASE DirectActive(u)
  <2>1. w.direct # 0 /\ v \in DirectFooter(w, a)
    BY <1>3, <1>4, <1>5 DEF DirectActive
  <2>2. Good(v) /\ OthersKept(w, v, w.direct)
    BY <1>4, <2>1, DirectFooterIsGood
  <2> QED
    BY <1>2, <1>4, <2>2 DEF OthersKept
<1>6. CASE ~DirectActive(u)
  BY <1>3, <1>4, <1>6, FooterIsGood
<1> QED
  BY <1>5, <1>6

LEMMA SelectStepIsGood ==
  ASSUME NEW u, Good(u), u.mode \in {"CHORD_MENU", "CHORD_PARAMS"}, NEW b \in Bars
  PROVE  Good(SelectStep(u, b))
<1>1. u \in UiType /\ ScreensOK(u)
  BY DEF Good
<1>2. CASE u.mode = "CHORD_MENU"
  <2> DEFINE w == [u EXCEPT !.selected = b, !.menu = b]
             h == Hydrated(w, b)
             v == [h EXCEPT !.stack = <<"CHORD_MENU">>]
  <2>1. SelectStep(u, b) = v
    BY <1>2 DEF SelectStep
  <2>2. w \in UiType /\ SameScreens(u, w)
    BY <1>1 DEF UiType, SameScreens
  <2> HIDE DEF w
  <2>3. h \in UiType /\ SameScreens(w, h)
    BY <2>2, HydratedIs
  <2> HIDE DEF h
  <2>4. h.stack = <<"CHORD_MENU">> /\ h.mode = "CHORD_MENU"
    BY <1>1, <1>2, <2>2, <2>3 DEF SameScreens, ScreensOK, StackOK
  <2>5. v = h
    BY <2>3, <2>4 DEF UiType
  <2>6. SameScreens(u, h) /\ CopyOK(h)
    BY <2>2, <2>3, <2>4 DEF SameScreens, CopyOK
  <2> QED
    BY <1>1, <2>1, <2>3, <2>5, <2>6, EditIsGood
<1>3. CASE u.mode = "CHORD_PARAMS"
  <2> DEFINE c == Committed(u)
             w == [c EXCEPT !.selected = b, !.menu = b]
             h == Hydrated(w, b)
  <2>1. SelectStep(u, b) = RefreshChordParams(h)
    BY <1>3 DEF SelectStep
  <2>2. c \in UiType /\ SameScreens(u, c)
    BY <1>1, CommittedIs
  <2> HIDE DEF c
  <2>3. w \in UiType /\ SameScreens(c, w)
    BY <2>2 DEF UiType, SameScreens
  <2> HIDE DEF w
  <2>4. h \in UiType /\ SameScreens(w, h)
    BY <2>3, HydratedIs
  <2> HIDE DEF h
  <2>5. SameScreens(u, h)
    BY <2>2, <2>3, <2>4 DEF SameScreens
  <2>6. Good(RefreshChordParams(h))
    BY <1>1, <2>4, <2>5, SameScreensOK, RefreshIsGood
  <2> QED
    BY <2>1, <2>6
<1> QED
  BY <1>2, <1>3

LEMMA PlayParamsIsGood ==
  ASSUME NEW u, Good(u), u.mode = "CHORD_PARAMS", NEW v \in PlayChordParams(u)
  PROVE  Good(v) /\ (DirectActive(u) => v = u)
<1>1. u \in UiType /\ ScreensOK(u)
  BY DEF Good
<1>2. CASE DirectActive(u)
  BY <1>2 DEF PlayChordParams
<1>3. CASE ~DirectActive(u)
  <2> DEFINE m == IF u.quick THEN "TIMING" ELSE "STEP"
             c == Committed(u)
             w == [c EXCEPT !.main = m, !.quick = FALSE]
  <2>1. v = BackFromChord(w)
    BY <1>3 DEF PlayChordParams
  <2>2. m \in Range(MainModes)
    BY FooterIsKnown
  <2>3. c \in UiType /\ SameScreens(u, c)
    BY <1>1, CommittedIs
  <2> HIDE DEF c, m
  <2>4. /\ w \in UiType /\ w.mode = u.mode /\ w.stack = u.stack /\ w.target = u.target
        /\ w.shortcut = u.shortcut /\ w.direct = u.direct /\ w.dialog = u.dialog
        /\ w.quick = FALSE /\ w.length = u.length
    BY <2>2, <2>3 DEF UiType, SameScreens
  <2> HIDE DEF w
  <2>5. ~u.length
    BY <1>1 DEF ScreensOK, ModesOK
  <2>6. CASE u.target = "BAR"
    <3>1. ~u.quick /\ u.quick \in BOOLEAN
      BY <1>1, <2>6 DEF ScreensOK, WayBackOK, UiType
    <3>2. SameScreens(u, w)
      BY <2>4, <3>1 DEF SameScreens
    <3> QED
      BY <1>1, <1>3, <2>1, <2>4, <2>5, <3>2, SameScreensOK, BackFromChordIsGood
  <2>7. CASE u.target # "BAR"
    <3>1. v = ExitToGrid(w)
      BY <2>1, <2>4, <2>7 DEF BackFromChord
    <3> QED
      BY <1>3, <2>4, <2>5, <3>1, ExitToGridIsGood
  <2> QED
    BY <2>6, <2>7
<1> QED
  BY <1>2, <1>3

-----------------------------------------------------------------------------
(* The chord menu and the menus below it *)

LEMMA EnterUserMenuIsGood ==
  ASSUME NEW u, Good(u), u.mode = "CHORD_MENU"
  PROVE  Good(EnterUserChord(u, "USER_MENU"))
<1> DEFINE v == [u EXCEPT !.mode = "USER_MENU", !.stack = <<"CHORD_MENU", "USER_MENU">>]
<1>1. /\ u \in UiType /\ u.stack = <<"CHORD_MENU">> /\ ~u.quick /\ ~u.length
      /\ u.target = "GRID" /\ u.shortcut = "none" /\ u.direct = 0 /\ u.dialog = "none"
  BY DEF Good, ScreensOK, StackOK, ModesOK, WayBackOK, DialogOK, UiType
<1>2. EnterUserChord(u, "USER_MENU") = v
  <2>1. "CHORD_MENU" \in {"CHORD_MENU"}
    OBVIOUS
  <2>2. EnterUserChord(u, "USER_MENU") = OpenedAlone(u, "USER_MENU", {"CHORD_MENU"})
    BY DEF EnterUserChord
  <2> QED
    BY <1>1, <2>1, <2>2, OpenedOverMenu
<1>3. "USER_MENU" \in Modes /\ <<"CHORD_MENU", "USER_MENU">> \in Stacks
  BY ScreenNames, StacksOfModes
<1>4. /\ v \in UiType /\ v.mode = "USER_MENU" /\ v.stack = <<"CHORD_MENU", "USER_MENU">>
      /\ ~v.quick /\ ~v.length /\ v.target = "GRID" /\ v.shortcut = "none"
      /\ v.direct = 0 /\ v.dialog = "none"
  BY <1>1, <1>3 DEF UiType
<1> HIDE DEF v
<1>5. ScreensOK(v) /\ CopyOK(v)
  BY <1>4 DEF ScreensOK, StackOK, WayBackOK, DialogOK, ModesOK, CopyOK, UserModes, Menus
<1> QED
  BY <1>2, <1>4, <1>5 DEF Good

LEMMA EnterUserSubMenuIsGood ==
  ASSUME NEW u, Good(u), u.mode = "USER_MENU", NEW m \in UserModes
  PROVE  Good(EnterUserChord(u, m))
<1> DEFINE v == [u EXCEPT !.mode = m, !.stack = <<"CHORD_MENU", "USER_MENU", m>>]
<1>1. /\ u \in UiType /\ u.stack = <<"CHORD_MENU", "USER_MENU">> /\ ~u.quick /\ ~u.length
      /\ u.target = "GRID" /\ u.shortcut = "none" /\ u.direct = 0 /\ u.dialog = "none"
  BY DEF Good, ScreensOK, StackOK, ModesOK, WayBackOK, DialogOK, UiType
<1>2. EnterUserChord(u, m) = v
  <2>1. "USER_MENU" \in {"USER_MENU"} /\ m # "USER_MENU"
    BY DEF UserModes
  <2>2. EnterUserChord(u, m) = OpenedAlone(u, m, {"USER_MENU"})
    BY <2>1 DEF EnterUserChord
  <2> QED
    BY <1>1, <2>1, <2>2, OpenedOverUserMenu
<1>3. "CHORD_MENU" \in Modes /\ "USER_MENU" \in Modes /\ m \in Modes
  BY ScreenNames
<1>4. <<"CHORD_MENU", "USER_MENU", m>> \in Stacks
  BY <1>3, StacksOfModes
<1>5. /\ v \in UiType /\ v.mode = m /\ v.stack = <<"CHORD_MENU", "USER_MENU", v.mode>>
      /\ ~v.quick /\ ~v.length /\ v.target = "GRID" /\ v.shortcut = "none"
      /\ v.direct = 0 /\ v.dialog = "none"
  BY <1>1, <1>3, <1>4 DEF UiType
<1> HIDE DEF v
<1>6. ScreensOK(v) /\ CopyOK(v)
  BY <1>5 DEF ScreensOK, StackOK, WayBackOK, DialogOK, ModesOK, CopyOK, UserModes, Menus
<1> QED
  BY <1>2, <1>5, <1>6 DEF Good

LEMMA ExitUserSubMenuIsGood ==
  ASSUME NEW u, Good(u), u.mode \in UserModes
  PROVE  Good(ExitUserChordSubToMenu(u))
<1> DEFINE v == [u EXCEPT !.mode = "USER_MENU", !.stack = <<"CHORD_MENU", "USER_MENU">>]
<1>1. /\ u \in UiType /\ u.stack = <<"CHORD_MENU", "USER_MENU", u.mode>>
      /\ ~u.quick /\ ~u.length
      /\ u.target = "GRID" /\ u.shortcut = "none" /\ u.direct = 0 /\ u.dialog = "none"
  BY DEF Good, ScreensOK, StackOK, ModesOK, WayBackOK, DialogOK, UiType, UserModes
<1>2. Popped(u) = <<"CHORD_MENU", "USER_MENU">>
  BY <1>1, ThreeScreens DEF Popped
<1>3. ExitUserChordSubToMenu(u) = v
  BY <1>2 DEF ExitUserChordSubToMenu
<1>4. "USER_MENU" \in Modes /\ <<"CHORD_MENU", "USER_MENU">> \in Stacks
  BY ScreenNames, StacksOfModes
<1>5. /\ v \in UiType /\ v.mode = "USER_MENU" /\ v.stack = <<"CHORD_MENU", "USER_MENU">>
      /\ ~v.quick /\ ~v.length /\ v.target = "GRID" /\ v.shortcut = "none"
      /\ v.direct = 0 /\ v.dialog = "none"
  BY <1>1, <1>4 DEF UiType
<1> HIDE DEF v
<1>6. ScreensOK(v) /\ CopyOK(v)
  BY <1>5 DEF ScreensOK, StackOK, WayBackOK, DialogOK, ModesOK, CopyOK, UserModes, Menus
<1> QED
  BY <1>3, <1>5, <1>6 DEF Good

LEMMA BackToChordMenuIsGood ==
  ASSUME NEW u, Good(u), u.mode = "USER_MENU"
  PROVE  /\ Good([u EXCEPT !.mode = "CHORD_MENU", !.stack = Popped(u)])
         /\ Good([u EXCEPT !.mode = "GRID", !.stack = <<"GRID">>])
<1> DEFINE v == [u EXCEPT !.mode = "CHORD_MENU", !.stack = <<"CHORD_MENU">>]
           w == [u EXCEPT !.mode = "GRID", !.stack = <<"GRID">>]
<1>1. /\ u \in UiType /\ u.stack = <<"CHORD_MENU", "USER_MENU">>
      /\ ~u.quick /\ ~u.length
      /\ u.target = "GRID" /\ u.shortcut = "none" /\ u.direct = 0 /\ u.dialog = "none"
  BY DEF Good, ScreensOK, StackOK, ModesOK, WayBackOK, DialogOK, UiType, UserModes
<1>2. Popped(u) = <<"CHORD_MENU">>
  BY <1>1, TwoScreens DEF Popped
<1>3. /\ "CHORD_MENU" \in Modes /\ <<"CHORD_MENU">> \in Stacks
      /\ "GRID" \in Modes /\ <<"GRID">> \in Stacks
  BY ScreenNames, StacksOfModes
<1>4. /\ v \in UiType /\ v.mode = "CHORD_MENU" /\ v.stack = <<"CHORD_MENU">>
      /\ ~v.quick /\ ~v.length /\ v.target = "GRID" /\ v.shortcut = "none"
      /\ v.direct = 0 /\ v.dialog = "none"
  BY <1>1, <1>3 DEF UiType
<1>5. /\ w \in UiType /\ w.mode = "GRID" /\ w.stack = <<"GRID">>
      /\ ~w.quick /\ ~w.length /\ w.target = "GRID" /\ w.shortcut = "none"
      /\ w.direct = 0 /\ w.dialog = "none"
  BY <1>1, <1>3 DEF UiType
<1> HIDE DEF v, w
<1>6. ScreensOK(v) /\ CopyOK(v)
  BY <1>4 DEF ScreensOK, StackOK, WayBackOK, DialogOK, ModesOK, CopyOK, UserModes, Menus
<1>7. ScreensOK(w) /\ CopyOK(w)
  BY <1>5 DEF ScreensOK, StackOK, WayBackOK, DialogOK, ModesOK, CopyOK, UserModes, Menus
<1>8. Good(v) /\ Good(w)
  BY <1>4, <1>5, <1>6, <1>7 DEF Good
<1> QED
  BY <1>2, <1>8 DEF v, w

LEMMA ClearInMenuIsGood ==
  ASSUME NEW u, Good(u), u.mode = "CHORD_MENU", NEW press \in BOOLEAN,
         NEW v \in ClearInMenu(u, press)
  PROVE  Good(v)
<1> DEFINE w == [u EXCEPT !.draft[u.menu] = None, !.main = "STEP"]
           c == Committed(w)
           x == [w EXCEPT !.notes[u.menu] = None]
<1>1. /\ u \in UiType /\ ScreensOK(u) /\ ~u.quick /\ ~u.length /\ u.target = "GRID"
      /\ u.menu \in Bars
  BY DEF Good, ScreensOK, ModesOK, WayBackOK, UiType
<1>2. ~DirectActive(u)
  BY <1>1 DEF DirectActive
<1>3. w \in UiType /\ SameScreens(u, w)
  BY <1>1, FooterIsKnown, ChordTypes DEF UiType, SameScreens
<1>4. v \in {ExitToGrid(c), BackFromChord(x)}
  BY <1>2 DEF ClearInMenu
<1> HIDE DEF w
<1>5. c \in UiType /\ SameScreens(w, c)
  BY <1>3, CommittedIs
<1>6. x \in UiType /\ SameScreens(w, x)
  <2>1. None \in NoteValues
    BY ChordTypes
  <2> QED
    BY <1>1, <1>3, <2>1 DEF UiType, SameScreens
<1> HIDE DEF c, x
<1>7. ~c.quick /\ ~c.length /\ SameScreens(u, x) /\ ~x.quick /\ ~x.length
  BY <1>1, <1>3, <1>5, <1>6 DEF SameScreens
<1>8. Good(ExitToGrid(c))
  BY <1>5, <1>7, ExitToGridIsGood
<1>9. Good(BackFromChord(x))
  BY <1>1, <1>6, <1>7, SameScreensOK, BackFromChordIsGood
<1> QED
  BY <1>4, <1>8, <1>9

LEMMA PickIsGood ==
  ASSUME NEW u, Good(u), u.mode = "CHORD_MENU", NEW press \in BOOLEAN,
         NEW v \in Pick(u, press)
  PROVE  Good(v)
<1>1. CASE v = EnterUserChord(u, "USER_MENU")
  BY <1>1, EnterUserMenuIsGood
<1>2. CASE v \in ClearInMenu(u, press)
  BY <1>2, ClearInMenuIsGood
<1>3. CASE v \in {EnterChordParams([u EXCEPT !.draft[u.menu] = t], u.menu) : t \in Types}
  <2>1. PICK t \in Types : v = EnterChordParams([u EXCEPT !.draft[u.menu] = t], u.menu)
    BY <1>3
  <2> DEFINE w == [u EXCEPT !.draft[u.menu] = t]
  <2>2. u \in UiType /\ ScreensOK(u) /\ u.menu \in Bars
    BY DEF Good, UiType
  <2>3. w \in UiType /\ SameScreens(u, w)
    BY <2>2, ChordTypes DEF UiType, SameScreens
  <2> HIDE DEF w
  <2>4. ScreensOK(w) /\ w.mode = "CHORD_MENU"
    BY <2>2, <2>3, SameScreensOK DEF SameScreens
  <2>5. Good(EnterChordParams(w, u.menu))
    BY <2>2, <2>3, <2>4, EnterChordParamsIsGood
  <2> QED
    BY <2>1, <2>5 DEF w
<1> QED
  BY <1>1, <1>2, <1>3 DEF Pick

LEMMA UserMenuPlayIsGood ==
  ASSUME NEW u, Good(u), u.mode = "USER_MENU", NEW v \in PlayUserChordMenu(u)
  PROVE  Good(v)
  BY EnterUserSubMenuIsGood DEF PlayUserChordMenu

LEMMA UserLoadPlayIsGood ==
  ASSUME NEW u, Good(u), u.mode = "USER_LOAD", NEW v \in PlayUserChordLoad(u)
  PROVE  Good(v)
<1>1. CASE v = u
  BY <1>1
<1>2. CASE v # u
  <2>1. /\ u \in UiType /\ ~u.quick /\ ~u.length /\ u.target = "GRID" /\ u.menu \in Bars
        /\ ~DirectActive(u)
    BY DEF Good, ScreensOK, ModesOK, WayBackOK, UiType, DirectActive
  <2>2. PICK n \in NoteValues :
          v = ExitToGrid([u EXCEPT !.notes[u.menu] = n, !.draft[u.menu] = None,
                                   !.main = "STEP"])
    BY <1>2, <2>1 DEF PlayUserChordLoad
  <2> DEFINE w == [u EXCEPT !.notes[u.menu] = n, !.draft[u.menu] = None, !.main = "STEP"]
  <2>3. w \in UiType /\ ~w.quick /\ ~w.length
    BY <2>1, FooterIsKnown, ChordTypes DEF UiType
  <2> HIDE DEF w
  <2>4. Good(ExitToGrid(w))
    BY <2>3, ExitToGridIsGood
  <2> QED
    BY <2>2, <2>4 DEF w
<1> QED
  BY <1>1, <1>2

LEMMA SaveMenuIsGood ==
  ASSUME NEW u, Good(u), u.mode \in Menus, u.dialog = "none", NEW v \in SaveMenu(u)
  PROVE  Good(v)
  BY ExitMenuIsGood DEF SaveMenu

LEMMA ExitStepPianoIsGood ==
  ASSUME NEW u, Good(u), u.mode = "STEP_PIANO"
  PROVE  Good(ExitStepPiano(u))
<1> DEFINE v == [u EXCEPT !.mode = "GRID", !.target = "GRID", !.shortcut = "none",
                          !.dialog = "none", !.length = FALSE, !.stack = <<"GRID">>]
<1>1. u \in UiType /\ u.stack = <<"GRID", "STEP_PIANO">> /\ ~u.quick /\ u.direct = 0
  BY DEF Good, ScreensOK, StackOK, ModesOK, WayBackOK, UiType
<1>2. Active(u) = "STEP_PIANO" /\ Popped(u) = <<"GRID">>
  BY <1>1, TwoScreens DEF Active, Popped
<1>3. ExitStepPiano(u) = v
  BY <1>2 DEF ExitStepPiano
<1>4. "GRID" \in Modes /\ <<"GRID">> \in Stacks
  BY ScreenNames, StacksOfModes
<1>5. /\ v \in UiType /\ v.mode = "GRID" /\ v.stack = <<"GRID">> /\ v.target = "GRID"
      /\ v.shortcut = "none" /\ v.direct = 0 /\ v.dialog = "none"
      /\ ~v.quick /\ ~v.length
  BY <1>1, <1>4 DEF UiType
<1> HIDE DEF v
<1>6. ScreensOK(v) /\ CopyOK(v)
  BY <1>5 DEF ScreensOK, StackOK, WayBackOK, DialogOK, ModesOK, CopyOK, UserModes, Menus
<1> QED
  BY <1>3, <1>5, <1>6 DEF Good

-----------------------------------------------------------------------------
(* One lemma per input, in any state that is good *)

LEMMA PlayedIsGood ==
  ASSUME NEW u, Good(u), ~Asking(u), NEW v \in Played(u)
  PROVE  Good(v)
<1>1. CASE u.mode = "CHORD_MENU"
  <2>1. v \in Pick(u, FALSE)
    BY <1>1 DEF Played, Menus, UserModes
  <2> QED
    BY <1>1, <2>1, PickIsGood
<1>2. CASE u.mode = "CHORD_PARAMS"
  <2>1. v \in PlayChordParams(u)
    BY <1>2 DEF Played, Menus, UserModes
  <2> QED
    BY <1>2, <2>1, PlayParamsIsGood
<1>3. CASE u.mode = "STEP_PIANO"
  <2>1. v = ExitStepPiano(u)
    BY <1>3 DEF Played, Menus, UserModes
  <2> QED
    BY <1>3, <2>1, ExitStepPianoIsGood
<1>4. CASE u.mode \in Menus
  <2>1. v = ExitMenu(u) \/ v \in SaveMenu(u)
    BY <1>4 DEF Played, Menus, UserModes
  <2>2. u.dialog = "none"
    BY <1>4, DirectIs DEF Menus
  <2> QED
    BY <1>4, <2>1, <2>2, ExitMenuIsGood, SaveMenuIsGood
<1>5. CASE u.mode = "USER_MENU"
  <2>1. v \in PlayUserChordMenu(u)
    BY <1>5 DEF Played, Menus, UserModes
  <2> QED
    BY <1>5, <2>1, UserMenuPlayIsGood
<1>6. CASE u.mode = "USER_LOAD"
  <2>1. v \in PlayUserChordLoad(u)
    BY <1>6 DEF Played, Menus, UserModes
  <2> QED
    BY <1>6, <2>1, UserLoadPlayIsGood
<1>7. CASE u.mode \in {"USER_CREATE", "USER_NAME"}
  <2>1. v = ExitUserChordSubToMenu(u)
    BY <1>7 DEF Played, Menus, UserModes
  <2> QED
    BY <1>7, <2>1, ExitUserSubMenuIsGood DEF UserModes
<1>8. CASE u.mode = "GRID"
  <2>1. v = u
    BY <1>8 DEF Played, Menus, UserModes
  <2> QED
    BY <2>1
<1>9. u.mode \in Modes
  BY DEF Good, UiType
<1> QED
  BY <1>1, <1>2, <1>3, <1>4, <1>5, <1>6, <1>7, <1>8, <1>9 DEF Modes, UserModes

LEMMA RecordedIsGood ==
  ASSUME NEW u, Good(u), ~Asking(u), NEW v \in Recorded(u)
  PROVE  Good(v)
<1>0. u \in UiType /\ ScreensOK(u) /\ u.mode \in Modes
  BY DEF Good, UiType
<1>1. CASE u.mode = "CHORD_MENU"
  <2>1. v = BackFromChord(u)
    BY <1>1 DEF Recorded, Menus, UserModes
  <2>2. ~u.quick /\ ~u.length
    BY <1>0, <1>1 DEF ScreensOK, ModesOK
  <2> QED
    BY <1>0, <2>1, <2>2, BackFromChordIsGood
<1>2. CASE u.mode = "CHORD_PARAMS"
  <2>1. v = RecBackToChordMenu(u)
    BY <1>2 DEF Recorded, Menus, UserModes
  <2> QED
    BY <1>2, <2>1, RecBackIsGood
<1>3. CASE u.mode = "STEP_PIANO"
  <2>1. PICK n \in [Bars -> NoteValues] : v = ExitStepPiano([u EXCEPT !.notes = n])
    BY <1>3 DEF Recorded, Menus, UserModes
  <2> DEFINE w == [u EXCEPT !.notes = n]
  <2>2. Good(w) /\ SameScreens(u, w)
    BY NotesAreGood
  <2> HIDE DEF w
  <2>3. w.mode = "STEP_PIANO"
    BY <1>3, <2>2 DEF SameScreens
  <2>4. Good(ExitStepPiano(w))
    BY <2>2, <2>3, ExitStepPianoIsGood
  <2> QED
    BY <2>1, <2>4 DEF w
<1>4. CASE u.mode \in Menus
  <2>1. v = ExitMenu(u)
    BY <1>4 DEF Recorded, Menus, UserModes
  <2>2. u.dialog = "none"
    BY <1>4, DirectIs DEF Menus
  <2> QED
    BY <1>4, <2>1, <2>2, ExitMenuIsGood
<1>5. CASE u.mode = "USER_MENU"
  <2>1. ~DirectActive(u)
    BY <1>5, DirectIs
  <2>2. v = [u EXCEPT !.mode = "GRID", !.stack = <<"GRID">>]
    BY <1>5, <2>1 DEF Recorded, Menus, UserModes
  <2> QED
    BY <1>5, <2>2, BackToChordMenuIsGood
<1>6. CASE u.mode \in UserModes
  <2>1. ~DirectActive(u)
    BY <1>6, DirectIs DEF UserModes
  <2>2. v = ExitUserChordSubToMenu(u)
    BY <1>6, <2>1 DEF Recorded, Menus, UserModes
  <2> QED
    BY <1>6, <2>2, ExitUserSubMenuIsGood
<1>7. CASE u.mode = "GRID"
  <2>1. v = u
    BY <1>7 DEF Recorded, Menus, UserModes
  <2> QED
    BY <2>1
<1> QED
  BY <1>0, <1>1, <1>2, <1>3, <1>4, <1>5, <1>6, <1>7 DEF Modes

LEMMA PianoKeyIsGood ==
  ASSUME NEW u, Good(u), u.mode = "STEP_PIANO", NEW k \in Keys, NEW v \in PianoKey(u, k)
  PROVE  Good(v)
<1>1. CASE AskingBar(u) \/ (u.length /\ k # 8)
  <2>1. v = u
    BY <1>1 DEF PianoKey
  <2> QED
    BY <2>1
<1>2. CASE ~AskingBar(u) /\ k = 8
  <2> DEFINE l == IF u.notes[u.selected] = None THEN FALSE ELSE ~ u.length
             w == [u EXCEPT !.length = l]
  <2>1. v = w
    <3>1. u.notes[u.selected] = None => v = [u EXCEPT !.length = FALSE]
      BY <1>2 DEF PianoKey
    <3>2. u.notes[u.selected] # None => v = [u EXCEPT !.length = ~ u.length]
      BY <1>2 DEF PianoKey
    <3> QED
      BY <3>1, <3>2
  <2>2. u \in UiType /\ ScreensOK(u) /\ l \in BOOLEAN
    BY DEF Good, UiType
  <2> HIDE DEF l
  <2>3. /\ w \in UiType /\ w.mode = u.mode /\ w.stack = u.stack /\ w.target = u.target
        /\ w.shortcut = u.shortcut /\ w.direct = u.direct /\ w.dialog = u.dialog
        /\ w.quick = u.quick
    BY <2>2 DEF UiType
  <2> HIDE DEF w
  <2>4. StackOK(w) /\ WayBackOK(w)
    BY <2>2, <2>3 DEF ScreensOK, StackOK, WayBackOK
  <2>5. DialogOK(w) /\ ModesOK(w) /\ CopyOK(w)
    BY <1>2, <2>2, <2>3 DEF ScreensOK, DialogOK, ModesOK, CopyOK, AskingBar
  <2> QED
    BY <2>1, <2>3, <2>4, <2>5 DEF Good, ScreensOK
<1>3. CASE ~AskingBar(u) /\ ~u.length /\ k = 1
  <2>1. v = EnterChordFromBarEditor(u)
    BY <1>3 DEF PianoKey
  <2> QED
    BY <1>3, <2>1, ChooserIsGood
<1>4. CASE ~AskingBar(u) /\ ~u.length /\ k \in {2, 3}
  <2>1. k = 2 => v = EnterFromBarEditor(u, "TIMING_MENU")
    BY <1>4 DEF PianoKey
  <2>2. k = 3 => v = EnterFromBarEditor(u, "ARP_MENU")
    BY <1>4 DEF PianoKey
  <2> QED
    BY <1>4, <2>1, <2>2, MenuFromEditorIsGood
<1>5. CASE ~AskingBar(u) /\ ~u.length /\ k = 9
  <2>1. v \in EditedBar(u)
    BY <1>5 DEF PianoKey
  <2> QED
    BY <2>1, EditedBarIsGood
<1>6. CASE ~AskingBar(u) /\ ~u.length /\ k = 10
  <2> DEFINE w == [u EXCEPT !.dialog = "clear", !.yes = FALSE]
  <2>1. v = w
    BY <1>6 DEF PianoKey
  <2>2. u \in UiType
    BY DEF Good
  <2>3. w.dialog = "clear" /\ w.mode = "STEP_PIANO" /\ ~w.length
    BY <1>6, <2>2 DEF UiType
  <2> HIDE DEF w
  <2>4. DialogOK(w)
    BY <2>3 DEF DialogOK
  <2> QED
    BY <2>1, <2>4, AskedIsGood DEF w
<1>7. CASE ~AskingBar(u) /\ ~u.length /\ k \notin {1, 2, 3, 8, 9, 10}
  <2>1. v = u
    BY <1>7 DEF PianoKey
  <2> QED
    BY <2>1
<1> QED
  BY <1>1, <1>2, <1>3, <1>4, <1>5, <1>6, <1>7

LEMMA ParamsKeyIsGood ==
  ASSUME NEW u, Good(u), u.mode = "CHORD_PARAMS", NEW k \in Keys,
         NEW v \in ChordParamsKey(u, k)
  PROVE  Good(v) /\ (DirectActive(u) => OthersKept(u, v, u.direct))
<1>1. CASE DirectActive(u)
  <2>1. v \in HandleChordParamAction(u, "SAVE") \/ v = u
    BY <1>1 DEF ChordParamsKey
  <2>2. "SAVE" \in Range(FooterKeys)
    <3>1. FooterKeys[4] = "SAVE" /\ 4 \in 1 .. 4
      BY DEF FooterKeys
    <3> QED
      BY <3>1, FooterIsKnown
  <2>3. CASE v = u
    BY <2>3 DEF OthersKept
  <2>4. CASE v \in HandleChordParamAction(u, "SAVE")
    BY <2>2, <2>4, ParamActionIsGood
  <2> QED
    BY <2>1, <2>3, <2>4
<1>2. CASE ~DirectActive(u) /\ k <= 4 /\ ~u.quick
  <2>1. v \in HandleChordParamAction(u, FooterKeys[k])
    BY <1>2 DEF ChordParamsKey
  <2>2. FooterKeys[k] \in Range(FooterKeys)
    BY <1>2, FooterIsKnown DEF Keys
  <2> QED
    BY <1>2, <2>1, <2>2, ParamActionIsGood
<1>3. CASE ~DirectActive(u) /\ ~ (k <= 4 /\ ~u.quick)
  <2>1. PICK b \in Bars : v = SelectStep(u, b)
    BY <1>3 DEF ChordParamsKey
  <2> QED
    BY <1>3, <2>1, SelectStepIsGood
<1> QED
  BY <1>1, <1>2, <1>3

LEMMA GridKeyIsGood ==
  ASSUME NEW u, Good(u), u.mode = "GRID", NEW k, NEW v \in GridKey(u, k)
  PROVE  Good(v)
<1>1. \/ v = u
      \/ \E b \in Bars : v = EnterStepPianoView(u, b)
      \/ \E b \in Bars : v = EnterChordMenu(u, b)
      \/ \E m \in Menus : v = Opened(u, m, {"GRID"})
  BY DEF GridKey, Menus
<1> QED
  BY <1>1, EnterStepPianoIsGood, EnterChordMenuIsGood, MenuFromGridIsGood

LEMMA ShiftGridKeyIsGood ==
  ASSUME NEW u, Good(u), u.mode = "GRID", NEW k, NEW v \in ShiftGridKey(u, k)
  PROVE  Good(v)
<1>1. \/ v = u
      \/ \E b \in Bars : v = QuickTiming(u, b)
      \/ \E m \in Menus : v = Opened(u, m, {"GRID"})
  BY DEF ShiftGridKey, Menus
<1> QED
  BY <1>1, QuickTimingIsGood, MenuFromGridIsGood

LEMMA KeyedIsGood ==
  ASSUME NEW u, Good(u), NEW k \in Keys, NEW shift \in BOOLEAN, NEW v \in Keyed(u, k, shift)
  PROVE  Good(v) /\ (DirectActive(u) => OthersKept(u, v, u.direct))
<1>0. DirectActive(u) => u.mode = "CHORD_PARAMS"
  BY DirectIs
<1>1. CASE u.mode = "GRID"
  <2>1. v \in ShiftGridKey(u, k) \/ v \in GridKey(u, k)
    BY <1>1 DEF Keyed
  <2> QED
    BY <1>0, <1>1, <2>1, ShiftGridKeyIsGood, GridKeyIsGood
<1>2. CASE u.mode = "STEP_PIANO"
  <2>1. v \in PianoKey(u, k)
    BY <1>2 DEF Keyed
  <2> QED
    BY <1>0, <1>2, <2>1, PianoKeyIsGood
<1>3. CASE u.mode = "CHORD_PARAMS"
  <2>1. v \in ChordParamsKey(u, k)
    BY <1>3 DEF Keyed
  <2> QED
    BY <1>3, <2>1, ParamsKeyIsGood
<1>4. CASE u.mode = "CHORD_MENU"
  <2>1. PICK b \in Bars : v = SelectStep(u, b)
    BY <1>4 DEF Keyed
  <2> QED
    BY <1>0, <1>4, <2>1, SelectStepIsGood
<1>5. CASE u.mode \notin {"GRID", "STEP_PIANO", "CHORD_PARAMS", "CHORD_MENU"}
  <2>1. v = u
    BY <1>5 DEF Keyed
  <2> QED
    BY <2>1 DEF OthersKept
<1> QED
  BY <1>1, <1>2, <1>3, <1>4, <1>5

LEMMA PressedIsGood ==
  ASSUME NEW u, Good(u), u.mode # "STEP_PIANO", ~Asking(u), NEW shift \in BOOLEAN,
         NEW v \in Pressed(u, shift)
  PROVE  Good(v) /\ (DirectActive(u) => OthersKept(u, v, u.direct))
<1>0. /\ u \in UiType /\ ScreensOK(u) /\ u.mode \in Modes /\ u.selected \in Bars
      /\ u.action \in Range(FooterKeys) /\ u.dialog = "none"
      /\ DirectActive(u) => u.mode = "CHORD_PARAMS"
  BY DirectIs DEF Good, UiType
<1>1. CASE u.mode = "GRID"
  <2>1. \/ v = EnterChordMenu(u, u.selected)
        \/ v = Opened(u, "TIMING_MENU", {"GRID"})
        \/ v = u
    BY <1>1 DEF Pressed, Menus, UserModes
  <2>2. "TIMING_MENU" \in Menus
    BY DEF Menus
  <2> QED
    BY <1>0, <1>1, <2>1, <2>2, EnterChordMenuIsGood, MenuFromGridIsGood
<1>2. CASE u.mode = "CHORD_MENU"
  <2>1. v = u \/ v \in Pick(u, TRUE)
    BY <1>2 DEF Pressed, Menus, UserModes
  <2> QED
    BY <1>0, <1>2, <2>1, PickIsGood
<1>3. CASE u.mode = "CHORD_PARAMS"
  <2>1. CASE DirectActive(u)
    <3> DEFINE w == [u EXCEPT !.action = "MAIN"]
    <3>1. v = RefreshChordParams(w)
      BY <1>3, <2>1 DEF Pressed, Menus, UserModes
    <3>2. w \in UiType /\ SameScreens(u, w) /\ w.notes = u.notes
      BY <1>0, FooterIsKnown DEF UiType, SameScreens
    <3> HIDE DEF w
    <3>3. Good(RefreshChordParams(w)) /\ RefreshChordParams(w).notes = u.notes
      BY <1>0, <3>2, SameScreensOK, RefreshIsGood, RefreshIs
    <3> QED
      BY <3>1, <3>3 DEF OthersKept
  <2>2. CASE ~DirectActive(u)
    <3>1. v \in HandleChordParamAction(u, u.action) \/ v = RefreshChordParams(u)
      BY <1>3, <2>2 DEF Pressed, Menus, UserModes
    <3> QED
      BY <1>0, <1>3, <2>2, <3>1, ParamActionIsGood, RefreshIsGood
  <2> QED
    BY <2>1, <2>2
<1>4. CASE u.mode = "SONG_CHAIN"
  <2>1. v = ExitToGrid(u)
    BY <1>4 DEF Pressed, Menus, UserModes
  <2>2. ~u.quick /\ ~u.length
    BY <1>0, <1>4 DEF ScreensOK, ModesOK
  <2> QED
    BY <1>0, <1>4, <2>1, <2>2, ExitToGridIsGood
<1>5. CASE u.mode \in Menus /\ u.mode # "SONG_CHAIN"
  <2>1. v \in SaveMenu(u) \/ v = u
    BY <1>5 DEF Pressed, Menus, UserModes
  <2>2. u.mode # "CHORD_PARAMS"
    BY <1>5 DEF Menus
  <2> QED
    BY <1>0, <1>5, <2>1, <2>2, SaveMenuIsGood
<1>6. CASE u.mode = "USER_MENU"
  <2>1. \/ v = [u EXCEPT !.mode = "CHORD_MENU", !.stack = Popped(u)]
        \/ v \in PlayUserChordMenu(u)
    BY <1>6 DEF Pressed, Menus, UserModes
  <2> QED
    BY <1>0, <1>6, <2>1, BackToChordMenuIsGood, UserMenuPlayIsGood
<1>7. CASE u.mode = "USER_LOAD"
  <2>1. v = ExitUserChordSubToMenu(u) \/ v \in PlayUserChordLoad(u)
    BY <1>7 DEF Pressed, Menus, UserModes
  <2>2. u.mode \in UserModes
    BY <1>7 DEF UserModes
  <2> QED
    BY <1>0, <1>7, <2>1, <2>2, ExitUserSubMenuIsGood, UserLoadPlayIsGood
<1>8. CASE u.mode \in {"USER_CREATE", "USER_NAME"}
  <2>1. v = u
    BY <1>8 DEF Pressed, Menus, UserModes
  <2> QED
    BY <2>1 DEF OthersKept
<1> QED
  BY <1>0, <1>1, <1>2, <1>3, <1>4, <1>5, <1>6, <1>7, <1>8 DEF Modes, UserModes

-----------------------------------------------------------------------------
(* Answers, questions and turns *)

LEMMA AnswerExitIsGood ==
  ASSUME NEW u, Good(u), u.dialog \in {"CHORD", "TIMING", "ARP"}, NEW v \in AnswerExit(u)
  PROVE  Good(v) /\ (~u.yes \/ u.dialog = "CHORD" => v.notes = u.notes)
<1> DEFINE w == [u EXCEPT !.dialog = "none"]
<1>1. /\ Good(w) /\ w.notes = u.notes /\ w.mode = u.mode /\ w.target = u.target
      /\ w.direct = u.direct /\ w.shortcut = u.shortcut /\ w.dialog = "none"
      /\ w.quick = u.quick /\ w.length = u.length
  BY ClosedIsGood
<1>2. w \in UiType /\ ScreensOK(w) /\ u.yes \in BOOLEAN
  BY <1>1 DEF Good, UiType
<1>3. \/ ~u.yes /\ v = [w EXCEPT !.direct = 0]
      \/ /\ u.yes /\ u.dialog = "CHORD"
         /\ v = IF DirectActive(w) THEN ReturnToBarEditor(w)
                ELSE IF w.mode = "CHORD_PARAMS" THEN RecBackToChordMenu(w)
                ELSE BackFromChord(w)
      \/ u.yes /\ u.dialog # "CHORD" /\ v \in SaveMenu(w)
  BY <1>2 DEF AnswerExit
<1> HIDE DEF w
<1>4. CASE ~u.yes /\ v = [w EXCEPT !.direct = 0]
  <2>1. /\ v \in UiType /\ v.mode = w.mode /\ v.stack = w.stack /\ v.target = w.target
        /\ v.shortcut = w.shortcut /\ v.direct = 0 /\ v.dialog = "none"
        /\ v.quick = w.quick /\ v.length = w.length /\ v.notes = u.notes
        /\ v.shown = w.shown /\ v.draft = w.draft /\ v.menu = w.menu
    BY <1>1, <1>2, <1>4 DEF UiType
  <2>2. StackOK(v) /\ WayBackOK(v)
    BY <1>2, <2>1 DEF ScreensOK, StackOK, WayBackOK
  <2>3. DialogOK(v) /\ ModesOK(v) /\ CopyOK(v)
    BY <1>1, <1>2, <2>1 DEF Good, ScreensOK, DialogOK, ModesOK, CopyOK
  <2> QED
    BY <2>1, <2>2, <2>3 DEF Good, ScreensOK
<1>5. CASE /\ u.yes /\ u.dialog = "CHORD"
           /\ v = IF DirectActive(w) THEN ReturnToBarEditor(w)
                  ELSE IF w.mode = "CHORD_PARAMS" THEN RecBackToChordMenu(w)
                  ELSE BackFromChord(w)
  <2>1. w.mode = "CHORD_PARAMS" /\ w.target = "BAR"
    BY <1>1, <1>5 DEF Good, ScreensOK, DialogOK
  <2>2. v = ReturnToBarEditor(w)
    BY <1>5, <2>1 DEF RecBackToChordMenu
  <2> QED
    BY <1>1, <1>2, <2>1, <2>2, ReturnIsGood
<1>6. CASE u.yes /\ u.dialog # "CHORD" /\ v \in SaveMenu(w)
  <2>1. w.mode \in Menus
    BY <1>1, <1>6 DEF Good, ScreensOK, DialogOK, Menus
  <2> QED
    BY <1>1, <1>6, <2>1, SaveMenuIsGood
<1> QED
  BY <1>3, <1>4, <1>5, <1>6

LEMMA ShortPressIsGood ==
  ASSUME NEW u, Good(u), NEW v \in ShortPress(u)
  PROVE  /\ Good(v)
         /\ u.mode # "STEP_PIANO" /\ ~u.yes => v.notes = u.notes
         /\ DirectActive(u) => OthersKept(u, v, u.direct)
<1> DEFINE w == [u EXCEPT !.dialog = "none"]
<1>0. /\ Good(w) /\ w.notes = u.notes /\ w.mode = u.mode
      /\ w.direct = u.direct /\ w.dialog = "none"
  BY ClosedIsGood
<1>1. CASE u.mode = "STEP_PIANO" /\ AskingBar(u) /\ ~u.length
  <2>1. v \in AnswerBar(u)
    BY <1>1 DEF ShortPress
  <2>2. v = w \/ v \in EditedBar(w) \/ v = ExitStepPiano(w)
    BY <2>1 DEF AnswerBar
  <2>3. ~DirectActive(u)
    BY <1>1, DirectIs
  <2> HIDE DEF w
  <2> QED
    BY <1>0, <1>1, <2>2, <2>3, EditedBarIsGood, ExitStepPianoIsGood
<1>2. CASE u.mode # "STEP_PIANO" /\ u.dialog = "replace"
  <2>1. v \in AnswerReplace(u)
    BY <1>2 DEF ShortPress
  <2>2. \/ v = w /\ ~u.yes
        \/ v \in Placed(w, u.draft[u.menu]) /\ u.yes
    BY <2>1 DEF AnswerReplace
  <2>3. u.direct # 0
    BY <1>2 DEF Good, ScreensOK, DialogOK
  <2> HIDE DEF w
  <2>4. CASE v = w /\ ~u.yes
    BY <1>0, <2>4 DEF OthersKept
  <2>5. CASE v \in Placed(w, u.draft[u.menu]) /\ u.yes
    <3>1. Good(v) /\ OthersKept(w, v, w.direct)
      BY <1>0, <2>3, <2>5, PlacedIsGood
    <3> QED
      BY <1>0, <2>5, <3>1 DEF OthersKept
  <2> QED
    BY <2>2, <2>4, <2>5
<1>3. CASE u.mode # "STEP_PIANO" /\ Asking(u) /\ u.dialog # "replace"
  <2>1. v \in AnswerExit(u)
    BY <1>3 DEF ShortPress
  <2>2. u.dialog \in {"CHORD", "TIMING", "ARP"}
    BY <1>3 DEF Asking
  <2>3. DirectActive(u) => u.dialog = "CHORD"
    BY <2>2, DirectIs DEF Good, ScreensOK, DialogOK
  <2>4. Good(v) /\ (~u.yes \/ u.dialog = "CHORD" => v.notes = u.notes)
    BY <2>1, <2>2, AnswerExitIsGood
  <2> QED
    BY <2>3, <2>4 DEF OthersKept
<1>4. CASE /\ ~ (u.mode = "STEP_PIANO" /\ AskingBar(u) /\ ~u.length)
           /\ ~ (u.mode # "STEP_PIANO" /\ u.dialog = "replace")
           /\ ~ (u.mode # "STEP_PIANO" /\ Asking(u) /\ u.dialog # "replace")
  <2>1. v = u
    BY <1>4 DEF ShortPress
  <2> QED
    BY <2>1 DEF OthersKept
<1> QED
  BY <1>1, <1>2, <1>3, <1>4

LEMMA LongPressIsGood ==
  ASSUME NEW u, Good(u)
  PROVE  Good(LongPress(u)) /\ LongPress(u).notes = u.notes
<1> DEFINE v == LongPress(u)
<1>0. u \in UiType /\ u.target \in {"GRID", "BAR"}
  BY DEF Good, UiType
<1>1. \/ v = u
      \/ v = Ask(u, "exit") /\ u.mode = "STEP_PIANO" /\ ~u.length
      \/ v = Ask(u, "TIMING") /\ u.mode = "TIMING_MENU"
      \/ v = Ask(u, "ARP") /\ u.mode = "ARP_MENU" /\ u.target = "BAR"
      \/ /\ v = Ask(u, "CHORD") /\ u.mode \in {"CHORD_MENU", "CHORD_PARAMS"}
         /\ u.target = "BAR"
  BY DEF LongPress, DirectShortcutActive
<1> HIDE DEF v
<1>2. u.mode \in {"CHORD_MENU", "CHORD_PARAMS"} /\ u.target = "BAR" => u.mode = "CHORD_PARAMS"
  BY DirectIs
<1>3. CASE v = u
  BY <1>3 DEF v
<1>4. CASE v # u
  <2>1. PICK d \in {"CHORD", "TIMING", "ARP", "exit"} :
          /\ v = [u EXCEPT !.dialog = d, !.yes = FALSE]
          /\ d = "exit" => u.mode = "STEP_PIANO" /\ ~u.length
          /\ d = "TIMING" => u.mode = "TIMING_MENU"
          /\ d = "ARP" => u.mode = "ARP_MENU" /\ u.target = "BAR"
          /\ d = "CHORD" => u.mode = "CHORD_PARAMS" /\ u.target = "BAR"
    BY <1>1, <1>2, <1>4 DEF Ask
  <2>2. v.dialog = d /\ v.mode = u.mode /\ v.target = u.target /\ v.length = u.length
    BY <1>0, <2>1 DEF UiType
  <2>3. DialogOK(v)
    BY <2>1, <2>2 DEF DialogOK
  <2>4. Good(v) /\ v.notes = u.notes
    BY <2>1, <2>3, AskedIsGood
  <2> QED
    BY <2>4 DEF v
<1> QED
  BY <1>3, <1>4

LEMMA TurnedIsGood ==
  ASSUME NEW u, Good(u), NEW right \in BOOLEAN, NEW v \in Turned(u, right)
  PROVE  Good(v) /\ v.notes = u.notes
<1>0. u \in UiType /\ ScreensOK(u) /\ CopyOK(u)
  BY DEF Good
<1>1. CASE Asking(u) \/ AskingBar(u)
  <2>1. PICK b \in BOOLEAN : v = [u EXCEPT !.yes = b]
    <3>1. CASE Asking(u)
      BY <3>1 DEF Turned, Asking, AskingBar
    <3>2. CASE AskingBar(u)
      <4>1. v = [u EXCEPT !.yes = ~ u.yes]
        BY <3>2 DEF Turned, Asking, AskingBar
      <4> QED
        BY <4>1
    <3> QED
      BY <1>1, <3>1, <3>2
  <2>2. /\ v \in UiType /\ SameScreens(u, v) /\ v.notes = u.notes
        /\ v.shown = u.shown /\ v.draft = u.draft /\ v.menu = u.menu
    BY <1>0, <2>1 DEF UiType, SameScreens
  <2>3. CopyOK(v)
    BY <1>0, <2>2 DEF CopyOK, SameScreens
  <2> QED
    BY <1>0, <2>2, <2>3, EditIsGood
<1>2. CASE u.dialog = "none" /\ u.mode = "CHORD_PARAMS"
  <2>1. u.shown \in Drafts
    BY <1>0 DEF UiType
  <2>2. PICK t \in Drafts : v = [u EXCEPT !.shown = t, !.draft[u.menu] = t]
    BY <1>2, <2>1 DEF Turned, Asking, AskingBar
  <2>3. /\ v \in UiType /\ SameScreens(u, v) /\ v.notes = u.notes
        /\ v.shown = v.draft[v.menu]
    BY <1>0, <2>2 DEF UiType, SameScreens
  <2> QED
    BY <1>0, <2>3, EditIsGood DEF CopyOK
<1>3. CASE ~Asking(u) /\ ~AskingBar(u) /\ ~ (u.dialog = "none" /\ u.mode = "CHORD_PARAMS")
  <2>1. v = u
    BY <1>3 DEF Turned, Asking, AskingBar
  <2> QED
    BY <2>1
<1> QED
  BY <1>1, <1>2, <1>3

-----------------------------------------------------------------------------
(* Every step *)

(* What a step keeps and what it may not change. *)
StepOK(u, v) ==
  /\ Good(v)
  /\ u.dialog # "none" /\ u.mode # "STEP_PIANO" /\ ~u.yes => v.notes = u.notes
  /\ DirectActive(u) => OthersKept(u, v, u.direct)

LEMMA ShiftTapStep == Good(ui) /\ ShiftTap => StepOK(ui, ui')
<1> SUFFICES ASSUME Good(ui), ShiftTap PROVE StepOK(ui, ui')
  OBVIOUS
<1>1. PICK k \in 1 .. 4 : ui' = [ui EXCEPT !.main = MainModes[(k % 4) + 1]]
  BY DEF ShiftTap
<1>2. (k % 4) + 1 \in 1 .. 4
  OBVIOUS
<1>3. MainModes[(k % 4) + 1] \in Range(MainModes)
  BY <1>2, FooterIsKnown
<1>4. Good(ui')
  BY <1>1, <1>3, MainIsGood
<1>5. ui.mode = "GRID" /\ ~DirectActive(ui) /\ ui.dialog = "none"
  BY DirectIs DEF ShiftTap, Good, ScreensOK, DialogOK, WayBackOK, UiType
<1> QED
  BY <1>4, <1>5 DEF StepOK

LEMMA PlayStep == Good(ui) /\ Play => StepOK(ui, ui')
<1> SUFFICES ASSUME Good(ui), Play PROVE StepOK(ui, ui')
  OBVIOUS
<1>1. ~Asking(ui) /\ ui' \in Played(ui)
  BY DEF Play
<1>2. Good(ui')
  BY <1>1, PlayedIsGood
<1>3. ui.dialog # "none" => ui.mode = "STEP_PIANO"
  BY <1>1, DirectIs
<1>4. DirectActive(ui) => ui' = ui
  <2> SUFFICES ASSUME DirectActive(ui) PROVE ui' = ui
    OBVIOUS
  <2>1. ui.mode = "CHORD_PARAMS"
    BY DirectIs
  <2>2. ui' \in PlayChordParams(ui)
    BY <1>1, <2>1 DEF Played, Menus, UserModes
  <2> QED
    BY <2>2 DEF PlayChordParams
<1> QED
  BY <1>2, <1>3, <1>4 DEF StepOK, OthersKept

LEMMA RecStep == Good(ui) /\ Rec => StepOK(ui, ui')
<1> SUFFICES ASSUME Good(ui), Rec PROVE StepOK(ui, ui')
  OBVIOUS
<1>1. ~Asking(ui) /\ ui' \in Recorded(ui)
  BY DEF Rec
<1>2. Good(ui')
  BY <1>1, RecordedIsGood
<1>3. ui.dialog # "none" => ui.mode = "STEP_PIANO"
  BY <1>1, DirectIs
<1>4. DirectActive(ui) => ui' = ui
  <2> SUFFICES ASSUME DirectActive(ui) PROVE ui' = ui
    OBVIOUS
  <2>1. ui.mode = "CHORD_PARAMS" /\ ui.target = "BAR"
    BY DirectIs
  <2>2. ui' = RecBackToChordMenu(ui)
    BY <1>1, <2>1 DEF Recorded, Menus, UserModes
  <2> QED
    BY <2>1, <2>2 DEF RecBackToChordMenu
<1> QED
  BY <1>2, <1>3, <1>4 DEF StepOK, OthersKept

LEMMA StepKeyStep ==
  ASSUME Good(ui), NEW k \in Keys, NEW shift \in BOOLEAN, StepKey(k, shift)
  PROVE  StepOK(ui, ui')
<1>1. ~Asking(ui) /\ ui' \in Keyed(ui, k, shift)
  BY DEF StepKey
<1>2. Good(ui') /\ (DirectActive(ui) => OthersKept(ui, ui', ui.direct))
  BY <1>1, KeyedIsGood
<1>3. ui.dialog # "none" => ui.mode = "STEP_PIANO"
  BY <1>1, DirectIs
<1> QED
  BY <1>2, <1>3 DEF StepOK

LEMMA EncoderDownStep ==
  ASSUME Good(ui), NEW shift \in BOOLEAN, EncoderDown(shift)
  PROVE  StepOK(ui, ui')
<1> DEFINE w == [ui EXCEPT !.encoder = "down"]
<1>1. Good(w) /\ SameScreens(ui, w) /\ w.notes = ui.notes
  BY EncoderIsGood
<1>2. ui' \in IF ui.mode = "STEP_PIANO" \/ Asking(ui) THEN {w} ELSE Pressed(w, shift)
  BY DEF EncoderDown
<1> HIDE DEF w
<1>3. CASE ui.mode = "STEP_PIANO" \/ Asking(ui)
  BY <1>1, <1>2, <1>3 DEF StepOK, OthersKept
<1>4. CASE ui.mode # "STEP_PIANO" /\ ~Asking(ui)
  <2>1. w.mode # "STEP_PIANO" /\ ~Asking(w) /\ ui' \in Pressed(w, shift)
    BY <1>1, <1>2, <1>4 DEF SameScreens, Asking
  <2>2. Good(ui') /\ (DirectActive(w) => OthersKept(w, ui', w.direct))
    BY <1>1, <2>1, PressedIsGood
  <2>3. DirectActive(ui) => OthersKept(ui, ui', ui.direct)
    BY <1>1, <2>2 DEF DirectActive, SameScreens, OthersKept
  <2>4. ui.dialog = "none"
    BY <1>4, DirectIs
  <2> QED
    BY <2>2, <2>3, <2>4 DEF StepOK
<1> QED
  BY <1>3, <1>4

LEMMA EncoderHeldStep == Good(ui) /\ EncoderHeld => StepOK(ui, ui')
<1> SUFFICES ASSUME Good(ui), EncoderHeld PROVE StepOK(ui, ui')
  OBVIOUS
<1> DEFINE w == [ui EXCEPT !.encoder = "held"]
<1>1. Good(w) /\ w.notes = ui.notes
  BY EncoderIsGood
<1>2. ui' = LongPress(w)
  BY DEF EncoderHeld
<1> HIDE DEF w
<1>3. Good(ui') /\ ui'.notes = ui.notes
  BY <1>1, <1>2, LongPressIsGood
<1> QED
  BY <1>3 DEF StepOK, OthersKept

LEMMA EncoderUpStep == Good(ui) /\ EncoderUp => StepOK(ui, ui')
<1> SUFFICES ASSUME Good(ui), EncoderUp PROVE StepOK(ui, ui')
  OBVIOUS
<1> DEFINE w == [ui EXCEPT !.encoder = "up"]
<1>1. Good(w) /\ SameScreens(ui, w) /\ w.notes = ui.notes /\ w.yes = ui.yes
  BY EncoderIsGood
<1>2. ui' = w \/ ui' \in ShortPress(w)
  BY DEF EncoderUp
<1> HIDE DEF w
<1>3. CASE ui' = w
  BY <1>1, <1>3 DEF StepOK, OthersKept
<1>4. CASE ui' \in ShortPress(w)
  <2>1. /\ Good(ui')
        /\ w.mode # "STEP_PIANO" /\ ~w.yes => ui'.notes = w.notes
        /\ DirectActive(w) => OthersKept(w, ui', w.direct)
    BY <1>1, <1>4, ShortPressIsGood
  <2>2. DirectActive(ui) => OthersKept(ui, ui', ui.direct)
    BY <1>1, <2>1 DEF DirectActive, SameScreens, OthersKept
  <2>3. ui.mode # "STEP_PIANO" /\ ~ui.yes => ui'.notes = ui.notes
    BY <1>1, <2>1 DEF SameScreens
  <2> QED
    BY <2>1, <2>2, <2>3 DEF StepOK
<1> QED
  BY <1>2, <1>3, <1>4

LEMMA TurnStep ==
  ASSUME Good(ui), NEW right \in BOOLEAN, Turn(right)
  PROVE  StepOK(ui, ui')
<1>1. Good(ui') /\ ui'.notes = ui.notes
  BY TurnedIsGood DEF Turn
<1> QED
  BY <1>1 DEF StepOK, OthersKept

LEMMA UiStep ==
  ASSUME Good(ui), [Next]_ui
  PROVE  StepOK(ui, ui')
<1>1. CASE UNCHANGED ui
  BY <1>1 DEF StepOK, OthersKept
<1>2. CASE Next
  BY <1>2, ShiftTapStep, PlayStep, RecStep, StepKeyStep, EncoderDownStep,
     EncoderHeldStep, EncoderUpStep, TurnStep DEF Next
<1> QED
  BY <1>1, <1>2

LEMMA UiStarts == Init => Good(ui)
<1> SUFFICES ASSUME Init PROVE Good(ui)
  OBVIOUS
<1> DEFINE first == Min(Bars)
<1>1. first \in Bars
  BY UiAssumption, MinIsMember
<1>2. /\ "GRID" \in Modes /\ <<"GRID">> \in Stacks /\ "MAIN" \in Range(FooterKeys)
      /\ "STEP" \in Range(MainModes) /\ None \in Drafts
      /\ [b \in Bars |-> None] \in [Bars -> Drafts]
  BY ScreenNames, StacksOfModes, FooterIsKnown, ChordTypes
<1>3. PICK n \in [Bars -> NoteValues] :
        ui = [mode |-> "GRID", main |-> "STEP", stack |-> <<"GRID">>, target |-> "GRID",
              shortcut |-> "none", direct |-> 0, dialog |-> "none", yes |-> FALSE,
              quick |-> FALSE, length |-> FALSE, selected |-> first, menu |-> first,
              draft |-> [b \in Bars |-> None], shown |-> None, action |-> "MAIN",
              encoder |-> "up", notes |-> n]
  BY DEF Init
<1> HIDE DEF first
<1>4. /\ ui \in UiType /\ ui.mode = "GRID" /\ ui.stack = <<"GRID">> /\ ui.target = "GRID"
      /\ ui.shortcut = "none" /\ ui.direct = 0 /\ ui.dialog = "none"
      /\ ~ui.quick /\ ~ui.length
  BY <1>1, <1>2, <1>3 DEF UiType
<1>5. ScreensOK(ui) /\ CopyOK(ui)
  BY <1>4 DEF ScreensOK, StackOK, WayBackOK, DialogOK, ModesOK, CopyOK, UserModes, Menus
<1> QED
  BY <1>4, <1>5 DEF Good

LEMMA UiInvariant == Spec => []Good(ui)
<1>1. Good(ui) /\ [Next]_ui => Good(ui)'
  BY UiStep DEF StepOK
<1> QED
  BY <1>1, UiStarts, PTL DEF Spec

-----------------------------------------------------------------------------
(* Whatever the inputs, the screen on top is the one of the mode that takes the
   inputs, and while the way back leads to the bar editor, the editor is on the stack
   and the mode is one that knows the way. *)
THEOREM ScreensStayConsistent == Spec => []ScreensAreConsistent
<1>1. Good(ui) => ScreensAreConsistent
  BY GoodIsConsistent
<1> QED
  BY <1>1, UiInvariant, PTL

(* The chord parameters on the screen are always those of the bar they will be stored
   in. *)
THEOREM ScreenShowsDraft == Spec => []ScreenCopyIsDraft
<1>1. Good(ui) => ScreenCopyIsDraft
  BY GoodIsConsistent
<1> QED
  BY <1>1, UiInvariant, PTL

(* No step changes a bar while a question waits for its YES, and the chord chooser of
   the bar editor changes no bar but its own. *)
THEOREM NotesAreProtected == Spec => MenusProtectNotes
<1>1. Good(ui) /\ [Next]_ui =>
        [ui.dialog # "none" /\ ui.mode # "STEP_PIANO" /\ ~ui.yes => ui'.notes = ui.notes]_ui
  BY UiStep DEF StepOK
<1>2. Good(ui) /\ [Next]_ui =>
        [DirectActive(ui) => \A b \in Bars \ {ui.direct} : ui'.notes[b] = ui.notes[b]]_ui
  BY UiStep DEF StepOK, OthersKept
<1>3. Spec => QuestionsProtectNotes
  BY <1>1, UiInvariant, PTL DEF Spec, QuestionsProtectNotes
<1>4. Spec => ChooserKeepsOtherBars
  BY <1>2, UiInvariant, PTL DEF Spec, ChooserKeepsOtherBars
<1> QED
  BY <1>3, <1>4 DEF MenusProtectNotes

-----------------------------------------------------------------------------
(* The way out *)

LEMMA SomeOfIsMember ==
  ASSUME NEW S, S # {}
  PROVE  SomeOf(S) \in S
  BY DEF SomeOf

(* One press of REC from the grid, or two. *)
OneOut(u) ==
  /\ Good(u) /\ ~Asking(u)
  /\ \/ u.mode \in {"STEP_PIANO", "CHORD_MENU", "USER_MENU"}
     \/ u.mode \in Menus /\ u.target = "GRID"
     \/ u.mode = "CHORD_PARAMS" /\ u.quick
TwoOut(u) == Good(u) /\ ~Asking(u) /\ ~DirectActive(u)

LEMMA RecIsTheWay ==
  ASSUME NEW u, TwoOut(u)
  PROVE  BackOut(u) \in Recorded(u)
<1>1. BackOut(u) = SomeOf(Recorded(u))
  BY DEF BackOut, TwoOut
<1>2. Recorded(u) # {}
  <2>1. CASE u.mode = "STEP_PIANO"
    <3>1. u.notes \in [Bars -> NoteValues]
      BY DEF TwoOut, Good, UiType
    <3>2. ExitStepPiano([u EXCEPT !.notes = u.notes]) \in Recorded(u)
      BY <2>1, <3>1 DEF Recorded, Menus, UserModes
    <3> QED
      BY <3>2
  <2>2. CASE u.mode # "STEP_PIANO"
    <3>1. u.mode \in Modes
      BY DEF TwoOut, Good, UiType
    <3> QED
      BY <2>2, <3>1 DEF Recorded, Menus, UserModes, Modes
  <2> QED
    BY <2>1, <2>2
<1> QED
  BY <1>1, <1>2, SomeOfIsMember

(* Where the ways out lead. *)
LEMMA ReturnLeadsToEditor ==
  ASSUME NEW u, Good(u), u.target = "BAR"
  PROVE  ReturnToBarEditor(u).mode = "STEP_PIANO"
<1>1. u \in UiType /\ ScreensOK(u)
  BY DEF Good
<1> DEFINE v == [u EXCEPT !.target = "GRID", !.shortcut = "none", !.direct = 0,
                          !.dialog = "none", !.mode = "STEP_PIANO",
                          !.stack = <<"GRID", "STEP_PIANO">>]
<1>2. ReturnToBarEditor(u) = v
  BY <1>1, ReturnIs
<1>3. v.mode = "STEP_PIANO"
  BY <1>1 DEF UiType
<1> QED
  BY <1>2, <1>3

LEMMA ExitLeadsToGrid ==
  ASSUME NEW u \in UiType
  PROVE  ExitToGrid(u).mode = "GRID"
  BY DEF ExitToGrid, NoShortcut, UiType

LEMMA ExitMenuLeadsOut ==
  ASSUME NEW u, Good(u), u.mode \in Menus
  PROVE  /\ u.target = "GRID" => ExitMenu(u).mode = "GRID"
         /\ ExitMenu(u).mode \in {"GRID", "STEP_PIANO"}
<1>1. u \in UiType /\ (u.target = "BAR" => u.mode \in {"TIMING_MENU", "ARP_MENU"})
  BY DEF Good, ScreensOK, WayBackOK, Menus
<1>2. CASE u.target = "BAR"
  BY <1>1, <1>2, ReturnLeadsToEditor DEF ExitMenu
<1>3. CASE u.target = "GRID"
  BY <1>1, <1>3 DEF ExitMenu, UiType
<1> QED
  BY <1>1, <1>2, <1>3 DEF UiType

LEMMA OneOutIsOut ==
  ASSUME NEW u, OneOut(u)
  PROVE  BackOut(u).mode = "GRID"
<1> DEFINE v == BackOut(u)
<1>1. Good(u) /\ ~Asking(u) /\ u \in UiType
  BY DEF OneOut, Good
<1>2. ~DirectActive(u)
  BY <1>1, DirectIs DEF OneOut, Menus
<1>3. v \in Recorded(u)
  BY <1>1, <1>2, RecIsTheWay DEF TwoOut
<1> HIDE DEF v
<1>4. CASE u.mode = "STEP_PIANO"
  <2>1. PICK n \in [Bars -> NoteValues] : v = ExitStepPiano([u EXCEPT !.notes = n])
    BY <1>3, <1>4 DEF Recorded, Menus, UserModes
  <2>2. ExitStepPiano([u EXCEPT !.notes = n]).mode = "GRID"
    BY <1>1 DEF ExitStepPiano, UiType
  <2> QED
    BY <2>1, <2>2 DEF v
<1>5. CASE u.mode = "CHORD_MENU"
  <2>1. v = BackFromChord(u)
    BY <1>3, <1>5 DEF Recorded, Menus, UserModes
  <2>2. u.target = "GRID"
    BY <1>1, <1>5, DirectIs
  <2> QED
    BY <1>1, <2>1, <2>2, ExitLeadsToGrid DEF BackFromChord, v
<1>6. CASE u.mode = "USER_MENU"
  <2>1. v = [u EXCEPT !.mode = "GRID", !.stack = <<"GRID">>]
    BY <1>2, <1>3, <1>6 DEF Recorded, Menus, UserModes
  <2>2. v.mode = "GRID"
    BY <1>1, <2>1 DEF UiType
  <2> QED
    BY <2>2 DEF v
<1>7. CASE u.mode \in Menus /\ u.target = "GRID"
  <2>1. v = ExitMenu(u)
    BY <1>3, <1>7 DEF Recorded, Menus, UserModes
  <2> QED
    BY <1>1, <1>7, <2>1, ExitMenuLeadsOut DEF v
<1>8. CASE u.mode = "CHORD_PARAMS" /\ u.quick
  <2>1. v = RecBackToChordMenu(u)
    BY <1>3, <1>8 DEF Recorded, Menus, UserModes
  <2>2. u.target # "BAR"
    BY <1>1, <1>8, DirectIs
  <2>3. v = ExitToGrid([u EXCEPT !.quick = FALSE, !.main = "TIMING"])
    BY <1>8, <2>1, <2>2 DEF RecBackToChordMenu
  <2>4. [u EXCEPT !.quick = FALSE, !.main = "TIMING"] \in UiType
    BY <1>1, FooterIsKnown DEF UiType
  <2> QED
    BY <2>3, <2>4, ExitLeadsToGrid DEF v
<1> QED
  BY <1>4, <1>5, <1>6, <1>7, <1>8 DEF OneOut

LEMMA TwoOutIsCloser ==
  ASSUME NEW u, TwoOut(u)
  PROVE  BackOut(u).mode = "GRID" \/ OneOut(BackOut(u))
<1> DEFINE v == BackOut(u)
<1>1. Good(u) /\ ~Asking(u) /\ u \in UiType /\ u.mode \in Modes /\ u.target \in {"GRID", "BAR"}
  BY DEF TwoOut, Good, UiType
<1>2. v \in Recorded(u)
  BY RecIsTheWay
<1>3. CASE OneOut(u)
  BY <1>3, OneOutIsOut
<1> HIDE DEF v
<1>4. Good(v)
  BY <1>1, <1>2, RecordedIsGood
<1>5. ASSUME v.mode = "STEP_PIANO" PROVE OneOut(v)
  BY <1>4, <1>5, DirectIs DEF OneOut
<1>6. CASE u.mode = "GRID"
  <2>1. v = u
    BY <1>2, <1>6 DEF Recorded, Menus, UserModes
  <2> QED
    BY <1>6, <2>1 DEF v
<1>7. CASE u.mode \in UserModes
  <2>1. v = ExitUserChordSubToMenu(u)
    BY <1>2, <1>7 DEF Recorded, Menus, UserModes, TwoOut
  <2>2. v.mode = "USER_MENU" /\ v.dialog = u.dialog
    BY <1>1, <2>1 DEF ExitUserChordSubToMenu, UiType
  <2>3. ~Asking(v)
    BY <1>1, <2>2 DEF Asking
  <2> QED
    BY <1>4, <2>2, <2>3 DEF OneOut, v
<1>8. CASE u.mode \in Menus /\ u.target = "BAR"
  <2>1. v = ExitMenu(u)
    BY <1>2, <1>8 DEF Recorded, Menus, UserModes
  <2> QED
    BY <1>1, <1>5, <1>8, <2>1, ExitMenuLeadsOut DEF v
<1>9. CASE u.mode = "CHORD_PARAMS" /\ u.target = "BAR"
  <2>1. v = ReturnToBarEditor(u)
    BY <1>2, <1>9 DEF Recorded, Menus, UserModes, RecBackToChordMenu, TwoOut
  <2> QED
    BY <1>1, <1>5, <1>9, <2>1, ReturnLeadsToEditor DEF v
<1>10. CASE u.mode = "CHORD_PARAMS" /\ u.target = "GRID" /\ ~u.quick
  <2>1. v = [u EXCEPT !.mode = "CHORD_MENU", !.stack = Popped(u)]
    BY <1>2, <1>10 DEF Recorded, Menus, UserModes, RecBackToChordMenu
  <2>2. v.mode = "CHORD_MENU" /\ v.dialog = u.dialog
    BY <1>1, <2>1 DEF UiType
  <2>3. ~Asking(v)
    BY <1>1, <2>2 DEF Asking
  <2> QED
    BY <1>4, <2>2, <2>3 DEF OneOut, v
<1> QED
  BY <1>1, <1>3, <1>6, <1>7, <1>8, <1>9, <1>10 DEF OneOut, Modes

(* A question is answered with YES. *)
LEMMA AnswerLeadsOut ==
  ASSUME NEW u, Good(u), Asking(u), u.encoder = "down", u.yes
  PROVE  TwoOut(BackOut(u))
<1> DEFINE l == [u EXCEPT !.encoder = "up"]
           w == [l EXCEPT !.dialog = "none"]
           v == BackOut(u)
<1>1. /\ Good(l) /\ l.mode = u.mode /\ l.dialog = u.dialog /\ l.yes = u.yes
      /\ l.target = u.target /\ l.direct = u.direct
  BY EncoderIsGood DEF SameScreens
<1>2. v = SomeOf(ShortPress(l))
  BY DEF BackOut
<1> HIDE DEF l
<1>3. /\ Good(w) /\ w.mode = l.mode /\ w.target = l.target /\ w.dialog = "none"
      /\ w.direct = l.direct
  BY <1>1, ClosedIsGood
<1>4. u.mode # "STEP_PIANO" /\ Asking(l)
  BY <1>1, DirectIs DEF Asking
<1>5. ASSUME NEW x, Good(x), x.mode \in {"GRID", "STEP_PIANO"} PROVE TwoOut(x)
  <2>1. ~Asking(x)
    BY <1>5 DEF Good, ScreensOK, DialogOK, WayBackOK, Asking, UiType
  <2> QED
    BY <1>5, <2>1, DirectIs DEF TwoOut
<1>6. CASE u.dialog = "replace"
  <2>1. ShortPress(l) = Placed(w, l.draft[l.menu])
    BY <1>1, <1>4, <1>6 DEF ShortPress, AnswerReplace, Asking, AskingBar
  <2>2. w.direct # 0
    BY <1>1, <1>3, <1>6 DEF Good, ScreensOK, DialogOK
  <2> HIDE DEF w
  <2>3. w.direct \in Bars /\ w.target = "BAR" /\ w \in UiType
    BY <1>3, <2>2, DirectIs DEF Good
  <2>4. Placed(w, l.draft[l.menu]) # {}
    <3>1. MajorC \in NoteValues \ {None}
      BY UiAssumption DEF NoteValues, Drafts
    <3>2. None \in NoteValues
      BY DEF NoteValues, Drafts
    <3> QED
      BY <3>1, <3>2 DEF Placed
  <2>5. v \in Placed(w, l.draft[l.menu])
    BY <1>2, <2>1, <2>4, SomeOfIsMember
  <2>6. PICK n \in NoteValues :
          v = ReturnToBarEditor([w EXCEPT !.notes[w.direct] = n, !.main = "STEP"])
    BY <2>5, ChordTypes DEF Placed
  <2>7. Good(v)
    BY <1>3, <2>2, <2>5, PlacedIsGood
  <2> DEFINE y == [w EXCEPT !.notes[w.direct] = n, !.main = "STEP"]
  <2>8. y \in UiType /\ SameScreens(w, y)
    BY <2>3, FooterIsKnown DEF UiType, SameScreens
  <2> HIDE DEF y
  <2>9. ReturnToBarEditor(y).mode = "STEP_PIANO"
    <3>1. y.target = "BAR" /\ ScreensOK(y)
      BY <1>3, <2>3, <2>8, SameScreensOK DEF Good, SameScreens
    <3>2. ReturnToBarEditor(y) = [y EXCEPT !.target = "GRID", !.shortcut = "none",
            !.direct = 0, !.dialog = "none", !.mode = "STEP_PIANO",
            !.stack = <<"GRID", "STEP_PIANO">>]
      BY <2>8, <3>1, ReturnIs
    <3>3. [y EXCEPT !.target = "GRID", !.shortcut = "none",
            !.direct = 0, !.dialog = "none", !.mode = "STEP_PIANO",
            !.stack = <<"GRID", "STEP_PIANO">>].mode = "STEP_PIANO"
      BY <2>8 DEF UiType
    <3> QED
      BY <3>2, <3>3
  <2> HIDE DEF v
  <2>10. v.mode = "STEP_PIANO"
    BY <2>6, <2>9 DEF y
  <2>11. TwoOut(v)
    BY <1>5, <2>7, <2>10
  <2> QED
    BY <2>11 DEF v
<1>7. CASE u.dialog \in {"CHORD", "TIMING", "ARP"}
  <2>1. ShortPress(l) = AnswerExit(l)
    BY <1>1, <1>4, <1>7 DEF ShortPress, Asking, AskingBar
  <2>2. CASE u.dialog = "CHORD"
    <3>1. w.mode = "CHORD_PARAMS" /\ w.target = "BAR"
      BY <1>1, <1>3, <2>2 DEF Good, ScreensOK, DialogOK
    <3>2. AnswerExit(l) = {ReturnToBarEditor(w)}
      BY <1>1, <2>2, <3>1 DEF AnswerExit, RecBackToChordMenu
    <3> HIDE DEF w, v
    <3>3. v = ReturnToBarEditor(w)
      BY <1>2, <2>1, <3>2, SomeOfIsMember
    <3>4. Good(v) /\ v.mode = "STEP_PIANO"
      BY <1>3, <3>1, <3>3, ReturnIsGood, ReturnLeadsToEditor DEF Good
    <3>5. TwoOut(v)
      BY <1>5, <3>4
    <3> QED
      BY <3>5 DEF v
  <2>3. CASE u.dialog \in {"TIMING", "ARP"}
    <3>1. w.mode \in Menus
      BY <1>1, <1>3, <2>3 DEF Good, ScreensOK, DialogOK, Menus
    <3>2. AnswerExit(l) = SaveMenu(w)
      BY <1>1, <2>3 DEF AnswerExit
    <3> HIDE DEF w, v
    <3>3. v \in SaveMenu(w)
      BY <1>2, <2>1, <3>2, SomeOfIsMember DEF SaveMenu
    <3>4. v = ExitMenu(w) \/ v = w
      BY <3>3 DEF SaveMenu
    <3>5. ASSUME v = ExitMenu(w) PROVE TwoOut(v)
      <4>1. Good(v) /\ v.mode \in {"GRID", "STEP_PIANO"}
        BY <1>3, <3>1, <3>5, ExitMenuIsGood, ExitMenuLeadsOut
      <4> QED
        BY <1>5, <4>1
    <3>6. ASSUME v = w PROVE TwoOut(v)
      <4>1. ~Asking(w) /\ ~DirectActive(w)
        BY <1>3, <3>1, DirectIs DEF Asking, Menus
      <4> QED
        BY <1>3, <3>6, <4>1 DEF TwoOut
    <3>7. TwoOut(v)
      BY <3>4, <3>5, <3>6
    <3> QED
      BY <3>7 DEF v
  <2> QED
    BY <1>7, <2>2, <2>3
<1> QED
  BY <1>6, <1>7 DEF Asking

(* The chord chooser is left with a long press, which asks. *)
LEMMA ChooserAsks ==
  ASSUME NEW u, Good(u), ~Asking(u), DirectActive(u)
  PROVE  /\ u.encoder = "down" =>
              Good(BackOut(u)) /\ Asking(BackOut(u)) /\ BackOut(u).encoder = "held"
         /\ u.encoder = "up" =>
              /\ Good(BackOut(u)) /\ ~Asking(BackOut(u)) /\ DirectActive(BackOut(u))
              /\ BackOut(u).encoder = "down"
         /\ u.encoder = "held" =>
              /\ Good(BackOut(u)) /\ ~Asking(BackOut(u)) /\ DirectActive(BackOut(u))
              /\ BackOut(u).encoder = "up"
<1>1. /\ u \in UiType /\ ScreensOK(u) /\ u.mode = "CHORD_PARAMS" /\ u.target = "BAR"
      /\ u.shortcut = "CHORD" /\ u.direct # 0
  BY DirectIs DEF Good, DirectActive
<1>2. ASSUME u.encoder = "down"
      PROVE  Good(BackOut(u)) /\ Asking(BackOut(u)) /\ BackOut(u).encoder = "held"
  <2> DEFINE w == [u EXCEPT !.encoder = "held"]
  <2>1. BackOut(u) = LongPress(w)
    BY <1>2 DEF BackOut
  <2>2. /\ Good(w) /\ w \in UiType /\ w.encoder = "held" /\ w.mode = "CHORD_PARAMS"
        /\ w.target = "BAR" /\ w.shortcut = "CHORD" /\ ~Asking(w)
    BY <1>1, EncoderIsGood DEF Asking, UiType
  <2> HIDE DEF w
  <2>3. LongPress(w) = [w EXCEPT !.dialog = "CHORD", !.yes = FALSE]
    BY <2>2 DEF LongPress, DirectShortcutActive, Ask
  <2>4. LongPress(w).dialog = "CHORD" /\ LongPress(w).encoder = "held"
    BY <2>2, <2>3 DEF UiType
  <2> QED
    BY <2>1, <2>2, <2>4, LongPressIsGood DEF Asking
<1>3. ASSUME u.encoder = "up"
      PROVE  /\ Good(BackOut(u)) /\ ~Asking(BackOut(u)) /\ DirectActive(BackOut(u))
             /\ BackOut(u).encoder = "down"
  <2> DEFINE t == [u EXCEPT !.action = "MAIN"]
             r == RefreshChordParams(t)
             v == [r EXCEPT !.encoder = "down"]
  <2>1. Pressed(u, FALSE) = {r}
    BY <1>1 DEF Pressed, Menus, UserModes
  <2>2. BackOut(u) = SomeOf({[x EXCEPT !.encoder = "down"] : x \in Pressed(u, FALSE)})
    BY <1>3 DEF BackOut
  <2>3. t \in UiType /\ SameScreens(u, t)
    BY <1>1, FooterIsKnown DEF UiType, SameScreens
  <2> HIDE DEF t
  <2>4. Good(r) /\ SameScreens(t, r)
    BY <1>1, <2>3, SameScreensOK, RefreshIsGood, RefreshIs
  <2> HIDE DEF r
  <2>5. BackOut(u) = v
    <3>1. BackOut(u) = SomeOf({v})
      BY <2>1, <2>2
    <3> QED
      BY <3>1, SomeOfIsMember
  <2>6. Good(v) /\ SameScreens(r, v) /\ v.encoder = "down"
    BY <2>4, EncoderIsGood DEF Good, UiType
  <2> HIDE DEF v
  <2>7. ~Asking(v) /\ DirectActive(v)
    BY <1>1, <2>3, <2>4, <2>6 DEF SameScreens, Asking, DirectActive
  <2> QED
    BY <2>5, <2>6, <2>7
<1>4. ASSUME u.encoder = "held"
      PROVE  /\ Good(BackOut(u)) /\ ~Asking(BackOut(u)) /\ DirectActive(BackOut(u))
             /\ BackOut(u).encoder = "up"
  <2> DEFINE v == [u EXCEPT !.encoder = "up"]
  <2>1. BackOut(u) = v
    BY <1>4 DEF BackOut
  <2>2. Good(v) /\ SameScreens(u, v) /\ v.encoder = "up"
    BY <1>1, EncoderIsGood DEF UiType
  <2> HIDE DEF v
  <2>3. ~Asking(v) /\ DirectActive(v)
    BY <2>2 DEF SameScreens, Asking, DirectActive
  <2> QED
    BY <2>1, <2>2, <2>3
<1> QED
  BY <1>2, <1>3, <1>4

(* Before that the question is turned to YES and the encoder pressed. *)
LEMMA QuestionIsAnswered ==
  ASSUME NEW u, Good(u), Asking(u)
  PROVE  /\ u.encoder = "held" =>
              Good(BackOut(u)) /\ Asking(BackOut(u)) /\ BackOut(u).encoder = "up"
         /\ u.encoder # "held" /\ ~u.yes =>
              /\ Good(BackOut(u)) /\ Asking(BackOut(u)) /\ BackOut(u).yes
              /\ BackOut(u).encoder = u.encoder
         /\ u.encoder = "up" /\ u.yes =>
              /\ Good(BackOut(u)) /\ Asking(BackOut(u)) /\ BackOut(u).yes
              /\ BackOut(u).encoder = "down"
<1>0. u \in UiType /\ u.yes \in BOOLEAN
  BY DEF Good, UiType
<1>1. ASSUME u.encoder = "held"
      PROVE  Good(BackOut(u)) /\ Asking(BackOut(u)) /\ BackOut(u).encoder = "up"
  <2> DEFINE v == [u EXCEPT !.encoder = "up"]
  <2>1. BackOut(u) = v
    BY <1>1 DEF BackOut
  <2>2. Good(v) /\ SameScreens(u, v) /\ v.encoder = "up"
    BY <1>0, EncoderIsGood DEF UiType
  <2> HIDE DEF v
  <2> QED
    BY <2>1, <2>2 DEF SameScreens, Asking
<1>2. ASSUME u.encoder # "held", ~u.yes
      PROVE  /\ Good(BackOut(u)) /\ Asking(BackOut(u)) /\ BackOut(u).yes
             /\ BackOut(u).encoder = u.encoder
  <2> DEFINE v == [u EXCEPT !.yes = TRUE]
  <2>1. Turned(u, TRUE) = {v}
    BY DEF Turned, Asking, AskingBar
  <2>2. BackOut(u) = SomeOf(Turned(u, TRUE))
    BY <1>2 DEF BackOut
  <2>3. v.dialog = u.dialog /\ v.encoder = u.encoder /\ v.yes
    BY <1>0 DEF UiType
  <2>4. Good(v)
    BY <2>1, TurnedIsGood
  <2> HIDE DEF v
  <2>5. BackOut(u) = v
    BY <2>1, <2>2, SomeOfIsMember
  <2> QED
    BY <2>3, <2>4, <2>5 DEF Asking
<1>3. ASSUME u.encoder = "up", u.yes
      PROVE  /\ Good(BackOut(u)) /\ Asking(BackOut(u)) /\ BackOut(u).yes
             /\ BackOut(u).encoder = "down"
  <2> DEFINE v == [u EXCEPT !.encoder = "down"]
  <2>1. BackOut(u) = v
    BY <1>3 DEF BackOut
  <2>2. Good(v) /\ SameScreens(u, v) /\ v.encoder = "down" /\ v.yes = u.yes
    BY <1>0, EncoderIsGood DEF UiType
  <2> HIDE DEF v
  <2> QED
    BY <1>3, <2>1, <2>2 DEF SameScreens, Asking
<1> QED
  BY <1>1, <1>2, <1>3

(* A walk along the way out, and that it has come to the grid by its end. *)
Walk(f) == \A k \in 0 .. 8 : f[k + 1] = BackOut(f[k])
Arrives(f, i) == \E k \in i .. 9 : f[k].mode = "GRID"

LEMMA ArrivesFromTwo ==
  ASSUME NEW f, Walk(f), NEW i \in 0 .. 7, TwoOut(f[i])
  PROVE  Arrives(f, i)
<1>1. f[i + 1] = BackOut(f[i]) /\ f[i + 2] = BackOut(f[i + 1])
  <2>1. i \in 0 .. 8 /\ i + 1 \in 0 .. 8 /\ (i + 1) + 1 = i + 2
    OBVIOUS
  <2> QED
    BY <2>1 DEF Walk
<1>2. f[i + 1].mode = "GRID" \/ OneOut(f[i + 1])
  BY <1>1, TwoOutIsCloser
<1>3. f[i + 1].mode = "GRID" \/ f[i + 2].mode = "GRID"
  BY <1>1, <1>2, OneOutIsOut
<1>4. i + 1 \in i .. 9 /\ i + 2 \in i .. 9
  OBVIOUS
<1> QED
  BY <1>3, <1>4 DEF Arrives

(* One step further away. *)
LEMMA ArrivesLater ==
  ASSUME NEW f, NEW i \in 0 .. 8, Arrives(f, i + 1)
  PROVE  Arrives(f, i)
  BY DEF Arrives

LEMMA ArrivesFromQuestion ==
  ASSUME NEW f, Walk(f), NEW i \in 0 .. 3, Good(f[i]), Asking(f[i])
  PROVE  Arrives(f, i)
<1> DEFINE Question(j) == Good(f[j]) /\ Asking(f[j]) /\ f[j].encoder # "held"
<1>0. \A j \in 0 .. 8 : f[j + 1] = BackOut(f[j])
  BY DEF Walk
<1>1. ASSUME NEW j \in 0 .. 6, Question(j), f[j].encoder = "down", f[j].yes
      PROVE  Arrives(f, j)
  <2>1. j \in 0 .. 8 /\ j + 1 \in 0 .. 7
    OBVIOUS
  <2>2. TwoOut(f[j + 1])
    BY <1>0, <1>1, <2>1, AnswerLeadsOut
  <2> QED
    BY <2>1, <2>2, ArrivesFromTwo, ArrivesLater
<1>2. ASSUME NEW j \in 0 .. 5, Question(j), f[j].yes
      PROVE  Arrives(f, j)
  <2>1. j \in 0 .. 8 /\ j + 1 \in 0 .. 6 /\ j \in 0 .. 6
    OBVIOUS
  <2>2. CASE f[j].encoder = "down"
    BY <1>1, <1>2, <2>1, <2>2
  <2>3. CASE f[j].encoder = "up"
    <3>1. Question(j + 1) /\ f[j + 1].yes /\ f[j + 1].encoder = "down"
      BY <1>0, <1>2, <2>1, <2>3, QuestionIsAnswered
    <3> QED
      BY <1>1, <2>1, <3>1, ArrivesLater
  <2> QED
    BY <1>2, <2>2, <2>3 DEF Good, UiType
<1>3. ASSUME NEW j \in 0 .. 4, Question(j)
      PROVE  Arrives(f, j)
  <2>1. j \in 0 .. 8 /\ j + 1 \in 0 .. 5 /\ j \in 0 .. 5
    OBVIOUS
  <2>2. CASE f[j].yes
    BY <1>2, <1>3, <2>1, <2>2
  <2>3. CASE ~f[j].yes
    <3>1. Question(j + 1) /\ f[j + 1].yes
      BY <1>0, <1>3, <2>1, <2>3, QuestionIsAnswered
    <3> QED
      BY <1>2, <2>1, <3>1, ArrivesLater
  <2> QED
    BY <2>2, <2>3
<1>4. i \in 0 .. 8 /\ i + 1 \in 0 .. 4 /\ i \in 0 .. 4
  OBVIOUS
<1>5. CASE f[i].encoder = "held"
  <2>1. Question(i + 1)
    BY <1>0, <1>4, <1>5, QuestionIsAnswered
  <2> QED
    BY <1>3, <1>4, <2>1, ArrivesLater
<1>6. CASE f[i].encoder # "held"
  BY <1>3, <1>4, <1>6
<1> QED
  BY <1>5, <1>6

LEMMA EverywhereLeadsOut ==
  ASSUME NEW f, Walk(f), Good(f[0])
  PROVE  Arrives(f, 0)
<1>0. \A j \in 0 .. 8 : f[j + 1] = BackOut(f[j])
  BY DEF Walk
<1> DEFINE Chooser(j) == Good(f[j]) /\ ~Asking(f[j]) /\ DirectActive(f[j])
<1>1. CASE Asking(f[0])
  BY <1>1, ArrivesFromQuestion
<1>2. CASE ~Asking(f[0]) /\ ~DirectActive(f[0])
  BY <1>2, ArrivesFromTwo DEF TwoOut
<1>3. ASSUME NEW j \in 0 .. 2, Chooser(j), f[j].encoder = "down"
      PROVE  Arrives(f, j)
  <2>1. j \in 0 .. 8 /\ j + 1 \in 0 .. 3
    OBVIOUS
  <2>2. Good(f[j + 1]) /\ Asking(f[j + 1])
    BY <1>0, <1>3, <2>1, ChooserAsks
  <2> QED
    BY <2>1, <2>2, ArrivesFromQuestion, ArrivesLater
<1>4. ASSUME NEW j \in 0 .. 1, Chooser(j), f[j].encoder = "up"
      PROVE  Arrives(f, j)
  <2>1. j \in 0 .. 8 /\ j + 1 \in 0 .. 2
    OBVIOUS
  <2>2. Chooser(j + 1) /\ f[j + 1].encoder = "down"
    BY <1>0, <1>4, <2>1, ChooserAsks
  <2> QED
    BY <1>3, <2>1, <2>2, ArrivesLater
<1>5. CASE Chooser(0) /\ f[0].encoder = "held"
  <2>1. 0 \in 0 .. 8 /\ 0 + 1 \in 0 .. 1
    OBVIOUS
  <2>2. Chooser(0 + 1) /\ f[0 + 1].encoder = "up"
    BY <1>0, <1>5, <2>1, ChooserAsks
  <2> QED
    BY <1>4, <2>1, <2>2, ArrivesLater
<1>6. f[0].encoder \in {"up", "down", "held"} /\ 0 \in 0 .. 1 /\ 0 \in 0 .. 2
  BY DEF Good, UiType
<1> QED
  BY <1>1, <1>2, <1>3, <1>4, <1>5, <1>6

(* The walk that starts where the interface stands. *)
LEMMA WalkExists ==
  ASSUME NEW u
  PROVE  \E f : f = [k \in 0 .. 9 |-> IF k = 0 THEN u ELSE BackOut(f[k - 1])]
<1> DEFINE B(x) == BackOut(x)
           s1 == B(u)
           s2 == B(s1)
           s3 == B(s2)
           s4 == B(s3)
           s5 == B(s4)
           s6 == B(s5)
           s7 == B(s6)
           s8 == B(s7)
           s9 == B(s8)
           f == [k \in 0 .. 9 |-> IF k = 0 THEN u ELSE IF k = 1 THEN s1 ELSE
                   IF k = 2 THEN s2 ELSE IF k = 3 THEN s3 ELSE IF k = 4 THEN s4 ELSE
                   IF k = 5 THEN s5 ELSE IF k = 6 THEN s6 ELSE IF k = 7 THEN s7 ELSE
                   IF k = 8 THEN s8 ELSE s9]
<1>1. /\ f[0] = u /\ f[1] = s1 /\ f[2] = s2 /\ f[3] = s3 /\ f[4] = s4
      /\ f[5] = s5 /\ f[6] = s6 /\ f[7] = s7 /\ f[8] = s8 /\ f[9] = s9
  OBVIOUS
<1>2. f = [k \in 0 .. 9 |-> f[k]]
  OBVIOUS
<1> HIDE DEF f
<1>3. \A k \in 0 .. 9 : f[k] = IF k = 0 THEN u ELSE BackOut(f[k - 1])
  BY <1>1
<1> HIDE DEF s1, s2, s3, s4, s5, s6, s7, s8, s9
<1>4. f = [k \in 0 .. 9 |-> IF k = 0 THEN u ELSE BackOut(f[k - 1])]
  BY <1>2, <1>3
<1> QED
  BY <1>4

(* Nobody is stuck: from every state there is a way to the grid of at most nine
   inputs. *)
THEOREM NobodyIsStuck == Spec => []EscapesToGrid
<1>1. Good(ui) => EscapesToGrid
  <2> SUFFICES ASSUME Good(ui) PROVE EscapesToGrid
    OBVIOUS
  <2> DEFINE after == CHOOSE f : f = [k \in 0 .. 9 |-> IF k = 0 THEN ui
                                                       ELSE BackOut(f[k - 1])]
  <2>1. after = [k \in 0 .. 9 |-> IF k = 0 THEN ui ELSE BackOut(after[k - 1])]
    BY WalkExists
  <2> HIDE DEF after
  <2>2. after[0] = ui
    BY <2>1
  <2>3. ASSUME NEW k \in 0 .. 8 PROVE after[k + 1] = BackOut(after[k])
    <3>1. k + 1 \in 0 .. 9 /\ k + 1 # 0 /\ (k + 1) - 1 = k
      OBVIOUS
    <3> QED
      BY <2>1, <3>1
  <2>4. Arrives(after, 0)
    BY <2>2, <2>3, EverywhereLeadsOut DEF Walk
  <2>5. \E k \in 0 .. 9 : after[k].mode = "GRID"
    BY <2>4 DEF Arrives
  <2> QED
    BY <2>5 DEF EscapesToGrid, after
<1> QED
  BY <1>1, UiInvariant, PTL

-----------------------------------------------------------------------------
(* The panel: what each part of a poll does to the state of ui_input.c *)

Events ==
  [button: Buttons, how: {"turn", "press", "long", "short", "tap", "plain", "shifted"}]

InputState ==
  [candidate: SUBSET Direct, stable: Nat, debounced: SUBSET Direct,
   shift: BOOLEAN, consumed: BOOLEAN, armed: BOOLEAN, released: Nat, ignore: Nat,
   polled: Nat, scanned: Nat,
   matrix: SUBSET MatrixKeys, settled: Nat, keys: SUBSET MatrixKeys,
   pin: BOOLEAN, down: BOOLEAN, fired: BOOLEAN, since: Nat,
   pending: SUBSET Events, idle: Nat, saver: BOOLEAN, idleBefore: Nat]

(* The debouncing of t is that of s. *)
SameDirect(t, s) ==
  t.candidate = s.candidate /\ t.stable = s.stable /\ t.debounced = s.debounced
SameMatrix(t, s) ==
  /\ t.matrix = s.matrix /\ t.settled = s.settled /\ t.keys = s.keys
  /\ t.scanned = s.scanned

(* t differs from s in nothing the debouncing and the screensaver work with. *)
SameButEvents(t, s) ==
  /\ SameDirect(t, s) /\ SameMatrix(t, s)
  /\ t.polled = s.polled /\ t.saver = s.saver

(* t has the events of s, and some of the encoder; a push or turn uses Shift if it is
   held. *)
EncoderEvents(t, s) ==
  /\ s.consumed => t.consumed
  /\ s.pending \subseteq t.pending
  /\ \A x \in t.pending \ s.pending :
       /\ x.button = Encoder /\ x.how \in {"turn", "press", "long", "short"}
       /\ x.how \in {"turn", "press"} /\ s.shift => t.consumed

(* Keys, PLAY, REC, Shift and the encoder are different buttons. *)
LEMMA ButtonsDiffer ==
  /\ MatrixKeys \subseteq 1 .. 12 /\ Plain \subseteq {13, 14}
  /\ Shift = 15 /\ Encoder = 16 /\ Direct \subseteq {13, 14, 15}
  /\ MatrixKeys \cup Direct \cup {Encoder} = Buttons
  BY InputAssumption DEF PlayButton, RecButton, Shift, Encoder, Direct, Buttons

(* The intervals of ui_input.c are numbers, and contacts settle before they are believed. *)
LEMMA TimesAreNumbers ==
  /\ Bounce \in Nat /\ PollInterval \in Nat /\ ScanInterval \in Nat
  /\ DirectDebounce \in Nat /\ MatrixDebounce \in Nat /\ ArmRelease \in Nat
  /\ StartupIgnore \in Nat /\ LongPressTime \in Nat /\ IdleTime \in Nat
  /\ MaxPushes \in Nat
  /\ Bounce < DirectDebounce /\ Bounce < MatrixDebounce
  BY InputAssumption

(* Events that are noted change nothing but what is pending. *)
LEMMA GivenEvents ==
  ASSUME NEW s \in InputState, NEW events \in SUBSET Events
  PROVE  /\ Given(s, events) \in InputState /\ SameButEvents(Given(s, events), s)
         /\ Given(s, events).pending = s.pending \cup events
         /\ Given(s, events).shift = s.shift /\ Given(s, events).consumed = s.consumed
         /\ Given(s, events).armed = s.armed /\ Given(s, events).ignore = s.ignore
  BY DEF Given, InputState, SameButEvents, SameDirect, SameMatrix

(* Activity is noted for the screensaver and changes nothing else. *)
LEMMA UsedState ==
  ASSUME NEW s \in InputState
  PROVE  /\ Used(s) \in InputState /\ SameButEvents(Used(s), s)
         /\ Used(s).pending = s.pending
         /\ Used(s).shift = s.shift /\ Used(s).consumed = s.consumed
         /\ Used(s).armed = s.armed /\ Used(s).ignore = s.ignore
  BY DEF Used, InputState, SameButEvents, SameDirect, SameMatrix

(* A turn of the encoder is noted, and uses Shift if it is held. *)
LEMMA EncoderIsTurned ==
  ASSUME NEW s \in InputState, NEW turn \in BOOLEAN
  PROVE  LET t == EncoderTurned(s, turn) IN
         /\ t \in InputState /\ SameButEvents(t, s) /\ EncoderEvents(t, s)
         /\ t.shift = s.shift
<1>1. CASE ~ turn
  BY <1>1 DEF EncoderTurned, SameButEvents, SameDirect, SameMatrix, EncoderEvents
<1>2. CASE turn
  <2> DEFINE c == [s EXCEPT !.consumed = @ \/ s.shift]
             ev == {Event(Encoder, "turn")}
  <2>1. /\ c \in InputState /\ SameButEvents(c, s) /\ c.pending = s.pending
        /\ c.shift = s.shift /\ (s.consumed => c.consumed) /\ (s.shift => c.consumed)
    BY DEF InputState, SameButEvents, SameDirect, SameMatrix
  <2>2. ev \in SUBSET Events
    BY DEF Event, Events, Buttons
  <2>3. EncoderTurned(s, turn) = Used(Given(c, ev))
    BY <1>2 DEF EncoderTurned
  <2>4. \A x \in ev : x.button = Encoder /\ x.how = "turn"
    BY DEF Event
  <2> HIDE DEF c, ev
  <2> DEFINE g == Given(c, ev)
  <2>5. /\ g \in InputState /\ SameButEvents(g, c) /\ g.pending = c.pending \cup ev
        /\ g.shift = c.shift /\ g.consumed = c.consumed
    BY <2>1, <2>2, GivenEvents
  <2> HIDE DEF g
  <2>6. /\ Used(g) \in InputState /\ SameButEvents(Used(g), g) /\ Used(g).pending = g.pending
        /\ Used(g).shift = g.shift /\ Used(g).consumed = g.consumed
    BY <2>5, UsedState
  <2> DEFINE t == Used(g)
  <2>7. EncoderTurned(s, turn) = t
    BY <2>3 DEF g
  <2> HIDE DEF t
  <2>8. t \in InputState /\ SameButEvents(t, s) /\ t.shift = s.shift
    BY <2>1, <2>5, <2>6 DEF SameButEvents, SameDirect, SameMatrix, t
  <2>9. EncoderEvents(t, s)
    BY <2>1, <2>4, <2>5, <2>6 DEF EncoderEvents, t
  <2> QED
    BY <2>7, <2>8, <2>9
<1> QED
  BY <1>1, <1>2

(* The button of the encoder gives its own events and samples nothing else. *)
LEMMA EncoderIsPressed ==
  ASSUME NEW s \in InputState, NEW level
  PROVE  LET t == EncoderButton(s, level) IN
         /\ t \in InputState /\ SameButEvents(t, s) /\ EncoderEvents(t, s)
         /\ t.shift = s.shift
<1> DEFINE now  == Encoder \in level
           p    == [s EXCEPT !.pin = now]
           c    == [p EXCEPT !.down = TRUE, !.fired = FALSE, !.since = 0,
                             !.consumed = @ \/ s.shift]
           long == [p EXCEPT !.fired = TRUE]
           up   == [p EXCEPT !.down = FALSE, !.fired = FALSE]
           Fine(t) == /\ t \in InputState /\ SameButEvents(t, s) /\ EncoderEvents(t, s)
                      /\ t.shift = s.shift
<1>1. /\ p \in InputState /\ SameButEvents(p, s) /\ p.pending = s.pending
      /\ p.shift = s.shift /\ p.consumed = s.consumed
  <2>1. now \in BOOLEAN
    OBVIOUS
  <2> HIDE DEF now
  <2> QED
    BY <2>1 DEF InputState, SameButEvents, SameDirect, SameMatrix
<1>2. /\ c \in InputState /\ SameButEvents(c, s) /\ c.pending = s.pending
      /\ c.shift = s.shift /\ (s.consumed => c.consumed) /\ (s.shift => c.consumed)
  <2> HIDE DEF p
  <2> QED
    BY <1>1 DEF InputState, SameButEvents, SameDirect, SameMatrix
<1>3. /\ long \in InputState /\ SameButEvents(long, s) /\ long.pending = s.pending
      /\ long.shift = s.shift /\ long.consumed = s.consumed
  <2> HIDE DEF p
  <2> QED
    BY <1>1 DEF InputState, SameButEvents, SameDirect, SameMatrix
<1>4. /\ up \in InputState /\ SameButEvents(up, s) /\ up.pending = s.pending
      /\ up.shift = s.shift /\ up.consumed = s.consumed
  <2> HIDE DEF p
  <2> QED
    BY <1>1 DEF InputState, SameButEvents, SameDirect, SameMatrix
<1>5. /\ {Event(Encoder, "press")} \in SUBSET Events
      /\ {Event(Encoder, "long")} \in SUBSET Events
      /\ {Event(Encoder, "short")} \in SUBSET Events
  BY DEF Event, Events, Buttons
<1>6. \/ EncoderButton(s, level) = Used(Given(c, {Event(Encoder, "press")}))
      \/ EncoderButton(s, level) = Given(long, {Event(Encoder, "long")})
      \/ EncoderButton(s, level)
           = Given(up, {x \in {Event(Encoder, "short")} : s.down /\ ~s.fired})
      \/ EncoderButton(s, level) = p
  BY DEF EncoderButton
<1> HIDE DEF p, c, long, up
<1>7. CASE EncoderButton(s, level) = p
  <2>1. Fine(p)
    BY <1>1 DEF EncoderEvents
  <2> QED
    BY <1>7, <2>1
<1>8. ASSUME NEW events \in SUBSET Events, NEW how \in {"long", "short"},
             events \subseteq {Event(Encoder, how)}, NEW q \in InputState,
             SameButEvents(q, s), q.pending = s.pending, q.shift = s.shift,
             q.consumed = s.consumed
      PROVE  Fine(Given(q, events))
  <2> DEFINE g == Given(q, events)
  <2>1. /\ g \in InputState /\ SameButEvents(g, q) /\ g.pending = q.pending \cup events
        /\ g.shift = q.shift /\ g.consumed = q.consumed
    BY <1>8, GivenEvents
  <2> HIDE DEF g
  <2>2. SameButEvents(g, s)
    BY <1>8, <2>1 DEF SameButEvents, SameDirect, SameMatrix
  <2>3. EncoderEvents(g, s)
    BY <1>8, <2>1 DEF EncoderEvents, Event
  <2> QED
    BY <1>8, <2>1, <2>2, <2>3 DEF g
<1>9. CASE EncoderButton(s, level) = Given(long, {Event(Encoder, "long")})
  <2>1. Fine(Given(long, {Event(Encoder, "long")}))
    BY <1>3, <1>5, <1>8
  <2> QED
    BY <1>9, <2>1
<1>10. CASE EncoderButton(s, level)
              = Given(up, {x \in {Event(Encoder, "short")} : s.down /\ ~s.fired})
  <2> DEFINE events == {x \in {Event(Encoder, "short")} : s.down /\ ~s.fired}
  <2>1. events \subseteq {Event(Encoder, "short")} /\ events \in SUBSET Events
    BY <1>5
  <2> HIDE DEF events
  <2>2. Fine(Given(up, events))
    BY <1>4, <1>8, <2>1
  <2> QED
    BY <1>10, <2>2 DEF events
<1>11. CASE EncoderButton(s, level) = Used(Given(c, {Event(Encoder, "press")}))
  <2> DEFINE ev == {Event(Encoder, "press")}
             g  == Given(c, ev)
             t  == Used(g)
  <2>1. \A x \in ev : x.button = Encoder /\ x.how = "press"
    BY DEF Event
  <2>2. ev \in SUBSET Events
    BY <1>5
  <2> HIDE DEF ev
  <2>3. /\ g \in InputState /\ SameButEvents(g, c) /\ g.pending = c.pending \cup ev
        /\ g.shift = c.shift /\ g.consumed = c.consumed
    BY <1>2, <2>2, GivenEvents
  <2> HIDE DEF g
  <2>4. /\ t \in InputState /\ SameButEvents(t, g) /\ t.pending = g.pending
        /\ t.shift = g.shift /\ t.consumed = g.consumed
    BY <2>3, UsedState
  <2> HIDE DEF t
  <2>5. t \in InputState /\ SameButEvents(t, s) /\ t.shift = s.shift
    BY <1>2, <2>3, <2>4 DEF SameButEvents, SameDirect, SameMatrix
  <2>6. EncoderEvents(t, s)
    BY <1>2, <2>1, <2>3, <2>4 DEF EncoderEvents
  <2> QED
    BY <1>11, <2>5, <2>6 DEF ev, g, t
<1> QED
  BY <1>6, <1>7, <1>9, <1>10, <1>11

(* One sample of contacts: a candidate that differs is taken up, and one that has stood
   long enough is believed. *)
Sampled(old, held, age, limit, seen, candidate, debounced, stable) ==
  \/ seen # old /\ candidate = seen /\ stable = 0 /\ debounced = held
  \/ seen = old /\ candidate = old /\ stable = age
     /\ debounced = (IF age >= limit THEN old ELSE held)

(* PLAY, REC and Shift are sampled, and nothing is noted yet. *)
LEMMA DirectIsSampled ==
  ASSUME NEW s \in InputState, NEW level \in SUBSET Buttons
  PROVE  LET t == DirectCandidate(s, level) IN
         /\ t \in InputState
         /\ Sampled(s.candidate, s.debounced, s.stable, DirectDebounce, level \cap Direct,
                    t.candidate, t.debounced, t.stable)
         /\ SameMatrix(t, s) /\ t.polled = s.polled /\ t.saver = s.saver
         /\ t.shift = s.shift /\ t.consumed = s.consumed /\ t.pending = s.pending
<1>1. CASE level \cap Direct # s.candidate
  BY <1>1 DEF DirectCandidate, InputState, Sampled, SameMatrix
<1>2. CASE level \cap Direct = s.candidate /\ s.stable >= DirectDebounce
  BY <1>2 DEF DirectCandidate, InputState, Sampled, SameMatrix
<1>3. CASE level \cap Direct = s.candidate /\ ~ (s.stable >= DirectDebounce)
  BY <1>3 DEF DirectCandidate, InputState, Sampled, SameMatrix
<1> QED
  BY <1>1, <1>2, <1>3

(* Presses are noted for some of the buttons, all with Shift or all without. *)
LEMMA PressesAreNoted ==
  ASSUME NEW s \in InputState, NEW buttons \in SUBSET Buttons
  PROVE  LET t == PressEvents(s, buttons) IN
         /\ t \in InputState /\ SameButEvents(t, s) /\ t.shift = s.shift
         /\ s.consumed => t.consumed
         /\ s.pending \subseteq t.pending
         /\ \A x \in t.pending \ s.pending :
              /\ x.button \in buttons
              /\ x = Event(x.button, IF s.shift THEN "shifted" ELSE "plain")
              /\ x.how = "shifted" => t.consumed
<1> DEFINE how == IF s.shift THEN "shifted" ELSE "plain"
           events == {Event(b, how) : b \in buttons}
           marked == {x \in events : x.how = "shifted"}
           g == Given(s, events)
<1>1. CASE s.armed /\ s.ignore = 0
  <2>1. PressEvents(s, buttons) = Consume(g, marked)
    BY <1>1 DEF PressEvents
  <2>2. how \in {"plain", "shifted"}
    OBVIOUS
  <2> HIDE DEF how
  <2>3. \A x \in events : /\ x \in Events /\ x.button \in buttons
                          /\ x = Event(x.button, how) /\ x.how = how
    BY <2>2 DEF Event, Events
  <2>4. marked \subseteq events /\ (how = "shifted" => \A x \in events : x \in marked)
    BY <2>3
  <2> HIDE DEF events, marked
  <2>5. /\ g \in InputState /\ SameButEvents(g, s) /\ g.pending = s.pending \cup events
        /\ g.shift = s.shift /\ g.consumed = s.consumed
    BY <2>3, GivenEvents
  <2> HIDE DEF g
  <2> DEFINE t == Consume(g, marked)
  <2>6. /\ t \in InputState /\ SameButEvents(t, g) /\ t.pending = g.pending
        /\ t.shift = g.shift /\ (g.consumed => t.consumed)
        /\ (marked # {} => t.consumed)
    BY <2>5 DEF Consume, InputState, SameButEvents, SameDirect, SameMatrix
  <2> HIDE DEF t
  <2>7. SameButEvents(t, s)
    BY <2>5, <2>6 DEF SameButEvents, SameDirect, SameMatrix
  <2>8. \A x \in t.pending \ s.pending :
          /\ x.button \in buttons /\ x = Event(x.button, how)
          /\ x.how = "shifted" => t.consumed
    BY <2>3, <2>4, <2>5, <2>6
  <2> QED
    BY <2>1, <2>5, <2>6, <2>7, <2>8 DEF t, how
<1>2. CASE ~ (s.armed /\ s.ignore = 0)
  BY <1>2 DEF PressEvents, SameButEvents, SameDirect, SameMatrix
<1> QED
  BY <1>1, <1>2

(* Arming the direct buttons gives no event. *)
LEMMA ArmedState ==
  ASSUME NEW s \in InputState
  PROVE  /\ Armed(s) \in InputState /\ SameButEvents(Armed(s), s)
         /\ Armed(s).pending = s.pending /\ Armed(s).consumed = s.consumed
<1>1. CASE s.armed
  BY <1>1 DEF Armed, SameButEvents, SameDirect, SameMatrix
<1>2. CASE ~ s.armed /\ s.debounced # {}
  BY <1>2 DEF Armed, InputState, SameButEvents, SameDirect, SameMatrix
<1>3. CASE ~ s.armed /\ s.debounced = {}
  <2> DEFINE long == s.released >= ArmRelease
  <2>1. long \in BOOLEAN
    OBVIOUS
  <2>2. Armed(s) = [s EXCEPT !.armed = long]
    BY <1>3 DEF Armed
  <2> HIDE DEF long
  <2> QED
    BY <2>1, <2>2 DEF InputState, SameButEvents, SameDirect, SameMatrix
<1> QED
  BY <1>1, <1>2, <1>3

(* What a poll of PLAY, REC and Shift notes: presses of those that fall, and a tap when
   Shift is released that was not used. *)
DirectEffect(t, s, before) ==
  LET now == Shift \in s.debounced
      was == Shift \in before
  IN /\ t.shift = now
     /\ s.consumed /\ ~ (now /\ ~ was) => t.consumed
     /\ s.pending \subseteq t.pending
     /\ \A x \in t.pending \ s.pending :
          \/ x = Event(Shift, "tap") /\ was /\ ~ now /\ ~ s.consumed
          \/ /\ x.button \in (s.debounced \ before) \ {Shift}
             /\ x.how \in {"plain", "shifted"}
             /\ x.how = "shifted" => t.consumed

(* PLAY, REC and Shift give what DirectEffect says. *)
LEMMA DirectButtonsNoted ==
  ASSUME NEW s \in InputState, NEW before \in SUBSET Direct
  PROVE  LET t == DirectEvents(s, before) IN
         t \in InputState /\ SameButEvents(t, s) /\ DirectEffect(t, s, before)
<1> DEFINE falling == s.debounced \ before
           now == Shift \in s.debounced
           was == Shift \in before
           c == [s EXCEPT !.consumed = IF now /\ ~was THEN FALSE ELSE @]
           tap == {x \in {Event(Shift, "tap")} : was /\ ~now /\ ~c.consumed}
           a == IF falling # {} \/ now # was THEN Used(Given(c, tap)) ELSE c
           r == [Armed(a) EXCEPT !.shift = now]
           t == PressEvents(r, falling \ {Shift})
<1>1. DirectEvents(s, before) = t
  BY DEF DirectEvents
<1>2. falling \ {Shift} \in SUBSET Buttons
  BY DEF InputState, Buttons
<1>3. now \in BOOLEAN /\ was \in BOOLEAN
  OBVIOUS
<1>4. Event(Shift, "tap") \in Events
  BY DEF Event, Events, Buttons, Direct
<1>5. /\ c \in InputState /\ SameButEvents(c, s) /\ c.pending = s.pending
      /\ (s.consumed /\ ~ (now /\ ~ was) => c.consumed)
      /\ (was => c.consumed = s.consumed)
  <2> HIDE DEF now, was
  <2> QED
    BY <1>3 DEF InputState, SameButEvents, SameDirect, SameMatrix
<1>6. \A x \in tap : /\ x = Event(Shift, "tap") /\ x \in Events
                     /\ was /\ ~ now /\ ~ s.consumed
  BY <1>4, <1>5
<1> HIDE DEF c, tap
<1>7. /\ a \in InputState /\ SameButEvents(a, c) /\ c.pending \subseteq a.pending
      /\ a.pending \subseteq c.pending \cup tap /\ a.consumed = c.consumed
  <2> DEFINE g == Given(c, tap)
  <2>1. /\ g \in InputState /\ SameButEvents(g, c) /\ g.pending = c.pending \cup tap
        /\ g.consumed = c.consumed
    BY <1>5, <1>6, GivenEvents
  <2> HIDE DEF g
  <2>2. /\ Used(g) \in InputState /\ SameButEvents(Used(g), g)
        /\ Used(g).pending = g.pending /\ Used(g).consumed = g.consumed
    BY <2>1, UsedState
  <2>3. SameButEvents(Used(g), c)
    BY <2>1, <2>2 DEF SameButEvents, SameDirect, SameMatrix
  <2>4. CASE falling # {} \/ now # was
    <3>1. a = Used(g)
      BY <2>4 DEF g
    <3> HIDE DEF a
    <3> QED
      BY <2>1, <2>2, <2>3, <3>1
  <2>5. CASE ~ (falling # {} \/ now # was)
    <3>1. a = c
      BY <2>5
    <3> HIDE DEF a
    <3> QED
      BY <1>5, <3>1 DEF SameButEvents, SameDirect, SameMatrix
  <2> QED
    BY <2>4, <2>5
<1> HIDE DEF a
<1>8. /\ Armed(a) \in InputState /\ SameButEvents(Armed(a), a)
      /\ Armed(a).pending = a.pending /\ Armed(a).consumed = a.consumed
  BY <1>7, ArmedState
<1>9. /\ r \in InputState /\ SameButEvents(r, Armed(a)) /\ r.shift = now
      /\ r.pending = a.pending /\ r.consumed = a.consumed
  <2> DEFINE q == Armed(a)
  <2> HIDE DEF q, now
  <2>1. /\ q \in InputState /\ q.pending = a.pending /\ q.consumed = a.consumed
    BY <1>8 DEF q
  <2>2. r = [q EXCEPT !.shift = now]
    BY DEF q
  <2> HIDE DEF r
  <2>3. /\ r \in InputState /\ SameButEvents(r, q) /\ r.shift = now
        /\ r.pending = q.pending /\ r.consumed = q.consumed
    BY <1>3, <2>1, <2>2 DEF InputState, SameButEvents, SameDirect, SameMatrix
  <2> QED
    BY <2>1, <2>3 DEF q
<1> HIDE DEF r
<1> DEFINE down == falling \ {Shift}
<1>10. /\ t \in InputState /\ SameButEvents(t, r) /\ t.shift = r.shift
       /\ (r.consumed => t.consumed) /\ r.pending \subseteq t.pending
       /\ \A x \in t.pending \ r.pending :
            /\ x.button \in down /\ x.how \in {"plain", "shifted"}
            /\ x.how = "shifted" => t.consumed
  <2> HIDE DEF down
  <2>1. t = PressEvents(r, down)
    BY DEF down
  <2> HIDE DEF t
  <2>2. down \in SUBSET Buttons
    BY <1>2 DEF down
  <2>3. \A x : x = Event(x.button, IF r.shift THEN "shifted" ELSE "plain")
                 => x.how \in {"plain", "shifted"}
    BY DEF Event
  <2> QED
    BY <1>9, <2>1, <2>2, <2>3, PressesAreNoted
<1> HIDE DEF t, down
<1>11. SameButEvents(t, s)
  BY <1>5, <1>7, <1>8, <1>9, <1>10 DEF SameButEvents, SameDirect, SameMatrix
<1>12. DirectEffect(t, s, before)
  <2>1. t.shift = now
    BY <1>9, <1>10
  <2>2. s.consumed /\ ~ (now /\ ~ was) => t.consumed
    BY <1>5, <1>7, <1>8, <1>9, <1>10
  <2>3. s.pending \subseteq t.pending
    BY <1>5, <1>7, <1>9, <1>10
  <2>4. \A x \in t.pending \ s.pending : x \in tap \/ x \in t.pending \ r.pending
    BY <1>5, <1>7, <1>9
  <2> QED
    BY <1>6, <1>10, <2>1, <2>2, <2>3, <2>4 DEF DirectEffect, down
<1> QED
  BY <1>1, <1>10, <1>11, <1>12

(* A finite set of numbers that has an element has a greatest one. *)
LEMMA GreatestExists ==
  ASSUME NEW S \in SUBSET Int, IsFiniteSet(S), S # {}
  PROVE  Max(S) \in S /\ \A y \in S : y <= Max(S)
<1> DEFINE Above(x) == {y \in S : y > x}
           N == {Cardinality(Above(x)) : x \in S}
<1>1. \A x \in S : IsFiniteSet(Above(x)) /\ Cardinality(Above(x)) \in Nat
  BY FS_Subset, FS_CardinalityType
<1>2. N \in SUBSET Nat /\ N # {}
  BY <1>1
<1>3. PICK n \in N : \A m \in N : ~ (<<m, n>> \in OpToRel(<, Nat))
  <2> HIDE DEF N
  <2> QED
    BY <1>2, NatLessThanWellFounded, WFMin
<1>4. \A m \in N : ~ (m < n)
  BY <1>2, <1>3 DEF OpToRel
<1>5. PICK x \in S : n = Cardinality(Above(x))
  BY <1>3
<1>6. ASSUME NEW y \in S, y > x
      PROVE  FALSE
  <2>1. Above(y) \subseteq Above(x) /\ y \in Above(x) /\ y \notin Above(y)
    <3>1. \A z \in S : z \in Int /\ (z > y => z > x)
      BY <1>6
    <3>2. ~ (y > y)
      BY <3>1
    <3> QED
      BY <1>6, <3>1, <3>2
  <2>2. Cardinality(Above(y)) < Cardinality(Above(x))
    <3> DEFINE A == Above(x)
               B == Above(y)
    <3>1. IsFiniteSet(A) /\ B \subseteq A /\ B # A
      BY <1>1, <2>1
    <3>2. Cardinality(A) \in Nat /\ Cardinality(B) \in Nat
      BY <1>1, <1>6
    <3> HIDE DEF A, B
    <3>3. Cardinality(B) < Cardinality(A)
      BY <3>1, <3>2, FS_Subset
    <3> QED
      BY <3>3 DEF A, B
  <2>3. Cardinality(Above(y)) \in N
    BY <1>6
  <2> QED
    BY <1>4, <1>5, <2>2, <2>3
<1>7. \A y \in S : x >= y
  BY <1>6
<1> QED
  BY <1>7 DEF Max

(* There is a longest pass, and every pass takes some time. *)
LEMMA LongestPass ==
  /\ Max(Elapsed) \in Nat /\ Max(Elapsed) >= 1
  /\ \A e \in Elapsed : e \in Nat /\ e >= 1 /\ e <= Max(Elapsed)
<1>1. Elapsed \in SUBSET Int /\ IsFiniteSet(Elapsed) /\ Elapsed # {}
      /\ \A e \in Elapsed : e \in Nat /\ e >= 1
  BY InputAssumption
<1> QED
  BY <1>1, GreatestExists

(* Of the keys that fall in one scan one gives a press, if any does. *)
LEMMA HighestIsOne ==
  ASSUME NEW keys \in SUBSET MatrixKeys
  PROVE  Highest(keys) \in SUBSET keys /\ \A x, y \in Highest(keys) : x = y
<1>1. CASE keys = {}
  BY <1>1 DEF Highest
<1>2. CASE keys # {}
  <2>1. keys \in SUBSET (1 .. 12)
    BY ButtonsDiffer
  <2>2. keys \in SUBSET Int /\ IsFiniteSet(keys)
    <3>1. IsFiniteSet(1 .. 12)
      <4>1. 1 \in Int /\ 12 \in Int
        OBVIOUS
      <4> QED
        BY <4>1, FS_Interval, Zenon
    <3>2. IsFiniteSet(keys)
      BY <2>1, <3>1, FS_Subset
    <3> QED
      BY <2>1, <3>2
  <2>3. Max(keys) \in keys
    BY <1>2, <2>2, GreatestExists
  <2> QED
    BY <1>2, <2>3 DEF Highest
<1> QED
  BY <1>1, <1>2

(* The matrix is sampled, and nothing is noted yet. *)
LEMMA MatrixIsSampled ==
  ASSUME NEW s \in InputState, NEW level \in SUBSET Buttons
  PROVE  LET t == MatrixCandidate(s, level) IN
         /\ t \in InputState
         /\ Sampled(s.matrix, s.keys, s.settled, MatrixDebounce, level \cap MatrixKeys,
                    t.matrix, t.keys, t.settled)
         /\ SameDirect(t, s) /\ t.scanned = s.scanned /\ t.polled = s.polled
         /\ t.saver = s.saver /\ t.shift = s.shift /\ t.consumed = s.consumed
         /\ t.pending = s.pending
<1>1. CASE level \cap MatrixKeys # s.matrix
  BY <1>1 DEF MatrixCandidate, InputState, Sampled, SameDirect
<1>2. CASE level \cap MatrixKeys = s.matrix /\ s.settled >= MatrixDebounce
  BY <1>2 DEF MatrixCandidate, InputState, Sampled, SameDirect
<1>3. CASE level \cap MatrixKeys = s.matrix /\ ~ (s.settled >= MatrixDebounce)
  BY <1>3 DEF MatrixCandidate, InputState, Sampled, SameDirect
<1> QED
  BY <1>1, <1>2, <1>3

(* What a scan of the keys notes: at most one press, of a key that falls. *)
ScanEffect(t, s) ==
  /\ t.shift = s.shift /\ (s.consumed => t.consumed)
  /\ s.pending \subseteq t.pending
  /\ \A x \in t.pending \ s.pending :
       /\ x.button \in t.keys \ s.keys /\ x.how \in {"plain", "shifted"}
       /\ x.how = "shifted" => t.consumed
  /\ \A x, y \in t.pending \ s.pending : x = y

(* A scan of the matrix samples it and gives what ScanEffect says. *)
LEMMA KeysScanned ==
  ASSUME NEW s \in InputState, NEW level \in SUBSET Buttons
  PROVE  LET t == ScanStepMatrix(s, level) IN
         /\ t \in InputState
         /\ Sampled(s.matrix, s.keys, s.settled, MatrixDebounce, level \cap MatrixKeys,
                    t.matrix, t.keys, t.settled)
         /\ SameDirect(t, s) /\ t.scanned = 0 /\ t.polled = s.polled
         /\ t.saver = s.saver /\ ScanEffect(t, s)
<1> DEFINE z == [s EXCEPT !.scanned = 0]
           m == MatrixCandidate(z, level)
           falling == m.keys \ z.keys
           a == IF falling = {} THEN m ELSE Used(m)
           high == Highest(falling)
           t == PressEvents(a, high)
<1>1. ScanStepMatrix(s, level) = t
  BY DEF ScanStepMatrix, InputState
<1>2. /\ z \in InputState /\ z.scanned = 0 /\ z.matrix = s.matrix /\ z.keys = s.keys
      /\ z.settled = s.settled /\ SameDirect(z, s) /\ z.polled = s.polled
      /\ z.saver = s.saver /\ z.shift = s.shift /\ z.consumed = s.consumed
      /\ z.pending = s.pending
  BY DEF InputState, SameDirect
<1> HIDE DEF z
<1>3. /\ m \in InputState
      /\ Sampled(z.matrix, z.keys, z.settled, MatrixDebounce, level \cap MatrixKeys,
                 m.matrix, m.keys, m.settled)
      /\ SameDirect(m, z) /\ m.scanned = z.scanned /\ m.polled = z.polled
      /\ m.saver = z.saver /\ m.shift = z.shift /\ m.consumed = z.consumed
      /\ m.pending = z.pending
  BY <1>2, MatrixIsSampled
<1> HIDE DEF m
<1>4. falling \in SUBSET MatrixKeys /\ high \in SUBSET falling /\ \A x, y \in high : x = y
  <2>1. falling \in SUBSET MatrixKeys
    BY <1>3 DEF InputState
  <2> HIDE DEF falling
  <2> QED
    BY <2>1, HighestIsOne
<1>5. /\ a \in InputState /\ SameButEvents(a, m) /\ a.pending = m.pending
      /\ a.shift = m.shift /\ a.consumed = m.consumed
  <2>1. CASE falling = {}
    BY <1>3, <2>1 DEF SameButEvents, SameDirect, SameMatrix
  <2>2. CASE falling # {}
    BY <1>3, <2>2, UsedState
  <2> QED
    BY <2>1, <2>2
<1> HIDE DEF a, high
<1>6. high \in SUBSET Buttons
  BY <1>4 DEF Buttons
<1> DEFINE how == IF a.shift THEN "shifted" ELSE "plain"
<1>7. /\ t \in InputState /\ SameButEvents(t, a) /\ t.shift = a.shift
      /\ (a.consumed => t.consumed) /\ a.pending \subseteq t.pending
      /\ \A x \in t.pending \ a.pending :
           /\ x.button \in high /\ x = Event(x.button, how)
           /\ x.how = "shifted" => t.consumed
  BY <1>5, <1>6, PressesAreNoted
<1>8. how \in {"plain", "shifted"}
  OBVIOUS
<1> HIDE DEF t, how
<1>9. \A x \in t.pending \ a.pending : x.how = how
  BY <1>7 DEF Event
<1>10. \A x, y \in t.pending \ a.pending : x = y
  BY <1>4, <1>7
<1>11. /\ Sampled(s.matrix, s.keys, s.settled, MatrixDebounce, level \cap MatrixKeys,
                  t.matrix, t.keys, t.settled)
       /\ SameDirect(t, s) /\ t.scanned = 0 /\ t.polled = s.polled /\ t.saver = s.saver
       /\ t.keys = m.keys
  BY <1>2, <1>3, <1>5, <1>7 DEF SameButEvents, SameDirect, SameMatrix
<1>12. ScanEffect(t, s)
  <2>1. t.keys \ s.keys = falling
    BY <1>2, <1>11
  <2>2. t.shift = s.shift /\ (s.consumed => t.consumed) /\ a.pending = s.pending
    BY <1>2, <1>3, <1>5, <1>7
  <2> HIDE DEF falling
  <2> QED
    BY <1>4, <1>7, <1>8, <1>9, <1>10, <2>1, <2>2 DEF ScanEffect
<1> QED
  BY <1>1, <1>7, <1>11, <1>12

-----------------------------------------------------------------------------
(* A whole poll *)

PollSamples(t, s, level) ==
  /\ \/ SameDirect(t, s)
     \/ Sampled(s.candidate, s.debounced, s.stable, DirectDebounce, level \cap Direct,
                t.candidate, t.debounced, t.stable)
  /\ \/ s.polled < PollInterval /\ t.polled = s.polled /\ SameMatrix(t, s)
     \/ t.polled = 0 /\ s.scanned < ScanInterval /\ SameMatrix(t, s)
     \/ /\ t.polled = 0 /\ t.scanned = 0
        /\ Sampled(s.matrix, s.keys, s.settled, MatrixDebounce, level \cap MatrixKeys,
                   t.matrix, t.keys, t.settled)

(* The events of one poll, with what they say of Shift. *)
PollNotes(t, s) ==
  /\ \/ t.shift = s.shift /\ t.debounced = s.debounced
     \/ t.shift = (Shift \in t.debounced)
  /\ s.consumed /\ ~ (Shift \in t.debounced /\ Shift \notin s.debounced) => t.consumed
  /\ \A x \in t.pending \ s.pending :
       /\ x.how \in {"plain", "shifted"} =>
            x.button \in ((t.debounced \ s.debounced) \ {Shift}) \cup (t.keys \ s.keys)
       /\ x.how = "shifted" => t.consumed
       /\ x.how \in {"turn", "press"} /\ s.shift => t.consumed
       /\ x = Event(Shift, "tap") => Shift \in s.debounced /\ ~ s.consumed
       /\ x.button \in MatrixKeys =>
            x.button \in t.keys \ s.keys /\ x.how \in {"plain", "shifted"}
       /\ x.button \in Plain => x.button \in t.debounced \ s.debounced
  /\ \A x, y \in t.pending \ s.pending :
       x.button \in MatrixKeys /\ y.button \in MatrixKeys => x = y

(* A poll of the panel does what PollSamples and PollNotes say. *)
LEMMA PollIs ==
  ASSUME NEW s \in InputState, NEW level \in SUBSET Buttons, NEW turn \in BOOLEAN,
         s.shift => Shift \in s.debounced
  PROVE  LET t == Poll(s, level, turn) IN
         /\ t \in InputState /\ t.saver = s.saver
         /\ PollSamples(t, s, level) /\ PollNotes(t, s)
<1> DEFINE r == EncoderTurned(s, turn)
           e == EncoderButton(r, level)
           z == [e EXCEPT !.polled = 0]
           c == DirectCandidate(z, level)
           d == DirectEvents(c, e.debounced)
           k == ScanStepMatrix(d, level)
           t == Poll(s, level, turn)
<1>1. t = IF e.polled < PollInterval THEN e ELSE IF d.scanned < ScanInterval THEN d ELSE k
  BY DEF Poll
<1>2. r \in InputState /\ SameButEvents(r, s) /\ EncoderEvents(r, s) /\ r.shift = s.shift
  BY EncoderIsTurned
<1> HIDE DEF r
<1>3. e \in InputState /\ SameButEvents(e, r) /\ EncoderEvents(e, r) /\ e.shift = r.shift
  BY <1>2, EncoderIsPressed
<1> HIDE DEF e
<1>4. /\ SameButEvents(e, s) /\ e.shift = s.shift /\ (s.consumed => e.consumed)
      /\ \A x \in e.pending \ s.pending :
           /\ x.button = Encoder /\ x.how \in {"turn", "press", "long", "short"}
           /\ x.how \in {"turn", "press"} /\ s.shift => e.consumed
  <2>1. SameButEvents(e, s)
    BY <1>2, <1>3 DEF SameButEvents, SameDirect, SameMatrix
  <2> QED
    BY <1>2, <1>3, <2>1 DEF EncoderEvents
<1>5. /\ z \in InputState /\ z.polled = 0 /\ SameDirect(z, e) /\ SameMatrix(z, e)
      /\ z.saver = e.saver /\ z.shift = e.shift /\ z.consumed = e.consumed
      /\ z.pending = e.pending
  BY <1>3 DEF InputState, SameDirect, SameMatrix
<1> HIDE DEF z
<1>6. /\ c \in InputState
      /\ Sampled(z.candidate, z.debounced, z.stable, DirectDebounce, level \cap Direct,
                 c.candidate, c.debounced, c.stable)
      /\ SameMatrix(c, z) /\ c.polled = z.polled /\ c.saver = z.saver
      /\ c.shift = z.shift /\ c.consumed = z.consumed /\ c.pending = z.pending
  BY <1>5, DirectIsSampled
<1> HIDE DEF c
<1>7. d \in InputState /\ SameButEvents(d, c) /\ DirectEffect(d, c, e.debounced)
  <2>1. e.debounced \in SUBSET Direct
    BY <1>3 DEF InputState
  <2> QED
    BY <1>6, <2>1, DirectButtonsNoted
<1> HIDE DEF d
<1>8. /\ k \in InputState
      /\ Sampled(d.matrix, d.keys, d.settled, MatrixDebounce, level \cap MatrixKeys,
                 k.matrix, k.keys, k.settled)
      /\ SameDirect(k, d) /\ k.scanned = 0 /\ k.polled = d.polled
      /\ k.saver = d.saver /\ ScanEffect(k, d)
  BY <1>7, KeysScanned
<1> HIDE DEF k, t
<1>9. Event(Shift, "tap").how = "tap" /\ Event(Shift, "tap").button = Shift
  BY DEF Event
<1>10. /\ e.debounced = s.debounced /\ e.polled = s.polled /\ e.saver = s.saver
       /\ SameMatrix(e, s) /\ SameDirect(e, s)
  BY <1>4 DEF SameButEvents, SameDirect
<1>11. /\ d.polled = 0 /\ d.saver = s.saver /\ SameMatrix(d, s)
       /\ Sampled(s.candidate, s.debounced, s.stable, DirectDebounce, level \cap Direct,
                  d.candidate, d.debounced, d.stable)
  BY <1>5, <1>6, <1>7, <1>10 DEF SameButEvents, SameDirect, SameMatrix
<1>12. /\ d.debounced = c.debounced /\ c.consumed = e.consumed /\ c.pending = e.pending
  BY <1>5, <1>6, <1>7 DEF SameButEvents, SameDirect
<1>13. s.polled \in Nat /\ s.scanned \in Nat /\ s.keys \subseteq MatrixKeys
         /\ d.debounced \subseteq Direct /\ k.keys \subseteq MatrixKeys
  BY <1>7, <1>8 DEF InputState
<1>14. /\ MatrixKeys \cap Direct = {} /\ Encoder \notin MatrixKeys /\ Shift \notin MatrixKeys
       /\ Encoder # Shift /\ MatrixKeys \cap Plain = {} /\ Encoder \notin Plain
       /\ Shift \notin Plain
  BY ButtonsDiffer
<1>15. CASE t = e /\ s.polled < PollInterval
  <2>1. PollSamples(e, s, level)
    BY <1>10, <1>15 DEF PollSamples
  <2>2. PollNotes(e, s)
    <3>1. \A x \in e.pending \ s.pending :
            /\ x.how \notin {"plain", "shifted", "tap"} /\ x.button \notin MatrixKeys
            /\ x.button \notin Plain
      BY <1>4, <1>14
    <3> QED
      BY <1>4, <1>9, <1>10, <3>1 DEF PollNotes
  <2> QED
    BY <1>3, <1>10, <1>15, <2>1, <2>2 DEF t
<1>16. /\ d.shift = (Shift \in d.debounced)
       /\ s.consumed /\ ~ (Shift \in d.debounced /\ Shift \notin s.debounced) => d.consumed
       /\ \A x \in d.pending \ s.pending :
            /\ x.how \in {"plain", "shifted"} =>
                 x.button \in (d.debounced \ s.debounced) \ {Shift}
            /\ x.how = "shifted" => d.consumed
            /\ x.how \in {"turn", "press"} /\ s.shift => d.consumed
            /\ x = Event(Shift, "tap") => Shift \in s.debounced /\ ~ s.consumed
            /\ x.button \notin MatrixKeys
            /\ x.button \in Plain => x.button \in d.debounced \ s.debounced
  <2> DEFINE now == Shift \in d.debounced
             was == Shift \in s.debounced
  <2>1. /\ d.shift = now
        /\ e.consumed /\ ~ (now /\ ~ was) => d.consumed
        /\ \A x \in d.pending \ e.pending :
             \/ x = Event(Shift, "tap") /\ was /\ ~ e.consumed
             \/ /\ x.button \in (d.debounced \ s.debounced) \ {Shift}
                /\ x.how \in {"plain", "shifted"}
                /\ x.how = "shifted" => d.consumed
    BY <1>7, <1>10, <1>12 DEF DirectEffect
  <2> HIDE DEF now, was
  <2>2. s.shift => was
    BY DEF was
  <2>3. \A x \in d.pending \ s.pending : x \in d.pending \ e.pending \/ x \in e.pending \ s.pending
    OBVIOUS
  <2>4. ASSUME NEW x \in e.pending \ s.pending
        PROVE  /\ x.how \notin {"plain", "shifted", "tap"}
               /\ x.button \notin MatrixKeys /\ x.button \notin Plain
               /\ x.how \in {"turn", "press"} /\ s.shift => d.consumed
    BY <1>4, <1>14, <2>1, <2>2, <2>4
  <2>5. ASSUME NEW x \in d.pending \ e.pending
        PROVE  /\ x.how \in {"plain", "shifted"} =>
                    x.button \in (d.debounced \ s.debounced) \ {Shift}
               /\ x.how = "shifted" => d.consumed
               /\ x.how \notin {"turn", "press"}
               /\ x = Event(Shift, "tap") => was /\ ~ s.consumed
               /\ x.button \notin MatrixKeys
               /\ x.button \in Plain => x.button \in d.debounced \ s.debounced
    BY <1>4, <1>9, <1>13, <1>14, <2>1, <2>5
  <2>6. s.consumed /\ ~ (now /\ ~ was) => d.consumed
    BY <1>4, <2>1
  <2> QED
    BY <1>9, <2>1, <2>3, <2>4, <2>5, <2>6 DEF now, was
<1>17. CASE t = d /\ s.scanned < ScanInterval
  <2>1. PollSamples(d, s, level)
    BY <1>11, <1>17 DEF PollSamples
  <2>2. PollNotes(d, s)
    BY <1>16 DEF PollNotes
  <2> QED
    BY <1>7, <1>11, <1>17, <2>1, <2>2 DEF t
<1>18. CASE t = k
  <2>1. /\ k.debounced = d.debounced /\ k.polled = 0 /\ k.saver = s.saver
        /\ d.keys = s.keys /\ k.shift = d.shift
        /\ Sampled(s.matrix, s.keys, s.settled, MatrixDebounce, level \cap MatrixKeys,
                   k.matrix, k.keys, k.settled)
        /\ Sampled(s.candidate, s.debounced, s.stable, DirectDebounce, level \cap Direct,
                   k.candidate, k.debounced, k.stable)
    BY <1>8, <1>11 DEF SameDirect, SameMatrix, ScanEffect
  <2>2. PollSamples(k, s, level)
    BY <1>8, <2>1 DEF PollSamples
  <2>3. /\ d.consumed => k.consumed
        /\ \A x \in k.pending \ d.pending :
             /\ x.button \in k.keys \ s.keys /\ x.how \in {"plain", "shifted"}
             /\ x.how = "shifted" => k.consumed
        /\ \A x, y \in k.pending \ d.pending : x = y
    BY <1>8, <2>1 DEF ScanEffect
  <2>4. \A x \in k.pending \ s.pending : x \in k.pending \ d.pending \/ x \in d.pending \ s.pending
    OBVIOUS
  <2>5. ASSUME NEW x \in k.pending \ d.pending
        PROVE  /\ x # Event(Shift, "tap") /\ x.how \notin {"turn", "press"}
               /\ x.button \notin Plain
    BY <1>9, <1>13, <1>14, <2>3, <2>5
  <2>6. PollNotes(k, s)
    BY <1>16, <2>1, <2>3, <2>4, <2>5 DEF PollNotes
  <2> QED
    BY <1>8, <1>18, <2>1, <2>2, <2>6 DEF t
<1>19. \/ t = e /\ s.polled < PollInterval
       \/ t = d /\ s.scanned < ScanInterval
       \/ t = k
  <2>1. d.scanned = s.scanned
    BY <1>11 DEF SameMatrix
  <2> QED
    BY <1>1, <1>10, <2>1
<1> QED
  BY <1>15, <1>17, <1>18, <1>19

-----------------------------------------------------------------------------
(* A pass of the loop *)

(* Time goes by for the ages alone. *)
LEMMA PassedState ==
  ASSUME NEW s \in InputState, NEW e \in Nat
  PROVE  LET t == Passed(s, e) IN
         /\ t \in InputState
         /\ t.candidate = s.candidate /\ t.debounced = s.debounced /\ t.stable <= s.stable + e
         /\ t.matrix = s.matrix /\ t.keys = s.keys
         /\ t.polled = Later(s.polled, e, PollInterval)
         /\ t.scanned = Later(s.scanned, e, ScanInterval)
         /\ t.settled = Later(s.settled, e, MatrixDebounce)
         /\ t.shift = s.shift /\ t.consumed = s.consumed /\ t.pending = s.pending
         /\ t.saver = s.saver
<1>1. \A age \in Nat, most \in Nat :
        Later(age, e, most) \in Nat /\ Later(age, e, most) <= age + e
  BY DEF Later
<1>2. /\ s.stable \in Nat /\ s.released \in Nat /\ s.ignore \in Nat /\ s.polled \in Nat
      /\ s.scanned \in Nat /\ s.settled \in Nat /\ s.since \in Nat /\ s.idle \in Nat
  BY DEF InputState
<1> DEFINE stable   == Later(s.stable, e, DirectDebounce)
           released == IF s.armed THEN 0 ELSE Later(s.released, e, ArmRelease)
           ignore   == IF s.ignore > e THEN s.ignore - e ELSE 0
           polled   == Later(s.polled, e, PollInterval)
           scanned  == Later(s.scanned, e, ScanInterval)
           settled  == Later(s.settled, e, MatrixDebounce)
           since    == IF s.down /\ ~s.fired THEN Later(s.since, e, LongPressTime) ELSE 0
           idle     == Later(s.idle, e, IdleTime)
<1>3. /\ stable \in Nat /\ stable <= s.stable + e /\ released \in Nat /\ ignore \in Nat
      /\ polled \in Nat /\ scanned \in Nat /\ settled \in Nat /\ since \in Nat /\ idle \in Nat
  <2>1. stable \in Nat /\ stable <= s.stable + e
    BY <1>1, <1>2, TimesAreNumbers
  <2>2. released \in Nat
    BY <1>1, <1>2, TimesAreNumbers
  <2>3. ignore \in Nat
    BY <1>2
  <2>4. polled \in Nat /\ scanned \in Nat
    BY <1>1, <1>2, TimesAreNumbers
  <2>5. settled \in Nat /\ idle \in Nat
    BY <1>1, <1>2, TimesAreNumbers
  <2>6. since \in Nat
    BY <1>1, <1>2, TimesAreNumbers
  <2> HIDE DEF stable, released, ignore, polled, scanned, settled, since, idle
  <2> QED
    BY <2>1, <2>2, <2>3, <2>4, <2>5, <2>6
<1> DEFINE p == [s EXCEPT !.stable = stable, !.released = released, !.ignore = ignore,
                          !.polled = polled]
           t == [p EXCEPT !.scanned = scanned, !.settled = settled, !.since = since,
                          !.idle = idle]
<1>4. Passed(s, e) = t
  BY DEF Passed, InputState
<1> HIDE DEF stable, released, ignore, polled, scanned, settled, since, idle
<1>5. /\ p \in InputState
      /\ p.candidate = s.candidate /\ p.debounced = s.debounced /\ p.stable = stable
      /\ p.matrix = s.matrix /\ p.keys = s.keys /\ p.polled = polled
      /\ p.shift = s.shift /\ p.consumed = s.consumed /\ p.pending = s.pending
      /\ p.saver = s.saver
  BY <1>3 DEF InputState
<1> HIDE DEF p
<1>6. /\ t \in InputState
      /\ t.candidate = p.candidate /\ t.debounced = p.debounced /\ t.stable = p.stable
      /\ t.matrix = p.matrix /\ t.keys = p.keys
      /\ t.polled = p.polled /\ t.scanned = scanned /\ t.settled = settled
      /\ t.shift = p.shift /\ t.consumed = p.consumed /\ t.pending = p.pending
      /\ t.saver = p.saver
  BY <1>3, <1>5 DEF InputState
<1> HIDE DEF t
<1> QED
  BY <1>3, <1>4, <1>5, <1>6 DEF polled, scanned, settled

(* The saver begins or ends, and forgets the keys and what is pending. *)
Forgets(s) == Falls(s) \/ Wakes(s)

(* The screensaver forgets the keys and what is pending when it begins or ends. *)
LEMMA TickedState ==
  ASSUME NEW s \in InputState
  PROVE  LET t == Tick(s) IN
         /\ t \in InputState
         /\ SameDirect(t, s) /\ t.polled = s.polled /\ t.scanned = s.scanned
         /\ t.settled = s.settled /\ t.shift = s.shift
         /\ Forgets(s) => t.matrix = {} /\ t.keys = {} /\ t.pending = {}
         /\ ~ Forgets(s) => /\ t.matrix = s.matrix /\ t.keys = s.keys
                            /\ t.pending = s.pending /\ t.consumed = s.consumed
                            /\ t.saver = s.saver
<1> DEFINE w == ConsumeWakeEvent(s)
           fall == [w EXCEPT !.saver = TRUE, !.idleBefore = 0]
           wake == [w EXCEPT !.saver = FALSE, !.idleBefore = 0]
           stay == [s EXCEPT !.idleBefore = s.idle]
           Same(t) == /\ t \in InputState /\ SameDirect(t, s) /\ t.polled = s.polled
                      /\ t.scanned = s.scanned /\ t.settled = s.settled /\ t.shift = s.shift
           Empty(t) == t.matrix = {} /\ t.keys = {} /\ t.pending = {}
           Keeps(t) == /\ t.matrix = s.matrix /\ t.keys = s.keys /\ t.pending = s.pending
                       /\ t.consumed = s.consumed /\ t.saver = s.saver
<1>1. Same(w) /\ Empty(w)
  BY DEF ConsumeWakeEvent, InputState, SameDirect
<1>2. /\ ~ (Falls(s) /\ Wakes(s)) /\ ~ (Falls(s) /\ Sleeps(s)) /\ ~ (Wakes(s) /\ Sleeps(s))
  BY DEF Falls, Wakes, Sleeps
<1>3. /\ Falls(s) => Tick(s) = fall
      /\ Wakes(s) => Tick(s) = wake
      /\ ~ Forgets(s) => Tick(s) = stay \/ Tick(s) = s
  <2> HIDE DEF w
  <2>1. Tick(s) = CASE Falls(s) -> fall [] Wakes(s) -> wake [] Sleeps(s) -> stay [] OTHER -> s
    BY DEF Tick, w
  <2> HIDE DEF fall, wake, stay
  <2> QED
    BY <1>2, <2>1 DEF Forgets
<1> HIDE DEF w
<1>4. Same(fall) /\ Empty(fall)
  BY <1>1 DEF InputState, SameDirect
<1>5. Same(wake) /\ Empty(wake)
  BY <1>1 DEF InputState, SameDirect
<1>6. Same(stay) /\ Keeps(stay)
  BY DEF InputState, SameDirect
<1>7. Same(s) /\ Keeps(s)
  BY DEF SameDirect
<1> HIDE DEF fall, wake, stay
<1> DEFINE t == Tick(s)
<1>8. Same(t) /\ (Forgets(s) => Empty(t)) /\ (~ Forgets(s) => Keeps(t))
  <2> HIDE DEF Same, Empty, Keeps
  <2>1. CASE Falls(s)
    BY <1>3, <1>4, <2>1 DEF Forgets
  <2>2. CASE Wakes(s)
    BY <1>3, <1>5, <2>2 DEF Forgets
  <2>3. CASE ~ Forgets(s)
    BY <1>3, <1>6, <1>7, <2>3
  <2> QED
    BY <2>1, <2>2, <2>3 DEF Forgets
<1> HIDE DEF t
<1> QED
  BY <1>8 DEF t

(* The types of the panel; no contact bounces longer than Bounce. *)
PanelType ==
  /\ in \in InputState
  /\ finger \in SUBSET Buttons /\ bounce \in [Buttons -> 0 .. Bounce]
  /\ fresh \in SUBSET Buttons /\ cleared \in SUBSET Buttons
  /\ behind \in Nat /\ modified \in BOOLEAN /\ turned \in BOOLEAN

(* What a pass does with t, the state after its poll. *)
PassWith(t, level, e) ==
  /\ PollSamples(t, in, level) /\ PollNotes(t, in)
  /\ given' \subseteq t.pending \ in.pending /\ (given' # {} => ~ Forgets(t))
  /\ in' \in InputState
  /\ in'.candidate = t.candidate /\ in'.debounced = t.debounced
  /\ in'.stable <= t.stable + e /\ in'.shift = t.shift
  /\ in'.polled = Later(t.polled, e, PollInterval)
  /\ in'.scanned = Later(t.scanned, e, ScanInterval)
  /\ in'.settled = Later(t.settled, e, MatrixDebounce)
  /\ Forgets(t) => in'.matrix = {} /\ in'.keys = {}
  /\ ~ Forgets(t) => in'.matrix = t.matrix /\ in'.keys = t.keys /\ in'.consumed = t.consumed
  /\ ~ in'.saver => in'.pending = {}
  /\ finger' = finger
  /\ bounce' = [b \in Buttons |-> IF bounce[b] > e THEN bounce[b] - e ELSE 0]
  /\ fresh' = {b \in fresh : \A x \in given' : x.button # b}
  /\ cleared' = LET believed == finger \cup t.debounced \cup t.matrix IN
                IF Forgets(t) THEN believed ELSE cleared \cap believed
  /\ behind' = IF t.keys = finger \cap MatrixKeys \/ Forgets(t) THEN 0
               ELSE Later(behind, e, AnswerTime)
  /\ modified' = ((modified /\ ~(t.shift /\ ~in.shift)) \/ \E x \in given' :
                    x.how = "shifted" \/ (x.how \in {"turn", "press"} /\ in.shift))
  /\ turned' = FALSE

(* A contact that does not bounce shows what the finger does. *)
LEMMA LevelsShow ==
  ASSUME PanelType, NEW level \in Levels
  PROVE  /\ level \in SUBSET Buttons
         /\ \A b \in Buttons \ {Encoder} : bounce[b] = 0 => (b \in level <=> b \in finger)
  BY DEF Levels, PanelType

(* While the interface is awake it takes all there is to take. *)
LEMMA AllIsTaken ==
  ASSUME NEW t \in InputState,
         \A x \in t.pending : x.button \in MatrixKeys => x.how \in {"plain", "shifted"},
         \A x, y \in t.pending : x.button \in MatrixKeys /\ y.button \in MatrixKeys => x = y
  PROVE  Taken(t) = t.pending
<1> DEFINE keys(how) == {x \in t.pending : x.button \in MatrixKeys /\ x.how = how}
<1>2. MatrixKeys \subseteq Int
  BY ButtonsDiffer
<1>3. ASSUME NEW how
      PROVE  Lowest(keys(how)) = keys(how)
  <2>1. \A x, y \in keys(how) : x = y /\ x.button \in Int
    BY <1>2
  <2> DEFINE K == keys(how)
  <2> HIDE DEF K
  <2>2. \A x, y \in K : x.button <= y.button
    BY <2>1 DEF K
  <2>3. Lowest(K) = K
    BY <2>2 DEF Lowest
  <2> QED
    BY <2>3 DEF K
<1>4. Taken(t) = {x \in t.pending : x.button \notin MatrixKeys}
                   \cup Lowest(keys("plain")) \cup Lowest(keys("shifted"))
  BY DEF Taken
<1>5. Lowest(keys("plain")) = keys("plain") /\ Lowest(keys("shifted")) = keys("shifted")
  BY <1>3
<1>6. \A x \in t.pending : \/ x.button \notin MatrixKeys
                          \/ x \in keys("plain") \/ x \in keys("shifted")
  OBVIOUS
<1>7. keys("plain") \subseteq t.pending /\ keys("shifted") \subseteq t.pending
  OBVIOUS
<1> HIDE DEF keys
<1> QED
  BY <1>4, <1>5, <1>6, <1>7

(* A pass of the loop does what PassWith says. *)
LEMMA PassIs ==
  ASSUME PanelType, in.shift => Shift \in in.debounced, ~ in.saver => in.pending = {},
         NEW level \in Levels, NEW e \in Elapsed, Pass(level, e)
  PROVE  \E t \in InputState : PassWith(t, level, e)
<1> DEFINE t == Poll(in, level, turned)
           k == Tick(t)
           q == [k EXCEPT !.pending = @ \ given']
<1>1. in \in InputState /\ turned \in BOOLEAN /\ level \in SUBSET Buttons
  BY LevelsShow DEF PanelType
<1>2. /\ t \in InputState /\ t.saver = in.saver
      /\ PollSamples(t, in, level) /\ PollNotes(t, in)
  BY <1>1, PollIs
<1>3. /\ given' = Read(t) /\ in' = Passed(q, e)
      /\ finger' = finger
      /\ bounce' = [b \in Buttons |-> IF bounce[b] > e THEN bounce[b] - e ELSE 0]
      /\ fresh' = {b \in fresh : {x \in given' : x.button = b} = {}}
      /\ cleared' = LET believed == finger \cup t.debounced \cup t.matrix IN
                    IF Wakes(t) \/ Falls(t) THEN believed ELSE cleared \cap believed
      /\ behind' = IF t.keys = finger \cap MatrixKeys \/ Wakes(t) \/ Falls(t) THEN 0
                   ELSE Later(behind, e, AnswerTime)
      /\ modified' = ((modified /\ ~(t.shift /\ ~in.shift)) \/ \E x \in given' :
                        x.how = "shifted" \/ (x.how \in {"turn", "press"} /\ in.shift))
      /\ turned' = FALSE
  <2> HIDE DEF t
  <2> QED
    BY DEF Pass, t
<1> HIDE DEF t
<1>4. /\ k \in InputState
      /\ SameDirect(k, t) /\ k.polled = t.polled /\ k.scanned = t.scanned
      /\ k.settled = t.settled /\ k.shift = t.shift
      /\ Forgets(t) => k.matrix = {} /\ k.keys = {} /\ k.pending = {}
      /\ ~ Forgets(t) => /\ k.matrix = t.matrix /\ k.keys = t.keys
                         /\ k.pending = t.pending /\ k.consumed = t.consumed
                         /\ k.saver = t.saver
  BY <1>2, TickedState
<1>5. Read(t) \subseteq t.pending
  <2>1. \A events : Lowest(events) \subseteq events
    BY DEF Lowest
  <2> QED
    BY <2>1 DEF Read, Taken
<1>6. Read(t) # {} => ~ Forgets(t) /\ ~ t.saver
  BY DEF Read, Forgets, Wakes
<1>7. given' \subseteq t.pending \ in.pending /\ (given' # {} => ~ Forgets(t))
  BY <1>2, <1>3, <1>5, <1>6
<1> HIDE DEF k
<1>8. /\ q \in InputState
      /\ SameDirect(q, k) /\ q.polled = k.polled /\ q.scanned = k.scanned
      /\ q.settled = k.settled /\ q.shift = k.shift /\ q.matrix = k.matrix
      /\ q.keys = k.keys /\ q.consumed = k.consumed /\ q.saver = k.saver
      /\ q.pending = k.pending \ given'
  BY <1>4 DEF InputState, SameDirect
<1> HIDE DEF q
<1>9. e \in Nat
  BY LongestPass
<1>10. /\ in' \in InputState
       /\ in'.candidate = q.candidate /\ in'.debounced = q.debounced
       /\ in'.stable <= q.stable + e
       /\ in'.matrix = q.matrix /\ in'.keys = q.keys
       /\ in'.polled = Later(q.polled, e, PollInterval)
       /\ in'.scanned = Later(q.scanned, e, ScanInterval)
       /\ in'.settled = Later(q.settled, e, MatrixDebounce)
       /\ in'.shift = q.shift /\ in'.consumed = q.consumed /\ in'.pending = q.pending
       /\ in'.saver = q.saver
  BY <1>3, <1>8, <1>9, PassedState
<1>11. ~ in'.saver => in'.pending = {}
  <2>1. CASE Forgets(t)
    BY <1>4, <1>8, <1>10, <2>1
  <2>2. CASE ~ Forgets(t) /\ in'.saver
    BY <2>2
  <2>3. CASE ~ Forgets(t) /\ ~ in'.saver
    <3>1. ~ t.saver /\ in.pending = {}
      BY <1>2, <1>4, <1>8, <1>10, <2>3
    <3>2. Taken(t) = t.pending
      BY <1>2, <3>1, AllIsTaken DEF PollNotes
    <3>3. given' = t.pending
      BY <1>3, <2>3, <3>1, <3>2 DEF Read, Forgets
    <3> QED
      BY <1>4, <1>8, <1>10, <2>3, <3>3
  <2> QED
    BY <2>1, <2>2, <2>3
<1>12. PassWith(t, level, e)
  <2>1. fresh' = {b \in fresh : \A x \in given' : x.button # b}
    BY <1>3
  <2>2. /\ in'.candidate = t.candidate /\ in'.debounced = t.debounced
        /\ in'.stable <= t.stable + e /\ in'.shift = t.shift
        /\ in'.polled = Later(t.polled, e, PollInterval)
        /\ in'.scanned = Later(t.scanned, e, ScanInterval)
        /\ in'.settled = Later(t.settled, e, MatrixDebounce)
        /\ Forgets(t) => in'.matrix = {} /\ in'.keys = {}
        /\ ~ Forgets(t) => /\ in'.matrix = t.matrix /\ in'.keys = t.keys
                           /\ in'.consumed = t.consumed
    BY <1>4, <1>8, <1>10 DEF SameDirect
  <2>3. /\ cleared' = LET believed == finger \cup t.debounced \cup t.matrix IN
                      IF Forgets(t) THEN believed ELSE cleared \cap believed
        /\ behind' = IF t.keys = finger \cap MatrixKeys \/ Forgets(t) THEN 0
                     ELSE Later(behind, e, AnswerTime)
    BY <1>3 DEF Forgets
  <2> QED
    BY <1>2, <1>3, <1>7, <1>10, <1>11, <2>1, <2>2, <2>3 DEF PassWith
<1> QED
  BY <1>2, <1>12

-----------------------------------------------------------------------------
(* One press for a push *)

(* A button b whose last push has given its press is not down unless it is believed
   down, and a contact that still bounces cannot turn that: what would is too young. *)
Debounces(b, bouncing, down, known, candidate, debounced, age) ==
  b \notin known =>
    /\ b \notin debounced => b \notin down
    /\ bouncing > 0 /\ (IF b \in debounced THEN b \in down /\ b \notin candidate
                                           ELSE b \in candidate)
         => bouncing + age <= Bounce

Left(bouncing, e) == IF bouncing > e THEN bouncing - e ELSE 0

(* One sample of one contact of n left to bounce, and the time until the next. *)
ContactStep(b, n, down, known, known2, old, held, cand, deb, level, seen, age, age2, age3, e,
            limit) ==
  /\ n \in 0 .. Bounce /\ age \in Nat /\ age2 \in Nat /\ age3 \in Nat /\ e \in Nat
  /\ limit \in Nat /\ Bounce < limit
  /\ Debounces(b, n, down, known, old, held, age)
  /\ n = 0 => (b \in level <=> b \in down)
  /\ b \in seen <=> b \in level
  /\ \/ cand = old /\ deb = held /\ age2 = age
     \/ Sampled(old, held, age, limit, seen, cand, deb, age2)
  /\ age3 <= age2 + e
  /\ b \in known /\ b \notin known2 => b \in deb \ held \/ b \notin down \cup cand

(* A contact that is believed down anew was pushed since, and stays debounced. *)
LEMMA ContactIsDebounced ==
  ASSUME NEW b, NEW n, NEW down, NEW known, NEW known2, NEW old, NEW held, NEW cand, NEW deb,
         NEW level, NEW seen, NEW age, NEW age2, NEW age3, NEW e, NEW limit,
         ContactStep(b, n, down, known, known2, old, held, cand, deb, level, seen,
                     age, age2, age3, e, limit)
  PROVE  /\ b \in deb \ held => b \in known
         /\ Debounces(b, Left(n, e), down, known2, cand, deb, age3)
<1> USE DEF ContactStep
<1>1. n \in Nat /\ n <= Bounce /\ Bounce \in Nat
  BY TimesAreNumbers
<1>2. \/ cand = old /\ deb = held /\ age2 = age
      \/ /\ b \in cand <=> b \in level
         /\ age2 = 0 /\ deb = held
      \/ /\ b \in old <=> b \in level
         /\ cand = old /\ age2 = age /\ age < limit /\ deb = held
      \/ /\ b \in old <=> b \in level
         /\ cand = old /\ age2 = age /\ age >= limit /\ deb = old
  BY DEF Sampled
<1>3. /\ Left(n, e) \in Nat /\ (Left(n, e) > 0 => n > 0 /\ Left(n, e) = n - e)
  BY <1>1 DEF Left
<1>4. ASSUME b \in deb, b \notin held
      PROVE  b \in known
  <2>1. b \in old /\ b \in level /\ age >= limit
    BY <1>2, <1>4
  <2>2. CASE n = 0
    BY <1>4, <2>1, <2>2 DEF Debounces
  <2>3. CASE n > 0
    BY <1>1, <1>4, <2>1, <2>3, TimesAreNumbers DEF Debounces
  <2> QED
    BY <1>1, <2>2, <2>3
<1>5. ASSUME b \notin known2
      PROVE  /\ b \notin deb => b \notin down
             /\ (/\ Left(n, e) > 0
                 /\ IF b \in deb THEN b \in down /\ b \notin cand ELSE b \in cand)
                  => Left(n, e) + age3 <= Bounce
  <2>1. CASE b \in known /\ b \in deb \ held
    BY <1>2, <2>1
  <2>2. CASE b \in known /\ b \notin down \cup cand
    BY <2>2
  <2>3. CASE b \notin known
    BY <1>1, <1>2, <1>3, <2>3 DEF Debounces
  <2> QED
    BY <1>5, <2>1, <2>2, <2>3
<1> QED
  BY <1>4, <1>5 DEF Debounces

(* The press of a push comes once; the screensaver may forget a key that is held. *)
PressState ==
  /\ \A b \in MatrixKeys :
       Debounces(b, bounce[b], finger, fresh \cup cleared, in.matrix, in.keys, in.settled)
  /\ \A b \in Plain :
       Debounces(b, bounce[b], finger, fresh, in.candidate, in.debounced, in.stable)

(* A pass gives presses of known pushes only. *)
LEMMA PressStateInPass ==
  ASSUME PanelType, PressState, NEW level \in Levels, NEW e \in Elapsed,
         NEW t \in InputState, PassWith(t, level, e)
  PROVE  /\ PressState'
         /\ \A b \in Plain : b \in t.debounced \ in.debounced => b \in fresh
         /\ \A b \in MatrixKeys : b \in t.keys \ in.keys => b \in fresh \cup cleared
<1>1. /\ MatrixKeys \subseteq Buttons \ {Encoder} /\ Plain \subseteq Buttons \ {Encoder}
      /\ Plain \subseteq Direct /\ MatrixKeys \cap Plain = {}
  BY ButtonsDiffer DEF Direct
<1>2. e \in Nat /\ level \in SUBSET Buttons
      /\ \A b \in Buttons \ {Encoder} : bounce[b] = 0 => (b \in level <=> b \in finger)
  BY LongestPass, LevelsShow
<1>3. /\ \A b \in Buttons : bounce[b] \in 0 .. Bounce /\ bounce'[b] = Left(bounce[b], e)
      /\ finger' = finger
      /\ fresh' = {b \in fresh : \A x \in given' : x.button # b}
      /\ cleared' = LET believed == finger \cup t.debounced \cup t.matrix IN
                    IF Forgets(t) THEN believed ELSE cleared \cap believed
  BY DEF PanelType, PassWith, Left
<1>4. /\ in \in InputState /\ in' \in InputState
      /\ PollSamples(t, in, level) /\ PollNotes(t, in) /\ given' \subseteq t.pending \ in.pending
      /\ (given' # {} => ~ Forgets(t))
      /\ in'.candidate = t.candidate /\ in'.debounced = t.debounced
      /\ in'.stable <= t.stable + e
      /\ Forgets(t) => in'.matrix = {} /\ in'.keys = {}
      /\ ~ Forgets(t) => in'.matrix = t.matrix /\ in'.keys = t.keys
      /\ in'.settled = Later(t.settled, e, MatrixDebounce)
  BY DEF PanelType, PassWith
<1>5. /\ in.stable \in Nat /\ in.settled \in Nat /\ t.stable \in Nat /\ t.settled \in Nat
      /\ in'.stable \in Nat /\ in'.settled \in Nat /\ in'.settled <= t.settled + e
  <2>1. /\ in.stable \in Nat /\ in.settled \in Nat /\ t.stable \in Nat /\ t.settled \in Nat
        /\ in'.stable \in Nat /\ in'.settled \in Nat
    BY <1>4 DEF InputState
  <2> QED
    BY <1>2, <1>4, <2>1, TimesAreNumbers DEF Later
<1>6. ASSUME NEW b \in Plain
      PROVE  /\ b \in t.debounced \ in.debounced => b \in fresh
             /\ Debounces(b, bounce'[b], finger', fresh',
                           in'.candidate, in'.debounced, in'.stable)
  <2> DEFINE seen == level \cap Direct
  <2>1. b \in Buttons \ {Encoder} /\ (b \in seen <=> b \in level)
    BY <1>1, <1>6
  <2>2. Debounces(b, bounce[b], finger, fresh, in.candidate, in.debounced, in.stable)
    BY <1>6 DEF PressState
  <2>3. \/ t.candidate = in.candidate /\ t.debounced = in.debounced /\ t.stable = in.stable
        \/ Sampled(in.candidate, in.debounced, in.stable, DirectDebounce, seen,
                   t.candidate, t.debounced, t.stable)
    BY <1>4 DEF PollSamples, SameDirect
  <2>4. b \in fresh /\ b \notin fresh' => b \in t.debounced \ in.debounced
    BY <1>3, <1>4, <1>6 DEF PollNotes
  <2>5. bounce[b] \in 0 .. Bounce /\ (bounce[b] = 0 => (b \in level <=> b \in finger))
    BY <1>2, <1>3, <2>1
  <2> HIDE DEF seen
  <2>6. ContactStep(b, bounce[b], finger, fresh, fresh', in.candidate, in.debounced,
                    t.candidate, t.debounced, level, seen, in.stable, t.stable, in'.stable, e,
                    DirectDebounce)
    BY <1>2, <1>4, <1>5, <2>1, <2>2, <2>3, <2>4, <2>5, TimesAreNumbers DEF ContactStep
  <2>7. /\ b \in t.debounced \ in.debounced => b \in fresh
        /\ Debounces(b, Left(bounce[b], e), finger, fresh', t.candidate, t.debounced, in'.stable)
    BY <2>6, ContactIsDebounced
  <2> QED
    BY <1>3, <1>4, <2>1, <2>7
<1>7. ASSUME NEW b \in MatrixKeys
      PROVE  /\ b \in t.keys \ in.keys => b \in fresh \cup cleared
             /\ Debounces(b, bounce'[b], finger', fresh' \cup cleared',
                           in'.matrix, in'.keys, in'.settled)
  <2> DEFINE seen == level \cap MatrixKeys
             known == fresh \cup cleared
             believed == finger \cup t.debounced \cup t.matrix
             known2 == fresh' \cup (cleared \cap believed)
  <2>1. b \in Buttons \ {Encoder} /\ (b \in seen <=> b \in level)
    BY <1>1, <1>7
  <2>2. Debounces(b, bounce[b], finger, known, in.matrix, in.keys, in.settled)
    BY <1>7 DEF PressState
  <2>3. \/ t.matrix = in.matrix /\ t.keys = in.keys /\ t.settled = in.settled
        \/ Sampled(in.matrix, in.keys, in.settled, MatrixDebounce, seen,
                   t.matrix, t.keys, t.settled)
    BY <1>4 DEF PollSamples, SameMatrix
  <2>4. b \in known /\ b \notin known2
          => b \in t.keys \ in.keys \/ b \notin finger \cup t.matrix
    BY <1>3, <1>4, <1>7 DEF PollNotes
  <2>5. bounce[b] \in 0 .. Bounce /\ (bounce[b] = 0 => (b \in level <=> b \in finger))
    BY <1>2, <1>3, <2>1
  <2> HIDE DEF seen, known, known2
  <2>6. ContactStep(b, bounce[b], finger, known, known2, in.matrix, in.keys,
                    t.matrix, t.keys, level, seen, in.settled, t.settled, in'.settled, e,
                    MatrixDebounce)
    BY <1>2, <1>5, <2>1, <2>2, <2>3, <2>4, <2>5, TimesAreNumbers DEF ContactStep
  <2>7. /\ b \in t.keys \ in.keys => b \in known
        /\ Debounces(b, Left(bounce[b], e), finger, known2, t.matrix, t.keys, in'.settled)
    BY <2>6, ContactIsDebounced
  <2>8. CASE Forgets(t)
    <3>1. b \notin fresh' \cup cleared' => b \notin finger
      BY <1>3, <2>8
    <3> QED
      BY <1>3, <1>4, <2>7, <2>8, <3>1 DEF Debounces, known
  <2>9. CASE ~ Forgets(t)
    <3>1. fresh' \cup cleared' = known2
      BY <1>3, <2>9 DEF known2
    <3> QED
      BY <1>3, <1>4, <2>1, <2>7, <2>9, <3>1 DEF known
  <2> QED
    BY <2>8, <2>9
<1> QED
  BY <1>6, <1>7 DEF PressState

-----------------------------------------------------------------------------
(* The keys are seen as they are *)

(* Time since the last scan, at most, as far as the ages tell it. *)
Waited(s) ==
  IF s.scanned < ScanInterval THEN s.scanned
  ELSE ScanInterval + (IF s.polled < PollInterval THEN s.polled
                       ELSE PollInterval + Max(Elapsed))

(* Time since the last scan that saw the keys change, at most. *)
Settling(s) ==
  IF s.settled < MatrixDebounce THEN s.settled ELSE MatrixDebounce - 1 + Waited(s)

SeenState ==
  /\ \A b \in MatrixKeys : bounce[b] > 0 => bounce[b] + behind <= Bounce
  /\ IF in.matrix # finger \cap MatrixKeys THEN behind <= Bounce + Waited(in)
     ELSE behind <= Bounce + ScanInterval + PollInterval + Max(Elapsed) + Settling(in)

(* Neither time is longer than the intervals and the longest pass allow. *)
LEMMA WaitedIsBounded ==
  ASSUME NEW s \in InputState
  PROVE  /\ Waited(s) \in Nat /\ Waited(s) <= ScanInterval + PollInterval + Max(Elapsed)
         /\ Settling(s) \in Nat
         /\ Settling(s) <= MatrixDebounce - 1 + ScanInterval + PollInterval + Max(Elapsed)
<1>1. s.scanned \in Nat /\ s.polled \in Nat /\ s.settled \in Nat
  BY DEF InputState
<1>2. Waited(s) \in Nat /\ Waited(s) <= ScanInterval + PollInterval + Max(Elapsed)
  BY <1>1, TimesAreNumbers, LongestPass DEF Waited
<1>3. MatrixDebounce \in Nat /\ MatrixDebounce >= 1 /\ Max(Elapsed) \in Nat
      /\ ScanInterval \in Nat /\ PollInterval \in Nat
  BY TimesAreNumbers, LongestPass
<1>4. \/ Settling(s) = s.settled /\ s.settled < MatrixDebounce
      \/ Settling(s) = MatrixDebounce - 1 + Waited(s)
  BY DEF Settling
<1> QED
  BY <1>1, <1>2, <1>3, <1>4

(* s is the state before the pass, t after its poll and u after the time of the pass. *)
LEMMA WaitedGrows ==
  ASSUME NEW s \in InputState, NEW t \in InputState, NEW u \in InputState,
         NEW level, NEW e \in Elapsed, PollSamples(t, s, level),
         u.polled = Later(t.polled, e, PollInterval),
         u.scanned = Later(t.scanned, e, ScanInterval)
  PROVE  /\ Waited(u) >= e
         /\ \/ Waited(u) >= Waited(s) + e /\ SameMatrix(t, s)
            \/ Sampled(s.matrix, s.keys, s.settled, MatrixDebounce, level \cap MatrixKeys,
                       t.matrix, t.keys, t.settled)
<1> DEFINE P == PollInterval
           S == ScanInterval
           L == Max(Elapsed)
<1>1. P \in Nat /\ S \in Nat /\ L \in Nat /\ e \in Nat /\ e >= 1 /\ e <= L
  BY TimesAreNumbers, LongestPass
<1>2. /\ s.scanned \in Nat /\ s.polled \in Nat /\ t.scanned \in Nat /\ t.polled \in Nat
      /\ u.scanned \in Nat /\ u.polled \in Nat
  BY DEF InputState
<1>3. /\ Waited(s) = IF s.scanned < S THEN s.scanned
                     ELSE S + (IF s.polled < P THEN s.polled ELSE P + L)
      /\ Waited(u) = IF u.scanned < S THEN u.scanned
                     ELSE S + (IF u.polled < P THEN u.polled ELSE P + L)
  BY DEF Waited
<1>4. /\ u.polled = IF t.polled + e > P THEN P ELSE t.polled + e
      /\ u.scanned = IF t.scanned + e > S THEN S ELSE t.scanned + e
  BY DEF Later
<1>5. \/ s.polled < P /\ t.polled = s.polled /\ t.scanned = s.scanned /\ SameMatrix(t, s)
      \/ t.polled = 0 /\ s.scanned < S /\ t.scanned = s.scanned /\ SameMatrix(t, s)
      \/ /\ t.polled = 0 /\ t.scanned = 0
         /\ Sampled(s.matrix, s.keys, s.settled, MatrixDebounce, level \cap MatrixKeys,
                    t.matrix, t.keys, t.settled)
  BY DEF PollSamples, SameMatrix
<1> HIDE DEF P, S, L
<1>6. Waited(u) >= e
  <2>1. CASE u.scanned < S
    BY <1>1, <1>2, <1>3, <1>4, <2>1
  <2>2. CASE ~ (u.scanned < S)
    BY <1>1, <1>2, <1>3, <1>4, <2>2
  <2> QED
    BY <2>1, <2>2
<1>7. CASE s.polled < P /\ t.polled = s.polled /\ t.scanned = s.scanned /\ SameMatrix(t, s)
  <2>1. Waited(u) >= Waited(s) + e
    <3>1. CASE s.scanned < S
      BY <1>1, <1>2, <1>3, <1>4, <1>7, <3>1
    <3>2. CASE ~ (s.scanned < S)
      BY <1>1, <1>2, <1>3, <1>4, <1>7, <3>2
    <3> QED
      BY <3>1, <3>2
  <2> QED
    BY <1>6, <1>7, <2>1
<1>8. CASE t.polled = 0 /\ s.scanned < S /\ t.scanned = s.scanned /\ SameMatrix(t, s)
  <2>1. Waited(u) >= Waited(s) + e
    BY <1>1, <1>2, <1>3, <1>4, <1>8
  <2> QED
    BY <1>6, <1>8, <2>1
<1> QED
  BY <1>5, <1>6, <1>7, <1>8

(* A pass sees the keys, or the contacts still bounce, or it was not yet time. *)
LEMMA SeenInPass ==
  ASSUME PanelType, SeenState, NEW level \in Levels, NEW e \in Elapsed,
         NEW t \in InputState, PassWith(t, level, e)
  PROVE  SeenState'
<1> DEFINE P == PollInterval
           S == ScanInterval
           L == Max(Elapsed)
           M == MatrixDebounce
           held == finger \cap MatrixKeys
           seen == level \cap MatrixKeys
<1>1. /\ P \in Nat /\ S \in Nat /\ L \in Nat /\ M \in Nat /\ M >= 1 /\ Bounce \in Nat
      /\ e \in Nat /\ e >= 1 /\ e <= L
  BY TimesAreNumbers, LongestPass
<1>2. /\ in \in InputState /\ in' \in InputState /\ behind \in Nat
      /\ finger' = finger /\ PollSamples(t, in, level)
      /\ behind' = IF t.keys = held \/ Forgets(t) THEN 0 ELSE Later(behind, e, AnswerTime)
      /\ in'.polled = Later(t.polled, e, PollInterval)
      /\ in'.scanned = Later(t.scanned, e, ScanInterval)
      /\ in'.settled = Later(t.settled, e, MatrixDebounce)
      /\ ~ Forgets(t) => in'.matrix = t.matrix
  BY DEF PanelType, PassWith
<1>3. \A b \in MatrixKeys : /\ bounce[b] \in 0 .. Bounce /\ bounce'[b] = Left(bounce[b], e)
                            /\ bounce[b] > 0 => bounce[b] + behind <= Bounce
  BY DEF PanelType, PassWith, Left, SeenState, Buttons
<1>4. /\ Waited(in) \in Nat /\ Waited(in) <= S + P + L /\ Settling(in) \in Nat
      /\ Waited(in') \in Nat /\ Settling(in') \in Nat
  BY <1>2, WaitedIsBounded
<1>5. behind' \in Nat /\ (behind' = 0 \/ (~ Forgets(t) /\ t.keys # held /\ behind' <= behind + e))
  <2>1. AnswerTime \in Nat
    BY <1>1 DEF AnswerTime
  <2> QED
    BY <1>1, <1>2, <2>1 DEF Later
<1>6. \A b \in MatrixKeys : bounce'[b] > 0 => bounce'[b] + behind' <= Bounce
  BY <1>1, <1>2, <1>3, <1>5 DEF Left
<1>7. /\ Waited(in') >= e
      /\ \/ Waited(in') >= Waited(in) + e /\ SameMatrix(t, in)
         \/ Sampled(in.matrix, in.keys, in.settled, M, seen, t.matrix, t.keys, t.settled)
  BY <1>2, WaitedGrows
<1>8. /\ in.settled \in Nat /\ t.settled \in Nat /\ in'.settled \in Nat
      /\ in'.settled = IF t.settled + e > M THEN M ELSE t.settled + e
      /\ Settling(in) = IF in.settled < M THEN in.settled ELSE M - 1 + Waited(in)
      /\ Settling(in') = IF in'.settled < M THEN in'.settled ELSE M - 1 + Waited(in')
  BY <1>2 DEF InputState, Later, Settling
<1>9. IF in.matrix # held THEN behind <= Bounce + Waited(in)
      ELSE behind <= Bounce + S + P + L + Settling(in)
  BY DEF SeenState
<1>10. seen # held => behind <= Bounce
  <2>1. ASSUME seen # held
        PROVE  \E b \in MatrixKeys : bounce[b] > 0
    <3>1. PICK b \in MatrixKeys : ~ (b \in level <=> b \in finger)
      BY <2>1
    <3>2. bounce[b] # 0
      BY <3>1, LevelsShow, ButtonsDiffer
    <3> QED
      BY <1>1, <1>3, <3>2
  <2> QED
    BY <1>1, <1>2, <1>3, <2>1
<1> DEFINE Fine == IF in'.matrix # held THEN behind' <= Bounce + Waited(in')
                   ELSE behind' <= Bounce + S + P + L + Settling(in')
<1> HIDE DEF P, S, L, M, held, seen
<1>11. ASSUME behind' = 0
       PROVE  Fine
  BY <1>1, <1>4, <1>11
<1>12. ASSUME behind' # 0, Waited(in') >= Waited(in) + e, SameMatrix(t, in)
       PROVE  Fine
  <2>1. in'.matrix = in.matrix /\ t.settled = in.settled /\ behind' <= behind + e
    BY <1>2, <1>5, <1>12 DEF SameMatrix
  <2>2. Settling(in') >= Settling(in) + e
    BY <1>1, <1>4, <1>8, <1>12, <2>1
  <2> QED
    BY <1>1, <1>2, <1>4, <1>5, <1>9, <1>12, <2>1, <2>2
<1>13. ASSUME behind' # 0,
              Sampled(in.matrix, in.keys, in.settled, M, seen, t.matrix, t.keys, t.settled)
       PROVE  Fine
  <2>1. in'.matrix = t.matrix /\ t.keys # held /\ behind' <= behind + e /\ t.matrix = seen
    BY <1>2, <1>5, <1>13 DEF Sampled
  <2>2. CASE seen # held
    BY <1>1, <1>2, <1>4, <1>5, <1>7, <1>10, <2>1, <2>2
  <2>3. CASE seen = held /\ seen # in.matrix
    <3>1. t.settled = 0 /\ behind <= Bounce + Waited(in)
      BY <1>9, <1>13, <2>3 DEF Sampled
    <3>2. Settling(in') >= e
      BY <1>1, <1>4, <1>7, <1>8, <3>1
    <3> QED
      BY <1>1, <1>2, <1>4, <1>5, <2>1, <2>3, <3>1, <3>2
  <2>4. CASE seen = held /\ seen = in.matrix
    <3>1. t.settled = in.settled /\ in.settled < M
      BY <1>1, <1>8, <1>13, <2>1, <2>4 DEF Sampled
    <3>2. Settling(in') >= Settling(in) + e
      BY <1>1, <1>4, <1>7, <1>8, <3>1
    <3> QED
      BY <1>1, <1>2, <1>4, <1>5, <1>9, <2>1, <2>4, <3>2
  <2> QED
    BY <2>2, <2>3, <2>4
<1>14. Fine
  BY <1>7, <1>11, <1>12, <1>13
<1> QED
  BY <1>2, <1>6, <1>14 DEF SeenState, P, S, L, held

-----------------------------------------------------------------------------
(* Shift alone *)

(* An event given with Shift marks Shift as used, until it is seen pushed again. *)
ShiftState ==
  /\ in.shift => Shift \in in.debounced
  /\ ~ in.saver => in.pending = {}
  /\ modified /\ Shift \in in.debounced => in.consumed \/ Shift \in cleared

(* A pass gives a tap of Shift only if Shift was not used. *)
LEMMA ShiftInPass ==
  ASSUME PanelType, ShiftState, NEW level, NEW e,
         NEW t \in InputState, PassWith(t, level, e)
  PROVE  /\ ShiftState'
         /\ Event(Shift, "tap") \in given' => ~ modified \/ Shift \in cleared
<1>1. /\ PollNotes(t, in) /\ given' \subseteq t.pending \ in.pending
      /\ in'.debounced = t.debounced /\ in'.shift = t.shift
      /\ ~ Forgets(t) => in'.consumed = t.consumed
      /\ ~ in'.saver => in'.pending = {}
      /\ cleared' = LET believed == finger \cup t.debounced \cup t.matrix IN
                    IF Forgets(t) THEN believed ELSE cleared \cap believed
      /\ modified' = ((modified /\ ~(t.shift /\ ~in.shift)) \/ \E x \in given' :
                        x.how = "shifted" \/ (x.how \in {"turn", "press"} /\ in.shift))
  BY DEF PassWith
<1>2. in'.shift => Shift \in in'.debounced
  BY <1>1 DEF ShiftState, PollNotes
<1>3. Event(Shift, "tap") \in given' => ~ modified \/ Shift \in cleared
  BY <1>1 DEF ShiftState, PollNotes
<1>4. ASSUME modified', Shift \in t.debounced, ~ Forgets(t)
      PROVE  t.consumed \/ Shift \in cleared'
  <2>1. CASE modified /\ ~ (t.shift /\ ~ in.shift) /\ Shift \in in.debounced
    BY <1>1, <1>4, <2>1 DEF ShiftState, PollNotes
  <2>2. CASE modified /\ ~ (t.shift /\ ~ in.shift) /\ Shift \notin in.debounced
    <3>1. ~ in.shift /\ t.shift = (Shift \in t.debounced)
      BY <1>1, <1>4, <2>2 DEF ShiftState, PollNotes
    <3> QED
      BY <1>4, <2>2, <3>1
  <2>3. CASE \E x \in given' : x.how = "shifted" \/ (x.how \in {"turn", "press"} /\ in.shift)
    BY <1>1, <2>3 DEF PollNotes
  <2> QED
    BY <1>1, <1>4, <2>1, <2>2, <2>3
<1>5. modified' /\ Shift \in in'.debounced => in'.consumed \/ Shift \in cleared'
  <2>1. CASE Forgets(t)
    BY <1>1, <2>1
  <2>2. CASE ~ Forgets(t)
    BY <1>1, <1>4, <2>2
  <2> QED
    BY <2>1, <2>2
<1> QED
  BY <1>1, <1>2, <1>3, <1>5 DEF ShiftState

-----------------------------------------------------------------------------
(* The panel as a whole *)

PanelState == PanelType /\ ShiftState /\ PressState /\ SeenState

(* A pass leaves the panel in a state of its type. *)
LEMMA TypeInPass ==
  ASSUME PanelType, NEW level, NEW e \in Elapsed,
         NEW t \in InputState, PassWith(t, level, e)
  PROVE  PanelType'
<1>1. e \in Nat /\ AnswerTime \in Nat
  BY LongestPass, TimesAreNumbers DEF AnswerTime
<1>2. /\ in' \in InputState /\ finger' = finger
      /\ bounce' = [b \in Buttons |-> IF bounce[b] > e THEN bounce[b] - e ELSE 0]
      /\ fresh' \subseteq fresh
      /\ cleared' \subseteq cleared \cup finger \cup t.debounced \cup t.matrix
      /\ behind' = 0 \/ behind' = Later(behind, e, AnswerTime)
      /\ modified' \in BOOLEAN /\ turned' \in BOOLEAN
  BY DEF PassWith
<1>3. t.debounced \subseteq Buttons /\ t.matrix \subseteq Buttons
  BY DEF InputState, Buttons
<1>4. behind' \in Nat
  BY <1>1, <1>2 DEF PanelType, Later
<1>5. bounce' \in [Buttons -> 0 .. Bounce]
  <2>1. \A n \in 0 .. Bounce : (IF n > e THEN n - e ELSE 0) \in 0 .. Bounce
    BY <1>1, TimesAreNumbers
  <2> QED
    BY <1>2, <2>1 DEF PanelType
<1> QED
  BY <1>2, <1>3, <1>4, <1>5 DEF PanelType

(* The machine may start with buttons held down. *)
LEMMA PanelStartsInState ==
  InputInit => PanelState
<1> SUFFICES ASSUME InputInit PROVE PanelState
  OBVIOUS
<1>1. /\ finger \in SUBSET Buttons /\ finger \in HeldAtStart
      /\ Encoder \in finger \/ Encoder \notin finger
  BY InputAssumption DEF InputInit
<1>2. in \in InputState
  <2> DEFINE pin == Encoder \in finger
             d == finger \cap Direct
  <2>1. pin \in BOOLEAN /\ d \in SUBSET Direct
    OBVIOUS
  <2>2. in = [candidate |-> d, stable |-> 0, debounced |-> d, shift |-> FALSE,
              consumed |-> FALSE, armed |-> FALSE, released |-> 0, ignore |-> StartupIgnore,
              polled |-> 0, scanned |-> 0, matrix |-> {}, settled |-> 0, keys |-> {},
              pin |-> pin, down |-> FALSE, fired |-> FALSE, since |-> 0, pending |-> {},
              idle |-> 0, saver |-> FALSE, idleBefore |-> 0]
    BY DEF InputInit
  <2> HIDE DEF pin, d
  <2> QED
    BY <2>1, <2>2, TimesAreNumbers DEF InputState
<1>3. /\ in.candidate = finger \cap Direct /\ in.debounced = finger \cap Direct
      /\ in.shift = FALSE /\ in.pending = {} /\ in.matrix = {} /\ in.keys = {}
      /\ in.stable = 0 /\ in.settled = 0
  BY DEF InputInit
<1>4. bounce \in [Buttons -> 0 .. Bounce] /\ \A b \in Buttons : bounce[b] = 0
  BY TimesAreNumbers DEF InputInit
<1>5. fresh = finger \cap MatrixKeys /\ cleared = {} /\ behind = 0 /\ modified = FALSE
      /\ turned = FALSE
  BY DEF InputInit
<1>6. PanelType
  BY <1>1, <1>2, <1>4, <1>5 DEF PanelType
<1>7. ShiftState
  BY <1>3, <1>5 DEF ShiftState
<1>8. PressState
  <2>1. MatrixKeys \subseteq Buttons /\ Plain \subseteq Buttons /\ Plain \subseteq Direct
    BY DEF Buttons, Direct
  <2> QED
    BY <1>3, <1>4, <1>5, <2>1 DEF PressState, Debounces
<1>9. SeenState
  <2>1. MatrixKeys \subseteq Buttons
    BY DEF Buttons
  <2> QED
    BY <1>2, <1>4, <1>5, <2>1, WaitedIsBounded, TimesAreNumbers, LongestPass DEF SeenState
<1> QED
  BY <1>6, <1>7, <1>8, <1>9 DEF PanelState

(* A finger on a button or off it: the contact begins to bounce. *)
LEMMA PanelInContact ==
  ASSUME PanelState, NEW b \in Buttons,
         UNCHANGED <<in, cleared, modified, turned>>,
         bounce' = [bounce EXCEPT ![b] = Bounce],
         behind' = IF b \in MatrixKeys THEN 0 ELSE behind,
         \/ finger' = finger \cup {b} /\ fresh' = fresh \cup ({b} \cap Pressable)
         \/ b \in finger /\ finger' = finger \ {b} /\ fresh' = fresh
  PROVE  PanelState'
<1>1. /\ MatrixKeys \subseteq Buttons /\ Plain \subseteq Buttons
      /\ Pressable = MatrixKeys \cup Plain
  BY DEF Buttons, Direct, Pressable
<1>2. /\ in' = in /\ cleared' = cleared /\ modified' = modified /\ turned' = turned
      /\ fresh \subseteq fresh' /\ fresh' \subseteq fresh \cup {b}
      /\ b \in Pressable /\ b \in finger' => b \in fresh' \/ finger' = finger \ {b}
      /\ finger' \subseteq Buttons
  BY DEF PanelState, PanelType
<1>3. /\ Bounce \in 0 .. Bounce /\ Bounce \in Nat
      /\ bounce' \in [Buttons -> 0 .. Bounce] /\ bounce \in [Buttons -> 0 .. Bounce]
      /\ bounce'[b] = Bounce /\ \A a \in Buttons \ {b} : bounce'[a] = bounce[a]
  <2>1. Bounce \in 0 .. Bounce /\ Bounce \in Nat
    BY TimesAreNumbers
  <2> QED
    BY <2>1 DEF PanelState, PanelType
<1>4. PanelType'
  BY <1>2, <1>3 DEF PanelState, PanelType
<1>5. ShiftState'
  BY <1>2 DEF PanelState, ShiftState
<1>6. ASSUME NEW a \in Buttons, NEW known, NEW known2, NEW candidate, NEW debounced,
             NEW age, known \subseteq known2, a = b /\ finger' = finger \cup {b} => a \in known2,
             Debounces(a, bounce[a], finger, known, candidate, debounced, age)
      PROVE  Debounces(a, bounce'[a], finger', known2, candidate, debounced, age)
  <2>1. CASE a # b
    <3>1. bounce'[a] = bounce[a] /\ (a \in finger' <=> a \in finger)
      BY <1>3, <1>6, <2>1
    <3> QED
      BY <1>6, <3>1 DEF Debounces
  <2>2. CASE a = b /\ finger' = finger \cup {b}
    BY <1>6, <2>2 DEF Debounces
  <2>3. CASE a = b /\ b \in finger /\ finger' = finger \ {b}
    BY <1>6, <2>3 DEF Debounces
  <2> QED
    BY <2>1, <2>2, <2>3
<1>7. PressState'
  <2>1. ASSUME NEW a \in MatrixKeys
        PROVE  Debounces(a, bounce'[a], finger', fresh' \cup cleared', in.matrix, in.keys,
                         in.settled)
    <3> DEFINE known == fresh \cup cleared
               known2 == fresh' \cup cleared'
    <3>1. known \subseteq known2
      BY <1>2
    <3>2. a = b /\ finger' = finger \cup {b} => a \in known2
      BY <1>1
    <3>3. Debounces(a, bounce[a], finger, known, in.matrix, in.keys, in.settled)
      BY DEF PanelState, PressState
    <3>4. a \in Buttons
      BY <1>1
    <3> HIDE DEF known, known2
    <3>5. Debounces(a, bounce'[a], finger', known2, in.matrix, in.keys, in.settled)
      BY <1>6, <3>1, <3>2, <3>3, <3>4
    <3> QED
      BY <3>5 DEF known2
  <2>2. ASSUME NEW a \in Plain
        PROVE  Debounces(a, bounce'[a], finger', fresh', in.candidate, in.debounced,
                         in.stable)
    <3>1. fresh \subseteq fresh'
      BY <1>2
    <3>2. a = b /\ finger' = finger \cup {b} => a \in fresh'
      BY <1>1
    <3>3. Debounces(a, bounce[a], finger, fresh, in.candidate, in.debounced, in.stable)
      BY DEF PanelState, PressState
    <3>4. a \in Buttons
      BY <1>1
    <3> QED
      BY <1>6, <3>1, <3>2, <3>3, <3>4
  <2> QED
    BY <1>2, <2>1, <2>2 DEF PressState
<1>8. SeenState'
  <2>1. in \in InputState /\ behind \in Nat
    BY DEF PanelState, PanelType
  <2>2. Waited(in) \in Nat /\ Settling(in) \in Nat
    BY <2>1, WaitedIsBounded
  <2>3. CASE b \in MatrixKeys
    <3>1. \A a \in MatrixKeys : bounce'[a] > 0 => bounce'[a] + behind' <= Bounce
      BY <1>1, <1>3, <2>3
    <3> QED
      BY <1>2, <1>3, <2>2, <2>3, <3>1, TimesAreNumbers, LongestPass DEF SeenState
  <2>4. CASE b \notin MatrixKeys
    <3>1. finger' \cap MatrixKeys = finger \cap MatrixKeys /\ behind' = behind
      BY <2>4
    <3>2. \A a \in MatrixKeys : bounce'[a] = bounce[a]
      BY <1>1, <1>3, <2>4
    <3> QED
      BY <1>2, <3>1, <3>2 DEF PanelState, SeenState
  <2> QED
    BY <2>3, <2>4
<1> QED
  BY <1>4, <1>5, <1>7, <1>8 DEF PanelState

(* A pass keeps the panel consistent, and gives no press and no tap it should not. *)
LEMMA PanelInPass ==
  ASSUME PanelState, NEW level \in Levels, NEW e \in Elapsed, Pass(level, e)
  PROVE  /\ PanelState'
         /\ \A x \in given' : x.how \in {"plain", "shifted"} => x.button \in fresh \cup cleared
         /\ Event(Shift, "tap") \in given' => ~ modified \/ Shift \in cleared
<1>1. PICK t \in InputState : PassWith(t, level, e)
  BY PassIs DEF PanelState, ShiftState
<1>2. PanelType'
  BY <1>1, TypeInPass DEF PanelState
<1>3. ShiftState' /\ (Event(Shift, "tap") \in given' => ~ modified \/ Shift \in cleared)
  BY <1>1, ShiftInPass DEF PanelState
<1>4. /\ PressState'
      /\ \A b \in Plain : b \in t.debounced \ in.debounced => b \in fresh
      /\ \A b \in MatrixKeys : b \in t.keys \ in.keys => b \in fresh \cup cleared
  BY <1>1, PressStateInPass DEF PanelState
<1>5. SeenState'
  BY <1>1, SeenInPass DEF PanelState
<1>6. ASSUME NEW x \in given', x.how \in {"plain", "shifted"}
      PROVE  x.button \in fresh \cup cleared
  <2>1. x.button \in ((t.debounced \ in.debounced) \ {Shift}) \cup (t.keys \ in.keys)
    BY <1>1, <1>6 DEF PassWith, PollNotes
  <2>2. t.debounced \subseteq Plain \cup {Shift} /\ t.keys \subseteq MatrixKeys
    BY DEF InputState, Direct
  <2> QED
    BY <1>4, <2>1, <2>2
<1> QED
  BY <1>2, <1>3, <1>4, <1>5, <1>6 DEF PanelState

(* Every step keeps the panel consistent. *)
LEMMA PanelStaysInState ==
  ASSUME PanelState, [InputNext]_inputVars
  PROVE  PanelState'
<1>1. ASSUME NEW b \in Buttons, Push(b)
      PROVE  PanelState'
  BY <1>1, PanelInContact DEF Push
<1>2. ASSUME NEW b \in Buttons, Release(b)
      PROVE  PanelState'
  BY <1>2, PanelInContact DEF Release
<1>3. CASE TurnEncoder
  <2>1. PanelState'
    BY <1>3 DEF TurnEncoder, PanelState, PanelType, ShiftState, PressState, SeenState
  <2> QED
    BY <2>1
<1>4. ASSUME NEW level \in Levels, NEW e \in Elapsed, Pass(level, e)
      PROVE  PanelState'
  BY <1>4, PanelInPass
<1>5. CASE UNCHANGED inputVars
  <2>1. PanelState'
    BY <1>5 DEF inputVars, PanelState, PanelType, ShiftState, PressState, SeenState
  <2> QED
    BY <2>1
<1> QED
  BY <1>1, <1>2, <1>3, <1>4, <1>5 DEF InputNext

(* In every reachable state the parts of the panel agree on what is held, pressed and
   used with Shift, for every panel and every interval of ui_input.c. *)
THEOREM PanelIsConsistent ==
  InputSpec => []PanelState
<1>1. InputInit => PanelState
  BY PanelStartsInState
<1>2. PanelState /\ [InputNext]_inputVars => PanelState'
  BY PanelStaysInState
<1> QED
  BY <1>1, <1>2, PTL DEF InputSpec

(* The poll sees the keys as they are held within AnswerTime, for every panel, however
   the contacts bounce, whatever is done with the other buttons and however long the
   passes of the main loop take: the scan cannot be starved. *)
THEOREM KeysSeenInTime ==
  InputSpec => []KeysAreSeen
<1>1. PanelState => KeysAreSeen
  <2> SUFFICES ASSUME PanelState PROVE KeysAreSeen
    OBVIOUS
  <2>1. in \in InputState /\ behind \in Nat
    BY DEF PanelState, PanelType
  <2>2. /\ Waited(in) \in Nat /\ Waited(in) <= ScanInterval + PollInterval + Max(Elapsed)
        /\ Settling(in) \in Nat
        /\ Settling(in) <= MatrixDebounce - 1 + ScanInterval + PollInterval + Max(Elapsed)
    BY <2>1, WaitedIsBounded
  <2>3. \/ behind <= Bounce + Waited(in)
        \/ behind <= Bounce + ScanInterval + PollInterval + Max(Elapsed) + Settling(in)
    BY DEF PanelState, SeenState
  <2> QED
    BY <2>1, <2>2, <2>3, TimesAreNumbers, LongestPass DEF KeysAreSeen, AnswerTime
<1> QED
  BY <1>1, PanelIsConsistent, PTL

(* Every press the interface is given of a key, PLAY or REC belongs to a push that gave
   none before, or the screensaver forgot the button while it was down. *)
THEOREM OnePressEach ==
  InputSpec => OnePressPerPush
<1> DEFINE PressIsDue ==
             \A x \in given' : x.how \in {"plain", "shifted"} => x.button \in fresh \cup cleared
<1>1. PanelState /\ [InputNext]_inputVars => [PressIsDue]_inputVars
  <2> SUFFICES ASSUME PanelState, InputNext PROVE PressIsDue
    BY DEF inputVars
  <2>1. ASSUME NEW b \in Buttons, Push(b) \/ Release(b)
        PROVE  given' = {}
    BY <2>1 DEF Push, Release
  <2>2. CASE TurnEncoder
    BY <2>2 DEF TurnEncoder
  <2>3. ASSUME NEW level \in Levels, NEW e \in Elapsed, Pass(level, e)
        PROVE  PressIsDue
    BY <2>3, PanelInPass
  <2> QED
    BY <2>1, <2>2, <2>3 DEF InputNext
<1>2. InputSpec => [][InputNext]_inputVars
  BY DEF InputSpec
<1> QED
  BY <1>1, <1>2, PanelIsConsistent, PTL DEF OnePressPerPush

(* A tap of Shift is given only when nothing was done with Shift while it was held, or
   the screensaver forgot it while it was down. *)
THEOREM TapsAreUnmodified ==
  InputSpec => TapIsUnmodified
<1> DEFINE Unmodified == Event(Shift, "tap") \in given' => ~ modified \/ Shift \in cleared
<1>1. PanelState /\ [InputNext]_inputVars => [Unmodified]_inputVars
  <2> SUFFICES ASSUME PanelState, InputNext PROVE Unmodified
    BY DEF inputVars
  <2>1. ASSUME NEW b \in Buttons, Push(b) \/ Release(b)
        PROVE  given' = {}
    BY <2>1 DEF Push, Release
  <2>2. CASE TurnEncoder
    BY <2>2 DEF TurnEncoder
  <2>3. ASSUME NEW level \in Levels, NEW e \in Elapsed, Pass(level, e)
        PROVE  Unmodified
    BY <2>3, PanelInPass
  <2> QED
    BY <2>1, <2>2, <2>3 DEF InputNext
<1>2. InputSpec => [][InputNext]_inputVars
  BY DEF InputSpec
<1> QED
  BY <1>1, <1>2, PanelIsConsistent, PTL DEF TapIsUnmodified

(* Both of what the run checks: the events of UI_Input_Poll are the pushes of the panel,
   for any buttons and intervals and any bouncing shorter than the debouncing. *)
THEOREM EventsAreWhatWasPushed == InputSpec => EventsArePushes
BY OnePressEach, TapsAreUnmodified DEF EventsArePushes
=============================================================================
