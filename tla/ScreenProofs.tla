---------------------------- MODULE ScreenProofs ----------------------------
(***************************************************************************)
(* Proofs about the three screens that draw only what they believe to have *)
(* changed: the bar editor, the main grid and the menus.  Each has the     *)
(* same argument.  A screen compares what it is given with what it drew    *)
(* last, so its invariant says what the display shows of what was drawn    *)
(* last, and that each difference from what it was given since is named by *)
(* a flag or seen by a comparison that is still to come.                   *)
(***************************************************************************)
EXTENDS PianoScreen, GridScreen, MenuScreens, SequenceTheorems, WellFoundedInduction, TLAPS

-----------------------------------------------------------------------------
(* The bar editor *)

BarShape(s) ==
  /\ s = [ledger |-> s.ledger, length |-> s.length, lane |-> s.lane,
          explicit |-> s.explicit, skip |-> s.skip, mask |-> s.mask, type |-> s.type]
  /\ s.ledger \in [Positions -> SUBSET Nat] /\ s.length \in [Positions -> Nat]

LedgerShape ==
  /\ slot = [b \in Bars |-> slot[b]] /\ \A b \in Bars : BarShape(slot[b])
  /\ division \in Divisions /\ bar \in BarLengths /\ Steps(bar, division) # 0

Now == Columns(Steps(bar, division))

EdShape(e) ==
  /\ e = [mode |-> e.mode, bar |-> e.bar, slot |-> e.slot, top |-> e.top,
          selected |-> e.selected, length |-> e.length, pending |-> e.pending,
          question |-> e.question, yes |-> e.yes]
  /\ e.mode \in {"closed", "editor", "menu", "asleep"}
  /\ {e.length, e.yes} \subseteq BOOLEAN

(* The cursor stays within the rows it moves over, and those within the pitches. *)
CursorPlaced(e) ==
  /\ e.bar \in Bars /\ e.slot \in Nat /\ e.pending \in Nat
  /\ e.top \in LowestTop(ViewRows) .. PitchMax
  /\ e.selected \in PitchMin .. e.top /\ e.selected > e.top - ViewRows

EdType ==
  /\ EdShape(ed)
  /\ ed.mode # "closed" => CursorPlaced(ed)
  /\ ed.mode \in {"editor", "asleep"} => ed.slot < Now

ContextShape(c) ==
  c = [step |-> c.step, top |-> c.top, selected |-> c.selected, slot |-> c.slot,
       count |-> c.count, division |-> c.division, cv |-> c.cv, length |-> c.length,
       pending |-> c.pending, question |-> c.question, yes |-> c.yes, skip |-> c.skip,
       slots |-> c.slots, spans |-> c.spans]

ScreenType ==
  /\ scr = [now |-> scr.now, last |-> scr.last, dirty |-> scr.dirty, before |-> scr.before,
            layout |-> scr.layout, redraw |-> scr.redraw]
  /\ scr.redraw \in BOOLEAN /\ ContextShape(scr.now)
  /\ disp = [rows |-> disp.rows, header |-> disp.header, covered |-> disp.covered,
             box |-> disp.box]
  /\ disp.covered \subseteq UnderDialog
  /\ pass = [stage |-> pass.stage, inputs |-> pass.inputs] /\ pass.stage \in 0 .. 3

(* The events of a context do not reach into one another. *)
ContextOK(c) ==
  /\ ContextShape(c)
  /\ c.count \in 1 .. Columns(LedgerMax) /\ c.slot \in 0 .. c.count - 1 /\ c.top \in Int
  /\ c.length \in BOOLEAN
  /\ \A p \in Places : c.spans[p] \in Nat /\ (c.spans[p] = 0 <=> c.slots[p] = {})
  /\ \A p, q \in Places : p < q /\ c.slots[q] # {} => p + c.spans[p] <= q

(* What the screen was given last is what the editor would give it now, but for the
   notes it does not have after the screensaver. *)
GivenInv ==
  ed.mode \in {"editor", "asleep"} =>
    /\ scr.now = [Context EXCEPT !.slots = scr.now.slots, !.spans = scr.now.spans]
    /\ \/ scr.now.slots = Context.slots /\ scr.now.spans = Context.spans
       \/ /\ scr.now.slots = NoNotes /\ scr.now.spans = NoSpans
          /\ scr.last.slots = NoNotes /\ scr.last.spans = NoSpans

RowLit(c, r, lit) ==
  [label |-> c.top - r, lane |-> (c.top - r) % Octave, cursor |-> c.slot, lit |-> lit,
   cells |-> [i \in 0 .. c.count - 1 |-> Cell(c, i, c.top - r)]]

Shows(d, c) ==
  /\ \A r \in Rows \ d.covered : \E lit \in BOOLEAN : d.rows[r] = RowLit(c, r, lit)
  /\ d.header = Header(c)
  /\ c.question # "none" => d.covered = UnderDialog /\ d.box = <<c.question, c.yes>>

(* What differs from the context that was drawn is named by a flag. *)
HeaderFlagged(s) ==
  /\ s.now.selected # s.last.selected => "NOTE" \in s.dirty
  /\ s.now.top # s.last.top => "RNG" \in s.dirty
  /\ s.now.slot # s.last.slot => "POS" \in s.dirty
  /\ s.now.skip # s.last.skip => "SKIP" \in s.dirty
  /\ s.now.division # s.last.division => "GRID" \in s.dirty
  /\ s.now.cv # s.last.cv => "CV" \in s.dirty

NotesFlagged(s, stage) ==
  \A p \in Places, x \in Int :
    (x \in s.now.slots[p] \/ x \in s.last.slots[p])
      /\ ~ (x \in s.now.slots[p] /\ x \in s.last.slots[p])
      => \/ x = s.now.selected /\ "ROW_NEW" \in s.dirty
         \/ x = s.before /\ "ROW_OLD" \in s.dirty /\ stage = 3

RowsFlagged(s, stage) ==
  /\ s.now.top # s.last.top => "BODY_FULL" \in s.dirty
  /\ s.now.slot # s.last.slot => "SLOT_BODY" \in s.dirty
  /\ "BODY_FULL" \in s.dirty => ~s.now.length /\ ~s.last.length
  /\ {"BODY_FULL", "SPAN_ROWS"} \cap s.dirty = {} =>
       s.now.spans = s.last.spans /\ s.now.length = s.last.length
  /\ {"BODY_FULL", "SPAN_ROWS", "SLOT_BODY"} \cap s.dirty = {} => NotesFlagged(s, stage)

EditorInv ==
  InEditor =>
    /\ scr.layout /\ ContextOK(scr.last) /\ Shows(disp, scr.last)
    /\ scr.now.step = scr.last.step /\ scr.now.count = scr.last.count
    /\ HeaderFlagged(scr) /\ RowsFlagged(scr, pass.stage)
    /\ ~scr.redraw => scr.now = scr.last /\ scr.dirty = {}
    /\ pass.stage = 0 => ~scr.redraw

ScreenInv == LedgerShape /\ EdType /\ ScreenType /\ GivenInv /\ EditorInv

(* A set of numbers that has an element has a least one, and MinOf is it. *)
LEMMA LeastOf ==
  ASSUME NEW S \in SUBSET Nat, S # {}
  PROVE  MinOf(S) \in S /\ \A y \in S : MinOf(S) <= y
<1>1. PICK x \in S : \A y \in S : ~ (<<y, x>> \in OpToRel(<, Nat))
  BY NatLessThanWellFounded, WFMin
<1>2. \A y \in S : ~ (y < x)
  BY <1>1 DEF OpToRel
<1>3. \A y \in S : x <= y
  BY <1>2
<1> QED
  BY <1>3 DEF MinOf

LEMMA OfTwo ==
  ASSUME NEW a \in Int, NEW b \in Int
  PROVE  /\ MinOf({a, b}) \in {a, b} /\ MinOf({a, b}) <= a /\ MinOf({a, b}) <= b
         /\ MaxOf({a, b}) \in {a, b} /\ MaxOf({a, b}) >= a /\ MaxOf({a, b}) >= b
<1>1. \E x \in {a, b} : \A y \in {a, b} : x <= y
  OBVIOUS
<1>2. \E x \in {a, b} : \A y \in {a, b} : y <= x
  OBVIOUS
<1> QED
  BY <1>1, <1>2 DEF MinOf, MaxOf

(* The columns are as many as the steps, or a few more. *)
LEMMA ColumnsOf ==
  ASSUME NEW n \in 0 .. 32
  PROVE  /\ Columns(n) \in {4, 8, 16, 32} /\ n <= Columns(n)
         /\ \A m \in 0 .. 32 : n <= m => Columns(n) <= Columns(m)
<1>1. ASSUME NEW k \in 0 .. 32
      PROVE  /\ Columns(k) \in {4, 8, 16, 32} /\ k <= Columns(k)
             /\ \A y \in {4, 8, 16, 32} : k <= y => Columns(k) <= y
  <2> DEFINE S == {y \in {4, 8, 16, 32} : k <= y}
  <2>1. S \in SUBSET Nat /\ 32 \in S
    OBVIOUS
  <2>2. MinOf(S) \in S /\ \A y \in S : MinOf(S) <= y
    BY <2>1, LeastOf
  <2> QED
    BY <2>2 DEF Columns
<1> QED
  BY <1>1

(* The grid: a step of it starts in the bar, and the steps fill the bar. *)
LEMMA StepsFillBar ==
  ASSUME NEW d \in Divisions, NEW n \in Nat
  PROVE  /\ Steps(n, d) \in 0 .. n /\ Stride(d) \in 1 .. 8
         /\ \A i \in Nat : i < Steps(n, d) => i * Stride(d) \in 0 .. n - 1
<1>0. /\ Stride(1) = 8 /\ Stride(2) = 4 /\ Stride(4) = 2 /\ Stride(8) = 1
  BY DEF Stride
<1>1. CASE d = 1
  BY <1>0, <1>1 DEF Steps
<1>2. CASE d = 2
  BY <1>0, <1>2 DEF Steps
<1>3. CASE d = 4
  BY <1>0, <1>3 DEF Steps
<1>4. CASE d = 8
  BY <1>0, <1>4 DEF Steps
<1> QED
  BY <1>1, <1>2, <1>3, <1>4 DEF Divisions

(* An event has room up to the next one, at most to the end of the bar. *)
LEMMA RoomOfEvent ==
  ASSUME NEW s, NEW p \in Nat, NEW n \in Nat
  PROVE  /\ MaxLength(s, p, n) \in Nat \ {0}
         /\ \A q \in p + 1 .. n - 1 : IsStart(s, q) => MaxLength(s, p, n) <= q - p
<1> DEFINE S == {q \in p + 1 .. n - 1 : IsStart(s, q)} \cup {n}
<1>1. S \in SUBSET Nat /\ n \in S
  OBVIOUS
<1>2. MinOf(S) \in S /\ \A y \in S : MinOf(S) <= y
  BY <1>1, LeastOf
<1>3. NextStart(s, p, n) = MinOf(S)
  BY DEF NextStart
<1> HIDE DEF S
<1>4. MinOf(S) \in Nat
  BY <1>1, <1>2
<1>5. MaxLength(s, p, n) \in Nat \ {0}
  BY <1>3, <1>4 DEF MaxLength
<1>6. ASSUME NEW q \in p + 1 .. n - 1, IsStart(s, q)
      PROVE  MaxLength(s, p, n) <= q - p
  <2>1. q \in S
    BY <1>6 DEF S
  <2>2. MinOf(S) <= q
    BY <2>1, <1>2
  <2> QED
    BY <2>2, <1>3, <1>4 DEF MaxLength
<1> QED
  BY <1>5, <1>6

LEMMA DivideByStride ==
  ASSUME NEW d \in Divisions, NEW k \in Nat
  PROVE  /\ k \div Stride(d) \in Nat
         /\ \A m \in Nat : k <= m => k \div Stride(d) <= m \div Stride(d)
         /\ \A m \in Nat : k <= m * Stride(d) => k \div Stride(d) <= m
<1>0. /\ Stride(1) = 8 /\ Stride(2) = 4 /\ Stride(4) = 2 /\ Stride(8) = 1
  BY DEF Stride
<1>1. CASE d = 1
  BY <1>0, <1>1
<1>2. CASE d = 2
  BY <1>0, <1>2
<1>3. CASE d = 4
  BY <1>0, <1>3
<1>4. CASE d = 8
  BY <1>0, <1>4
<1> QED
  BY <1>1, <1>2, <1>3, <1>4 DEF Divisions

LEMMA GridOfBar ==
  LedgerShape =>
    /\ division \in Divisions /\ bar \in 1 .. LedgerMax /\ LedgerMax \in 2 .. 32
    /\ Steps(bar, division) \in 1 .. LedgerMax
    /\ Now \in {4, 8, 16, 32} /\ Steps(bar, division) <= Now /\ Now <= Columns(LedgerMax)
    /\ Places = 0 .. Columns(LedgerMax) - 1 /\ Columns(LedgerMax) \in {4, 8, 16, 32}
    /\ \A i \in Nat : i < Steps(bar, division) =>
         i * Stride(division) \in Positions /\ i * Stride(division) \in 0 .. bar - 1
<1> SUFFICES ASSUME LedgerShape PROVE
    /\ division \in Divisions /\ bar \in 1 .. LedgerMax /\ LedgerMax \in 2 .. 32
    /\ Steps(bar, division) \in 1 .. LedgerMax
    /\ Now \in {4, 8, 16, 32} /\ Steps(bar, division) <= Now /\ Now <= Columns(LedgerMax)
    /\ Places = 0 .. Columns(LedgerMax) - 1 /\ Columns(LedgerMax) \in {4, 8, 16, 32}
    /\ \A i \in Nat : i < Steps(bar, division) =>
         i * Stride(division) \in Positions /\ i * Stride(division) \in 0 .. bar - 1
  OBVIOUS
<1>1. LedgerMax \in Nat /\ LedgerMax >= 2 /\ BarLengths \subseteq 1 .. LedgerMax /\ LedgerMax <= 32
  BY LedgerAssumption, ScreenAssumption DEF LedgerAssumption, ScreenAssumption
<1>2. division \in Divisions /\ bar \in 1 .. LedgerMax /\ Steps(bar, division) # 0
  BY <1>1 DEF LedgerShape
<1>3. Steps(bar, division) \in 0 .. bar /\ \A i \in Nat : i < Steps(bar, division) =>
        i * Stride(division) \in 0 .. bar - 1
  BY <1>1, <1>2, StepsFillBar
<1>4. Steps(bar, division) \in 1 .. LedgerMax
  BY <1>1, <1>2, <1>3
<1>5. Now \in {4, 8, 16, 32} /\ Steps(bar, division) <= Now /\ Now <= Columns(LedgerMax)
      /\ Columns(LedgerMax) \in {4, 8, 16, 32}
  BY <1>1, <1>4, ColumnsOf DEF Now
<1>6. 0 .. bar - 1 \subseteq Positions
  BY <1>1, <1>2 DEF Positions
<1> QED
  BY <1>1, <1>2, <1>3, <1>4, <1>5, <1>6 DEF Places

(* A column is empty where the bridge gives no length, and a length is at most the room. *)
LEMMA GridLengths ==
  ASSUME LedgerShape, NEW b \in Bars, NEW i \in Nat
  PROVE  /\ GridMaxLength(slot[b], i) \in Nat \ {0}
         /\ GridLength(slot[b], i) \in 0 .. GridMaxLength(slot[b], i)
         /\ GridLength(slot[b], i) = 0 <=> Column(b, i) = {}
         /\ \A k \in Nat : i < k /\ Column(b, k) # {} => GridMaxLength(slot[b], i) <= k - i
<1> DEFINE p == i * Stride(division)
           room == MaxLength(slot[b], p, bar)
<1>1. /\ division \in Divisions /\ bar \in Nat /\ Stride(division) \in 1 .. 8
      /\ \A k \in Nat : k < Steps(bar, division) =>
           k * Stride(division) \in Positions /\ k * Stride(division) \in 0 .. bar - 1
      /\ Steps(bar, division) \in Nat
  BY GridOfBar, StepsFillBar
<1>2. p \in Nat
  BY <1>1
<1>3. room \in Nat \ {0} /\ \A q \in p + 1 .. bar - 1 : IsStart(slot[b], q) => room <= q - p
  BY <1>1, <1>2, RoomOfEvent
<1> HIDE DEF room
<1>4. room \div Stride(division) \in Nat
  BY <1>1, <1>3, DivideByStride
<1>5. GridMaxLength(slot[b], i) = AtLeastOne(room \div Stride(division))
  BY DEF GridMaxLength, room
<1>6. GridMaxLength(slot[b], i) \in Nat \ {0}
  BY <1>4, <1>5 DEF AtLeastOne
<1>7. ASSUME i < Steps(bar, division), IsStart(slot[b], p)
      PROVE  /\ GridLength(slot[b], i) \in 0 .. GridMaxLength(slot[b], i)
             /\ GridLength(slot[b], i) = 0 <=> Column(b, i) = {}
  <2>1. EventLength(slot[b], p, bar) \in 0 .. room
    <3>1. p \in Positions
      BY <1>1, <1>7
    <3>2. slot[b].length[p] \in Nat
      BY <3>1 DEF LedgerShape, BarShape
    <3> QED
      BY <3>2, <1>3, <1>7 DEF EventLength, room
  <2>2. EventLength(slot[b], p, bar) \div Stride(division) \in Nat
        /\ EventLength(slot[b], p, bar) \div Stride(division) <= room \div Stride(division)
    BY <2>1, <1>1, <1>3, DivideByStride
  <2>3. GridLength(slot[b], i) = AtLeastOne(EventLength(slot[b], p, bar) \div Stride(division))
    BY <1>7 DEF GridLength
  <2>4. GridLength(slot[b], i) \in 1 .. GridMaxLength(slot[b], i)
    BY <2>2, <2>3, <1>4, <1>5 DEF AtLeastOne
  <2>5. Column(b, i) # {}
    BY <1>7 DEF Column, IsStart
  <2> QED
    BY <2>4, <2>5, <1>6
<1>8. ASSUME ~(i < Steps(bar, division) /\ IsStart(slot[b], p))
      PROVE  /\ GridLength(slot[b], i) \in 0 .. GridMaxLength(slot[b], i)
             /\ GridLength(slot[b], i) = 0 <=> Column(b, i) = {}
  <2>1. GridLength(slot[b], i) = 0 /\ Column(b, i) = {}
    BY <1>8 DEF GridLength, Column, IsStart
  <2> QED
    BY <2>1, <1>6
<1>9. ASSUME NEW k \in Nat, i < k, Column(b, k) # {}
      PROVE  GridMaxLength(slot[b], i) <= k - i
  <2> DEFINE q == k * Stride(division)
  <2>1. k < Steps(bar, division) /\ IsStart(slot[b], q)
    BY <1>9 DEF Column, IsStart
  <2>2. q \in 0 .. bar - 1
    BY <2>1, <1>1
  <2>3. q - p = (k - i) * Stride(division) /\ q > p
    <3>1. /\ Stride(1) = 8 /\ Stride(2) = 4 /\ Stride(4) = 2 /\ Stride(8) = 1
      BY DEF Stride
    <3>2. division = 1 \/ division = 2 \/ division = 4 \/ division = 8
      BY <1>1 DEF Divisions
    <3> QED
      BY <3>1, <3>2, <1>9
  <2>4. room <= (k - i) * Stride(division)
    BY <2>1, <2>2, <2>3, <1>2, <1>3
  <2>5. room \div Stride(division) <= k - i
    BY <2>4, <1>1, <1>3, <1>9, DivideByStride
  <2> QED
    BY <2>5, <1>4, <1>5, <1>9 DEF AtLeastOne
<1> QED
  BY <1>6, <1>7, <1>8, <1>9

(* The fields of the context the editor hands to its screen. *)
LEMMA ContextFields ==
  /\ ContextShape(Context)
  /\ Context.step = ed.bar /\ Context.top = ClampTop(ed.top, BodyRows)
  /\ Context.selected = InView(ed.selected, ClampTop(ed.top, BodyRows), BodyRows)
  /\ Context.slot = ed.slot /\ Context.count = Now
  /\ Context.length = ed.length /\ Context.question = ed.question /\ Context.yes = ed.yes
  /\ Context.slots = [p \in Places |-> IF p < Now THEN Column(ed.bar, p) ELSE {}]
  /\ Context.spans = [p \in Places |-> IF p < Now THEN SpanOf(ed, p) ELSE 0]
  BY DEF Context, ContextShape, Now

(* The editor and its screen clamp the view differently, but what the one selects is
   in a row of the other, and a view that is in place stays there. *)
LEMMA Views ==
  ASSUME NEW top \in LowestTop(ViewRows) .. PitchMax, NEW x \in PitchMin .. top,
         x > top - ViewRows
  PROVE  /\ ClampTop(top, ViewRows) = top /\ InView(x, top, ViewRows) = x
         /\ ClampTop(top, BodyRows) \in Int
         /\ InView(x, ClampTop(top, BodyRows), BodyRows) = x
         /\ x <= ClampTop(top, BodyRows) /\ ClampTop(top, BodyRows) - x < BodyRows
<1>1. /\ PitchMin \in Nat /\ PitchMax \in Nat /\ BodyRows \in Nat \ {0}
      /\ ViewRows \in 1 .. BodyRows
      /\ PitchMax - PitchMin >= BodyRows
  BY ScreenAssumption DEF ScreenAssumption
<1>2. top \in Int /\ x \in Int /\ top >= PitchMin + ViewRows - 1 /\ top <= PitchMax
      /\ x >= PitchMin /\ x <= top
  BY <1>1 DEF LowestTop
<1>3. ClampTop(top, ViewRows) = top
  BY <1>1, <1>2 DEF ClampTop, Clamp, LowestTop
<1>4. PICK low \in Int : low = top - ViewRows + 1
  BY <1>1, <1>2
<1>5. InView(x, top, ViewRows) = x
  <2>1. MaxOf({PitchMin, low}) \in {PitchMin, low}
    <3>1. PitchMin \in Int
      BY <1>1
    <3> QED
      BY <3>1, OfTwo
  <2>2. InView(x, top, ViewRows) = Clamp(x, MaxOf({PitchMin, low}), top)
    BY <1>4 DEF InView
  <2> QED
    BY <1>1, <1>2, <1>4, <2>1, <2>2 DEF Clamp
<1> DEFINE t == ClampTop(top, BodyRows)
<1>6. /\ t \in Int /\ t >= top
      /\ t = top \/ t = PitchMin + BodyRows - 1
  BY <1>1, <1>2 DEF ClampTop, Clamp, LowestTop
<1> HIDE DEF t
<1>7. PICK down \in Int : down = t - BodyRows + 1
  BY <1>1, <1>6
<1>8. down <= x
  BY <1>1, <1>2, <1>6, <1>7
<1>9. InView(x, t, BodyRows) = x
  <2>1. MaxOf({PitchMin, down}) \in {PitchMin, down}
    <3>1. PitchMin \in Int
      BY <1>1
    <3> QED
      BY <3>1, OfTwo
  <2>2. InView(x, t, BodyRows) = Clamp(x, MaxOf({PitchMin, down}), t)
    BY <1>7 DEF InView
  <2> QED
    BY <1>1, <1>2, <1>6, <1>8, <2>1, <2>2 DEF Clamp
<1>10. x <= t /\ t - x < BodyRows
  BY <1>1, <1>2, <1>6, <1>7, <1>8
<1> QED
  BY <1>3, <1>5, <1>6, <1>9, <1>10 DEF t

(* The events of a context of the editor do not reach into one another. *)
LEMMA ContextIsOK ==
  LedgerShape /\ EdType /\ ed.mode \in {"editor", "asleep"} => ContextOK(Context)
<1> SUFFICES ASSUME LedgerShape, EdType, ed.mode \in {"editor", "asleep"}
             PROVE  ContextOK(Context)
  OBVIOUS
<1>1. /\ ed.bar \in Bars /\ ed.slot \in 0 .. Now - 1 /\ ed.pending \in Nat /\ ed.length \in BOOLEAN
      /\ ed.top \in LowestTop(ViewRows) .. PitchMax
      /\ ed.selected \in PitchMin .. ed.top /\ ed.selected > ed.top - ViewRows
      /\ Now \in {4, 8, 16, 32} /\ Now <= Columns(LedgerMax)
      /\ Places = 0 .. Columns(LedgerMax) - 1 /\ Columns(LedgerMax) \in {4, 8, 16, 32}
  BY GridOfBar DEF EdType, EdShape, CursorPlaced
<1>2. Context.top \in Int
  BY <1>1, Views, ContextFields
<1> DEFINE own(p) == GridLength(slot[ed.bar], p)
           room(p) == GridMaxLength(slot[ed.bar], p)
<1>3. ASSUME NEW p \in Places, p < Now
      PROVE  /\ SpanOf(ed, p) \in Nat /\ (SpanOf(ed, p) = 0 <=> Column(ed.bar, p) = {})
             /\ \A q \in Nat : p < q /\ Column(ed.bar, q) # {} => p + SpanOf(ed, p) <= q
  <2>1. p \in Nat
    BY <1>1
  <2>2. /\ room(p) \in Nat \ {0} /\ own(p) \in 0 .. room(p)
        /\ own(p) = 0 <=> Column(ed.bar, p) = {}
        /\ \A q \in Nat : p < q /\ Column(ed.bar, q) # {} => room(p) <= q - p
    BY <1>1, <2>1, GridLengths
  <2>3. CASE own(p) = 0
    <3>1. SpanOf(ed, p) = 0
      BY <2>3 DEF SpanOf
    <3> QED
      BY <3>1, <2>1, <2>2, <2>3
  <2>4. CASE own(p) # 0
    <3> DEFINE cut == IF ed.length /\ p = ed.slot THEN Clamp(ed.pending, 1, room(p)) ELSE own(p)
    <3>1. cut \in 1 .. room(p)
      BY <1>1, <2>2, <2>4 DEF Clamp
    <3>2. SpanOf(ed, p) = MinOf({Now - p, cut})
      BY <2>4 DEF SpanOf, Now
    <3> HIDE DEF cut, own, room
    <3>3. Now - p \in Int /\ Now - p >= 1 /\ cut \in Int
      BY <1>1, <1>3, <2>1, <2>2, <3>1
    <3>4. SpanOf(ed, p) \in {Now - p, cut} /\ SpanOf(ed, p) <= cut
      BY <3>2, <3>3, OfTwo
    <3>5. SpanOf(ed, p) \in 1 .. room(p)
      BY <3>1, <3>3, <3>4, <2>2
    <3>6. ASSUME NEW q \in Nat, p < q, Column(ed.bar, q) # {}
          PROVE  p + SpanOf(ed, p) <= q
      BY <2>1, <2>2, <3>5, <3>6
    <3> QED
      BY <2>2, <2>4, <3>5, <3>6
  <2> QED
    BY <2>3, <2>4
<1>4. ASSUME NEW p \in Places
      PROVE  Context.spans[p] \in Nat /\ (Context.spans[p] = 0 <=> Context.slots[p] = {})
  BY <1>3, ContextFields
<1>5. ASSUME NEW p \in Places, NEW q \in Places, p < q, Context.slots[q] # {}
      PROVE  p + Context.spans[p] <= q
  <2>1. q < Now /\ Column(ed.bar, q) # {}
    BY <1>5, ContextFields
  <2>2. p < Now /\ q \in Nat
    BY <1>1, <1>5, <2>1
  <2> QED
    BY <1>3, <1>5, <2>1, <2>2, ContextFields
<1> QED
  BY <1>1, <1>2, <1>4, <1>5, ContextFields DEF ContextOK

LEMMA NextContextIsOK ==
  (LedgerShape /\ EdType /\ ed.mode \in {"editor", "asleep"} => ContextOK(Context))'
  BY ContextIsOK, PTL

LEMMA NextContextFields ==
  /\ ContextShape(Context')
  /\ Context'.step = ed'.bar /\ Context'.top = ClampTop(ed'.top, BodyRows)
  /\ Context'.selected = InView(ed'.selected, ClampTop(ed'.top, BodyRows), BodyRows)
  /\ Context'.slot = ed'.slot /\ Context'.count = Now'
  /\ Context'.length = ed'.length /\ Context'.question = ed'.question /\ Context'.yes = ed'.yes
  /\ Context'.slots = [p \in Places |-> IF p < Now' THEN Column(ed.bar, p)' ELSE {}]
  BY DEF Context, ContextShape, Now

(* A row but for its light, which the partial drawings may leave behind. *)
LEMMA RowIsLit ==
  ASSUME NEW c, NEW r
  PROVE  \E lit \in BOOLEAN : Row(c, r) = RowLit(c, r, lit)
<1>1. Row(c, r) = RowLit(c, r, c.top - r = c.selected)
  BY Zenon DEF Row, RowLit
<1> QED
  BY <1>1, Zenon

(* What the parts of a drawing change of the display. *)
LEMMA RowsDrawn ==
  ASSUME NEW d, NEW c, NEW rows,
         d = [rows |-> d.rows, header |-> d.header, covered |-> d.covered, box |-> d.box]
  PROVE  /\ DrawRows(d, c, rows) = [rows |-> DrawRows(d, c, rows).rows, header |-> d.header,
                                    covered |-> d.covered \ rows, box |-> d.box]
         /\ DrawRows(d, c, rows).rows =
              [r \in Rows |-> IF r \in rows THEN Row(c, r) ELSE d.rows[r]]
<1> DEFINE e == [r \in Rows |-> IF r \in rows THEN Row(c, r) ELSE d.rows[r]]
<1>1. DrawRows(d, c, rows) = [d EXCEPT !.rows = e, !.covered = d.covered \ rows]
  BY DEF DrawRows
<1>2. DrawRows(d, c, rows).rows = e
  <2> HIDE DEF e
  <2> QED
    BY <1>1
<1>3. DrawRows(d, c, rows) = [rows |-> DrawRows(d, c, rows).rows, header |-> d.header,
                              covered |-> d.covered \ rows, box |-> d.box]
  <2> HIDE DEF e
  <2> QED
    BY <1>1
<1> QED
  BY <1>2, <1>3

LEMMA EditorHeaderDrawn ==
  ASSUME NEW d, NEW s,
         d = [rows |-> d.rows, header |-> d.header, covered |-> d.covered, box |-> d.box]
  PROVE  /\ DrawHeader(d, s) = [rows |-> d.rows, header |-> DrawHeader(d, s).header,
                                covered |-> d.covered, box |-> d.box]
         /\ DrawHeader(d, s).header = [f \in Fields |->
              IF f \in s.dirty \cup If(~s.layout, Fields) \cup If(Shifts(s), {"NOTE", "RNG"})
              THEN Header(s.now)[f] ELSE d.header[f]]
<1> DEFINE e == [f \in Fields |->
              IF f \in s.dirty \cup If(~s.layout, Fields) \cup If(Shifts(s), {"NOTE", "RNG"})
              THEN Header(s.now)[f] ELSE d.header[f]]
<1>1. DrawHeader(d, s) = [d EXCEPT !.header = e]
  BY DEF DrawHeader
<1>2. DrawHeader(d, s).header = e
  <2> HIDE DEF e
  <2> QED
    BY <1>1
<1>3. DrawHeader(d, s) = [rows |-> d.rows, header |-> DrawHeader(d, s).header,
                          covered |-> d.covered, box |-> d.box]
  <2> HIDE DEF e
  <2> QED
    BY <1>1
<1> QED
  BY <1>2, <1>3

(* The box of a question lies over what was drawn, or nothing does. *)
LEMMA QuestionDrawn ==
  ASSUME NEW d, NEW c,
         d = [rows |-> d.rows, header |-> Header(c), covered |-> d.covered, box |-> d.box],
         d.covered \subseteq UnderDialog,
         \A r \in Rows \ d.covered : \E lit \in BOOLEAN : d.rows[r] = RowLit(c, r, lit)
  PROVE  /\ Shows(DrawQuestion(d, c), c)
         /\ DrawQuestion(d, c).covered \subseteq UnderDialog
         /\ DrawQuestion(d, c) =
              [rows |-> DrawQuestion(d, c).rows, header |-> DrawQuestion(d, c).header,
               covered |-> DrawQuestion(d, c).covered, box |-> DrawQuestion(d, c).box]
<1>1. CASE c.question = "none"
  <2>1. DrawQuestion(d, c) = d
    BY <1>1 DEF DrawQuestion
  <2> QED
    BY <2>1, <1>1 DEF Shows
<1>2. CASE c.question # "none"
  <2>1. PICK q : q = <<c.question, c.yes>>
    OBVIOUS
  <2>2. DrawQuestion(d, c) = [d EXCEPT !.covered = UnderDialog, !.box = q]
    BY <1>2, <2>1 DEF DrawQuestion
  <2>3. PICK h : h = Header(c)
    OBVIOUS
  <2>0. d = [rows |-> d.rows, header |-> h, covered |-> d.covered, box |-> d.box]
    BY <2>3
  <2>4. PICK e : e = [d EXCEPT !.covered = UnderDialog, !.box = q]
    OBVIOUS
  <2>5. e.rows = d.rows /\ e.header = h /\ e.covered = UnderDialog /\ e.box = q
    BY <2>0, <2>4
  <2>8. e = [rows |-> e.rows, header |-> e.header, covered |-> e.covered, box |-> e.box]
    BY <2>0, <2>4
  <2>6. \A r \in Rows \ UnderDialog :
          \E lit \in BOOLEAN : d.rows[r] = RowLit(c, r, lit)
    OBVIOUS
  <2>7. Shows(e, c)
    BY <2>1, <2>3, <2>5, <2>6 DEF Shows
  <2> QED
    BY <2>2, <2>4, <2>5, <2>7, <2>8
<1> QED
  BY <1>1, <1>2

(* A drawing from nothing shows everything. *)
LEMMA DrawsAnew ==
  ASSUME NEW d, NEW s, d = [rows |-> d.rows, header |-> d.header, covered |-> d.covered,
                            box |-> d.box],
         d.covered \subseteq UnderDialog,
         s = [now |-> s.now, last |-> s.last, dirty |-> s.dirty, before |-> s.before,
              layout |-> s.layout, redraw |-> s.redraw],
         ~s.layout, s.redraw
  PROVE  /\ Shows(Drawn(d, s), s.now)
         /\ Drawn(d, s).covered \subseteq UnderDialog
         /\ Drawn(d, s) = [rows |-> Drawn(d, s).rows, header |-> Drawn(d, s).header,
                           covered |-> Drawn(d, s).covered, box |-> Drawn(d, s).box]
<1>0. PICK c : c = s.now
  OBVIOUS
<1>1. PICK w : w = WithLayout(s)
  OBVIOUS
<1>2. w = [now |-> s.now, last |-> s.last, dirty |-> s.dirty \cup {"BODY_FULL"},
           before |-> s.before, layout |-> s.layout, redraw |-> s.redraw]
  BY <1>1 DEF WithLayout
<1>3. ~Shifts(w) /\ "BODY_FULL" \in w.dirty /\ w.now = c
  BY <1>0, <1>2 DEF Shifts
<1>4. PICK b : b = DrawBody(d, w)
  OBVIOUS
<1>5. b = DrawRows(d, c, Rows)
  BY <1>3, <1>4 DEF DrawBody
<1>6. /\ b = [rows |-> b.rows, header |-> d.header, covered |-> d.covered \ Rows, box |-> d.box]
      /\ b.rows = [r \in Rows |-> IF r \in Rows THEN Row(c, r) ELSE d.rows[r]]
  BY <1>5, RowsDrawn
<1>7. PICK h : h = DrawHeader(b, s)
  OBVIOUS
<1>8. h = [rows |-> b.rows, header |-> h.header, covered |-> b.covered, box |-> b.box]
  BY <1>6, <1>7, EditorHeaderDrawn
<1>9. h.header = Header(c)
  <2>1. h.header = [f \in Fields |->
              IF f \in s.dirty \cup If(~s.layout, Fields) \cup If(Shifts(s), {"NOTE", "RNG"})
              THEN Header(s.now)[f] ELSE b.header[f]]
    BY <1>6, <1>7, EditorHeaderDrawn
  <2>2. \A f \in Fields : h.header[f] = Header(c)[f]
    BY <2>1, <1>0 DEF If
  <2> QED
    BY <2>1, <2>2 DEF Header
<1>10. \A r \in Rows : h.rows[r] = Row(c, r)
  BY <1>6, <1>8
<1>11. \A r \in Rows : \E lit \in BOOLEAN : h.rows[r] = RowLit(c, r, lit)
  BY <1>10, RowIsLit
<1>12. h.covered \subseteq UnderDialog
  BY <1>6, <1>8
<1>13. Drawn(d, s) = DrawQuestion(h, c)
  BY <1>0, <1>1, <1>4, <1>7 DEF Drawn
<1>14. h = [rows |-> h.rows, header |-> Header(c), covered |-> h.covered, box |-> h.box]
  BY <1>8, <1>9
<1> QED
  BY <1>0, <1>11, <1>12, <1>13, <1>14, QuestionDrawn

(* What is worked out from the cursor and the length there is the colour that was drawn,
   since no event reaches into another. *)
LEMMA CellWasDrawn ==
  ASSUME NEW c, ContextOK(c), NEW i \in 0 .. c.count - 1, NEW x
  PROVE  CellDrawn(c, i, x) = Cell(c, i, x)
<1>1. /\ c.count \in Int /\ c.count <= Columns(LedgerMax) /\ c.slot \in Int /\ c.slot >= 0
      /\ c.slot < c.count
      /\ Places = 0 .. Columns(LedgerMax) - 1 /\ Columns(LedgerMax) \in Int
      /\ \A p \in Places : c.spans[p] \in Nat /\ (c.spans[p] = 0 <=> c.slots[p] = {})
      /\ \A p, q \in Places : p < q /\ c.slots[q] # {} => p + c.spans[p] <= q
  <2>1. LedgerMax \in 0 .. 32
    BY LedgerAssumption, ScreenAssumption DEF LedgerAssumption, ScreenAssumption
  <2>2. Columns(LedgerMax) \in {4, 8, 16, 32}
    BY <2>1, ColumnsOf
  <2> QED
    BY <2>2 DEF ContextOK, Places
<1>2. CASE Under(c, i, x) = {}
  BY <1>2 DEF Cell, CellDrawn
<1>3. CASE Under(c, i, x) # {}
  <2>1. PICK p \in 0 .. c.count - 1 : p <= i /\ i < p + c.spans[p] /\ x \in c.slots[p]
    BY <1>3 DEF Under
  <2>2. ASSUME NEW q \in 0 .. c.count - 1, q <= i, i < q + c.spans[q]
        PROVE  q = p
    <3>1. p \in Places /\ q \in Places /\ c.slots[p] # {} /\ c.slots[q] # {}
      BY <1>1, <2>1, <2>2
    <3>2. ~(p < q) /\ ~(q < p)
      BY <1>1, <2>1, <2>2, <3>1
    <3> QED
      BY <3>2, <1>1
  <2>3. Under(c, i, x) = {p}
    BY <2>1, <2>2 DEF Under
  <2>4. p \in Nat
    BY <2>1
  <2>5. MinOf({p}) = p
    BY <2>4 DEF MinOf
  <2>6. p = c.slot <=> i \in c.slot .. c.slot + c.spans[c.slot] - 1
    <3>1. c.slot \in 0 .. c.count - 1 /\ c.spans[c.slot] \in Nat
      BY <1>1
    <3>2. ASSUME i \in c.slot .. c.slot + c.spans[c.slot] - 1 PROVE p = c.slot
      BY <2>2, <3>1, <3>2, <1>1
    <3>3. ASSUME p = c.slot PROVE i \in c.slot .. c.slot + c.spans[c.slot] - 1
      BY <2>1, <3>3, <3>1, <1>1
    <3> QED
      BY <3>2, <3>3
  <2> QED
    BY <1>1, <1>3, <2>3, <2>5, <2>6 DEF Cell, CellDrawn
<1> QED
  BY <1>2, <1>3

(* A number has one quotient and one remainder. *)
LEMMA SameQuotient ==
  ASSUME NEW n \in Nat \ {0}, NEW k \in Int, NEW j \in Int,
         NEW x \in 0 .. n - 1, NEW y \in 0 .. n - 1, n * k + x = n * j + y
  PROVE  x = y
<1>1. ~(k > j)
  <2>1. SUFFICES ASSUME k > j PROVE FALSE
    OBVIOUS
  <2>2. k - j >= 1 /\ n * (k - j) = y - x
    BY <2>1
  <2>3. n * (k - j) >= n
    BY <2>2
  <2> QED
    BY <2>2, <2>3
<1>2. ~(k < j)
  <2>1. SUFFICES ASSUME k < j PROVE FALSE
    OBVIOUS
  <2>2. j - k >= 1 /\ n * (j - k) = x - y
    BY <2>1
  <2>3. n * (j - k) >= n
    BY <2>2
  <2> QED
    BY <2>2, <2>3
<1> QED
  BY <1>1, <1>2

(* Two notes an octave apart have the same lane. *)
LEMMA OctaveAway ==
  ASSUME NEW n \in Nat \ {0}, NEW a \in Int
  PROVE  (a + n) % n = a % n
<1>1. PICK q \in Int, x \in 0 .. n - 1 : q = a \div n /\ x = a % n
  OBVIOUS
<1>2. PICK m \in Int, y \in 0 .. n - 1 : m = (a + n) \div n /\ y = (a + n) % n
  OBVIOUS
<1>3. a = n * q + x
  BY <1>1
<1>4. a + n = n * m + y
  BY <1>2
<1>5. q + 1 \in Int /\ n * (q + 1) = n * q + n
  OBVIOUS
<1>6. n * (q + 1) + x = n * m + y
  BY <1>3, <1>4, <1>5
<1>7. x = y
  BY <1>5, <1>6, SameQuotient
<1> QED
  BY <1>1, <1>2, <1>7

(* A shift by an octave leaves every row as a drawing would, but for the light. *)
LEMMA ShiftShows ==
  ASSUME NEW d, NEW l, NEW c,
         d = [rows |-> d.rows, header |-> d.header, covered |-> d.covered, box |-> d.box],
         \A r \in Rows \ d.covered : \E lit \in BOOLEAN : d.rows[r] = RowLit(l, r, lit),
         l.top \in Int, c.top \in Int, c.top - l.top \in {-Octave, Octave},
         c.slot = l.slot, c.count = l.count, ~c.length, ~l.length
  PROVE  LET e == DrawShifted(d, l, c) IN
         /\ e = [rows |-> e.rows, header |-> e.header, covered |-> e.covered, box |-> e.box]
         /\ e.header = d.header /\ e.covered \subseteq d.covered
         /\ \A r \in Rows \ e.covered : \E lit \in BOOLEAN : e.rows[r] = RowLit(c, r, lit)
<1> DEFINE cells == OctDirtyCells(l, c)
           moved(r) == ShiftedRow(d.rows[r], r, cells, c)
           lit2 == RowOf(l, l.selected) \cup RowOf(c, c.selected)
<1>1. PICK m : m = [d EXCEPT !.rows = [r \in Rows |-> moved(r)]]
  OBVIOUS
<1>2. DrawShifted(d, l, c) = DrawRows(m, c, lit2)
  BY <1>1 DEF DrawShifted
<1>3. /\ m = [rows |-> m.rows, header |-> m.header, covered |-> m.covered, box |-> m.box]
      /\ m.header = d.header /\ m.covered = d.covered
  <2> HIDE DEF moved
  <2> QED
    BY <1>1
<1>4. \A r \in Rows : m.rows[r] = moved(r)
  <2> HIDE DEF moved
  <2> QED
    BY <1>1
<1> HIDE DEF lit2
<1>5. ASSUME NEW r \in Rows \ d.covered
      PROVE  \E lit \in BOOLEAN : moved(r) = RowLit(c, r, lit)
  <2>1. PICK lit \in BOOLEAN : d.rows[r] = RowLit(l, r, lit)
    OBVIOUS
  <2>2. PICK old : old = [i \in 0 .. l.count - 1 |-> Cell(l, i, l.top - r)]
    OBVIOUS
  <2>3. d.rows[r] = [label |-> l.top - r, lane |-> (l.top - r) % Octave, cursor |-> l.slot,
                     lit |-> lit, cells |-> old]
    BY <2>1, <2>2 DEF RowLit
  <2>4. PICK new : new = [i \in DOMAIN old |-> IF <<r, i>> \notin cells THEN old[i]
                          ELSE IF Under(c, i, c.top - r) # {} THEN "note" ELSE "empty"]
    OBVIOUS
  <2>5. moved(r) = [d.rows[r] EXCEPT !.label = c.top - r, !.cells = new]
    <3>1. d.rows[r].cells = old
      BY <2>3
    <3> QED
      BY <3>1, <2>4 DEF ShiftedRow
  <2>6. new = [i \in 0 .. c.count - 1 |-> Cell(c, i, c.top - r)]
    <3>1. DOMAIN new = 0 .. c.count - 1
      BY <2>2, <2>4
    <3>2. ASSUME NEW i \in 0 .. c.count - 1
          PROVE  new[i] = Cell(c, i, c.top - r)
      <4>1. /\ Cell(c, i, c.top - r) = IF Under(c, i, c.top - r) = {} THEN "empty" ELSE "note"
            /\ Cell(l, i, l.top - r) = IF Under(l, i, l.top - r) = {} THEN "empty" ELSE "note"
        BY DEF Cell
      <4>2. old[i] = Cell(l, i, l.top - r)
        BY <2>2
      <4>3. <<r, i>> \in cells <=>
              (Under(l, i, l.top - r) = {}) # (Under(c, i, c.top - r) = {})
        BY Zenon DEF OctDirtyCells
      <4>4. new[i] = IF <<r, i>> \notin cells THEN old[i]
                     ELSE IF Under(c, i, c.top - r) # {} THEN "note" ELSE "empty"
        BY <2>2, <2>4
      <4> HIDE DEF cells
      <4> QED
        BY <4>1, <4>2, <4>3, <4>4
    <3>3. new = [i \in 0 .. c.count - 1 |-> new[i]]
      BY <2>2, <2>4
    <3> QED
      BY <3>2, <3>3
  <2>7. (l.top - r) % Octave = (c.top - r) % Octave
    <3>1. Octave \in Nat \ {0} /\ r \in Int
      BY ScreenAssumption DEF ScreenAssumption, Rows
    <3>2. CASE c.top - l.top = Octave
      <4>1. l.top - r \in Int /\ c.top - r = (l.top - r) + Octave
        BY <3>1, <3>2
      <4> QED
        BY <4>1, <3>1, OctaveAway
    <3>3. CASE c.top - l.top = -Octave
      <4>1. c.top - r \in Int /\ l.top - r = (c.top - r) + Octave
        BY <3>1, <3>3
      <4> QED
        BY <4>1, <3>1, OctaveAway
    <3> QED
      BY <3>2, <3>3
  <2>8. PICK e : e = [d.rows[r] EXCEPT !.label = c.top - r, !.cells = new]
    OBVIOUS
  <2>9. /\ e.label = c.top - r /\ e.lane = (l.top - r) % Octave /\ e.cursor = l.slot
        /\ e.lit = lit /\ e.cells = new
    BY <2>3, <2>8
  <2>10. e = [label |-> e.label, lane |-> e.lane, cursor |-> e.cursor, lit |-> e.lit,
              cells |-> e.cells]
    BY <2>3, <2>8
  <2>11. e = RowLit(c, r, lit)
    BY <2>6, <2>7, <2>9, <2>10 DEF RowLit
  <2> QED
    BY <2>5, <2>8, <2>11
<1> HIDE DEF moved
<1>6. PICK e : e = DrawRows(m, c, lit2)
  OBVIOUS
<1>7. /\ e = [rows |-> e.rows, header |-> m.header, covered |-> m.covered \ lit2, box |-> m.box]
      /\ e.rows = [r \in Rows |-> IF r \in lit2 THEN Row(c, r) ELSE m.rows[r]]
  BY <1>3, <1>6, RowsDrawn
<1>8. ASSUME NEW r \in Rows \ e.covered
      PROVE  \E lit \in BOOLEAN : e.rows[r] = RowLit(c, r, lit)
  <2>1. CASE r \in lit2
    <3>1. e.rows[r] = Row(c, r)
      BY <1>7, <2>1
    <3> QED
      BY <3>1, RowIsLit
  <2>2. CASE r \notin lit2
    <3>1. e.rows[r] = moved(r) /\ r \notin d.covered
      BY <1>3, <1>4, <1>7, <2>2
    <3> QED
      BY <3>1, <1>5
  <2> QED
    BY <2>1, <2>2
<1>9. /\ e = [rows |-> e.rows, header |-> e.header, covered |-> e.covered, box |-> e.box]
      /\ e.header = d.header /\ e.covered \subseteq d.covered
  BY <1>3, <1>7
<1> QED
  BY <1>2, <1>6, <1>8, <1>9

(* After the rows that a drawing leaves out, what it draws is as a drawing of everything. *)
LEMMA RowsShow ==
  ASSUME NEW d, NEW c, NEW rows,
         d = [rows |-> d.rows, header |-> d.header, covered |-> d.covered, box |-> d.box],
         \A r \in (Rows \ d.covered) \ rows : \E lit \in BOOLEAN : d.rows[r] = RowLit(c, r, lit)
  PROVE  LET e == DrawRows(d, c, rows) IN
         /\ e = [rows |-> e.rows, header |-> e.header, covered |-> e.covered, box |-> e.box]
         /\ e.header = d.header /\ e.covered \subseteq d.covered
         /\ \A r \in Rows \ e.covered : \E lit \in BOOLEAN : e.rows[r] = RowLit(c, r, lit)
<1>1. PICK e : e = DrawRows(d, c, rows)
  OBVIOUS
<1>2. /\ e = [rows |-> e.rows, header |-> d.header, covered |-> d.covered \ rows, box |-> d.box]
      /\ e.rows = [r \in Rows |-> IF r \in rows THEN Row(c, r) ELSE d.rows[r]]
  BY <1>1, RowsDrawn
<1>3. /\ e = [rows |-> e.rows, header |-> e.header, covered |-> e.covered, box |-> e.box]
      /\ e.header = d.header /\ e.covered = d.covered \ rows
  BY <1>2
<1>4. ASSUME NEW r \in Rows \ e.covered
      PROVE  \E lit \in BOOLEAN : e.rows[r] = RowLit(c, r, lit)
  <2>1. CASE r \in rows
    <3>1. e.rows[r] = Row(c, r)
      BY <1>2, <2>1
    <3> QED
      BY <3>1, RowIsLit
  <2>2. CASE r \notin rows
    <3>1. e.rows[r] = d.rows[r] /\ r \in (Rows \ d.covered) \ rows
      BY <1>2, <1>3, <2>2
    <3> QED
      BY <3>1
  <2> QED
    BY <2>1, <2>2
<1> QED
  BY <1>1, <1>3, <1>4

(* Where neither the notes nor the lengths changed at a note, its row stays as it is. *)
LEMMA RowStays ==
  ASSUME NEW l, NEW c, NEW r, NEW lit,
         c.top = l.top, c.slot = l.slot, c.count = l.count, c.length = l.length,
         c.spans = l.spans,
         \A p \in 0 .. c.count - 1 : c.top - r \in c.slots[p] <=> c.top - r \in l.slots[p]
  PROVE  RowLit(l, r, lit) = RowLit(c, r, lit)
<1>1. \A i \in 0 .. c.count - 1 : Under(c, i, c.top - r) = Under(l, i, l.top - r)
  BY DEF Under
<1>2. \A i \in 0 .. c.count - 1 : Cell(c, i, c.top - r) = Cell(l, i, l.top - r)
  BY <1>1 DEF Cell
<1>3. [i \in 0 .. c.count - 1 |-> Cell(c, i, c.top - r)] =
        [i \in 0 .. l.count - 1 |-> Cell(l, i, l.top - r)]
  BY <1>2
<1> QED
  BY <1>3 DEF RowLit

(* The rows that DrawStepPianoRollScreen leaves out show what they should. *)
LEMMA BodyShows ==
  ASSUME NEW d, NEW s, NEW stage,
         d = [rows |-> d.rows, header |-> d.header, covered |-> d.covered, box |-> d.box],
         s.layout, ContextOK(s.last), ContextOK(s.now), Shows(d, s.last),
         s.now.step = s.last.step, s.now.count = s.last.count, RowsFlagged(s, stage)
  PROVE  LET e == DrawBody(d, s) IN
         /\ e = [rows |-> e.rows, header |-> e.header, covered |-> e.covered, box |-> e.box]
         /\ e.header = d.header /\ e.covered \subseteq d.covered
         /\ \A r \in Rows \ e.covered : \E lit \in BOOLEAN : e.rows[r] = RowLit(s.now, r, lit)
<1>0. PICK c, l, D : c = s.now /\ l = s.last /\ D = s.dirty
  OBVIOUS
<1> DEFINE shifted == IF ~Shifts(s) THEN d
                      ELSE IF c.top - l.top \in {-Octave, Octave}
                      THEN DrawShifted(d, l, c) ELSE DrawRows(d, c, Rows)
           rows == IF "BODY_FULL" \in D /\ ~Shifts(s) THEN Rows
                   ELSE IF "SLOT_BODY" \in D THEN Rows
                   ELSE IF "SPAN_ROWS" \in D THEN SpanDirtyRows(l, c)
                   ELSE If("ROW_OLD" \in D, RowOf(c, s.before))
                        \cup If("ROW_NEW" \in D, RowOf(c, c.selected))
<1>1. DrawBody(d, s) = DrawRows(shifted, c, rows)
  BY <1>0 DEF DrawBody
<1>2. /\ l.top \in Int /\ c.top \in Int /\ l.length \in BOOLEAN /\ c.length \in BOOLEAN
      /\ l.slot \in Int /\ c.slot \in Int /\ c.count = l.count
      /\ \A r \in Rows \ d.covered : \E lit \in BOOLEAN : d.rows[r] = RowLit(l, r, lit)
  BY <1>0 DEF ContextOK, Shows
<1>3. ASSUME /\ shifted = [rows |-> shifted.rows, header |-> shifted.header,
                           covered |-> shifted.covered, box |-> shifted.box]
             /\ shifted.header = d.header /\ shifted.covered \subseteq d.covered
             /\ \A r \in (Rows \ shifted.covered) \ rows :
                  \E lit \in BOOLEAN : shifted.rows[r] = RowLit(c, r, lit)
      PROVE  LET e == DrawBody(d, s) IN
             /\ e = [rows |-> e.rows, header |-> e.header, covered |-> e.covered, box |-> e.box]
             /\ e.header = d.header /\ e.covered \subseteq d.covered
             /\ \A r \in Rows \ e.covered : \E lit \in BOOLEAN : e.rows[r] = RowLit(s.now, r, lit)
  <2> HIDE DEF shifted, rows
  <2> QED
    BY <1>0, <1>1, <1>3, RowsShow
<1>4. CASE rows = Rows /\ shifted = d
  <2>1. (Rows \ shifted.covered) \ rows = {}
    BY <1>4
  <2> QED
    BY <1>3, <1>4, <2>1
<1>5. CASE Shifts(s)
  <2>1. CASE c.top - l.top \in {-Octave, Octave} /\ "SLOT_BODY" \notin D
    <3>1. c.slot = l.slot /\ ~c.length /\ ~l.length
      BY <1>0, <1>5, <2>1 DEF RowsFlagged, Shifts
    <3>2. PICK e : e = DrawShifted(d, l, c)
      OBVIOUS
    <3>3. /\ e = [rows |-> e.rows, header |-> e.header, covered |-> e.covered, box |-> e.box]
          /\ e.header = d.header /\ e.covered \subseteq d.covered
          /\ \A r \in Rows \ e.covered : \E lit \in BOOLEAN : e.rows[r] = RowLit(c, r, lit)
      BY <1>2, <2>1, <3>1, <3>2, ShiftShows
    <3>4. shifted = e
      BY <1>5, <2>1, <3>2
    <3> HIDE DEF shifted, rows
    <3> QED
      BY <1>3, <3>3, <3>4
  <2>2. CASE c.top - l.top \in {-Octave, Octave} /\ "SLOT_BODY" \in D
    <3>1. rows = Rows
      BY <1>5, <2>2
    <3>2. PICK e : e = DrawShifted(d, l, c)
      OBVIOUS
    <3>3. PICK m : m = [d EXCEPT !.rows = [r \in Rows |->
                                   ShiftedRow(d.rows[r], r, OctDirtyCells(l, c), c)]]
      OBVIOUS
    <3>4. PICK x : x = [r \in Rows |-> ShiftedRow(d.rows[r], r, OctDirtyCells(l, c), c)]
      OBVIOUS
    <3>11. m = [d EXCEPT !.rows = x]
      BY <3>3, <3>4
    <3>12. m = [rows |-> m.rows, header |-> m.header, covered |-> m.covered, box |-> m.box]
      BY <3>11
    <3>13. m.header = d.header /\ m.covered = d.covered
      BY <3>11
    <3>5. PICK k : k = RowOf(l, l.selected) \cup RowOf(c, c.selected)
      OBVIOUS
    <3>6. e = DrawRows(m, c, k)
      BY <3>2, <3>3, <3>5 DEF DrawShifted
    <3>10. /\ e = [rows |-> e.rows, header |-> m.header, covered |-> m.covered \ k, box |-> m.box]
           /\ e.rows = [r \in Rows |-> IF r \in k THEN Row(c, r) ELSE m.rows[r]]
      BY <3>6, <3>12, RowsDrawn
    <3>7. /\ e = [rows |-> e.rows, header |-> e.header, covered |-> e.covered, box |-> e.box]
          /\ e.header = d.header /\ e.covered \subseteq d.covered
      BY <3>10, <3>13
    <3>8. shifted = e
      BY <1>5, <2>2, <3>2
    <3>9. (Rows \ e.covered) \ rows = {}
      BY <3>1
    <3> HIDE DEF shifted, rows
    <3> QED
      BY <1>3, <3>7, <3>8, <3>9
  <2>3. CASE ~(c.top - l.top \in {-Octave, Octave})
    <3>1. PICK e : e = DrawRows(d, c, Rows)
      OBVIOUS
    <3>2. \A r \in (Rows \ d.covered) \ Rows : \E lit \in BOOLEAN : d.rows[r] = RowLit(c, r, lit)
      OBVIOUS
    <3>3. /\ e = [rows |-> e.rows, header |-> e.header, covered |-> e.covered, box |-> e.box]
          /\ e.header = d.header /\ e.covered \subseteq d.covered
          /\ \A r \in Rows \ e.covered : \E lit \in BOOLEAN : e.rows[r] = RowLit(c, r, lit)
      BY <3>1, <3>2, RowsShow
    <3>4. shifted = e
      BY <1>5, <2>3, <3>1
    <3> HIDE DEF shifted, rows
    <3> QED
      BY <1>3, <3>3, <3>4
  <2> QED
    BY <2>1, <2>2, <2>3
<1>6. CASE ~Shifts(s) /\ ~({"BODY_FULL", "SLOT_BODY"} \cap D = {})
  <2>1. rows = Rows /\ shifted = d
    BY <1>6
  <2> QED
    BY <2>1, <1>4
<1>7. CASE ~Shifts(s) /\ {"BODY_FULL", "SLOT_BODY"} \cap D = {}
  <2>0. shifted = d
    BY <1>7
  <2>1. c.top = l.top /\ c.slot = l.slot
    BY <1>0, <1>7 DEF RowsFlagged
  <2>2. ASSUME \A r \in (Rows \ d.covered) \ rows :
                 \A lit : RowLit(l, r, lit) = RowLit(c, r, lit)
        PROVE  \A r \in (Rows \ d.covered) \ rows :
                 \E lit \in BOOLEAN : d.rows[r] = RowLit(c, r, lit)
    <3> HIDE DEF rows
    <3> QED
      BY <1>2, <2>2
  <2>3. CASE "SPAN_ROWS" \in D
    <3>1. rows = SpanDirtyRows(l, c)
      BY <1>7, <2>3
    <3>2. ASSUME NEW r \in (Rows \ d.covered) \ rows, NEW lit
          PROVE  RowLit(l, r, lit) = RowLit(c, r, lit)
      <4>1. \A i \in 0 .. c.count - 1 : Cell(c, i, c.top - r) = CellDrawn(l, i, c.top - r)
        BY <3>1 DEF SpanDirtyRows
      <4>2. \A i \in 0 .. c.count - 1 : Cell(l, i, l.top - r) = CellDrawn(l, i, l.top - r)
        BY <1>0, <1>2, CellWasDrawn
      <4>3. [i \in 0 .. c.count - 1 |-> Cell(c, i, c.top - r)] =
              [i \in 0 .. l.count - 1 |-> Cell(l, i, l.top - r)]
        BY <1>2, <2>1, <4>1, <4>2
      <4> QED
        BY <2>1, <4>3 DEF RowLit
    <3> QED
      BY <1>3, <2>0, <2>2, <3>2
  <2>4. CASE "SPAN_ROWS" \notin D
    <3>1. c.spans = l.spans /\ c.length = l.length /\ NotesFlagged(s, stage)
      BY <1>0, <1>7, <2>4 DEF RowsFlagged
    <3>2. rows = If("ROW_OLD" \in D, RowOf(c, s.before))
                 \cup If("ROW_NEW" \in D, RowOf(c, c.selected))
      BY <1>7, <2>4
    <3>3. ASSUME NEW r \in (Rows \ d.covered) \ rows, NEW lit
          PROVE  RowLit(l, r, lit) = RowLit(c, r, lit)
      <4>1. r \in Int /\ r >= 0 /\ r < BodyRows /\ BodyRows \in Nat
        BY ScreenAssumption DEF Rows, ScreenAssumption
      <4>2. PICK x \in Int : x = c.top - r
        BY <4>1, <1>2
      <4>3. r = c.top - x /\ x <= c.top
        BY <4>1, <4>2, <1>2
      <4>4. r \in RowOf(c, x)
        BY <4>1, <4>3 DEF RowOf, If
      <4>5. ~(x = c.selected /\ "ROW_NEW" \in D) /\ ~(x = s.before /\ "ROW_OLD" \in D)
        BY <3>2, <4>4 DEF If
      <4>6. ASSUME NEW p \in 0 .. c.count - 1
            PROVE  x \in c.slots[p] <=> x \in l.slots[p]
        <5>1. p \in Places
          <6>1. LedgerMax \in 0 .. 32
            BY LedgerAssumption, ScreenAssumption DEF LedgerAssumption, ScreenAssumption
          <6>2. Columns(LedgerMax) \in {4, 8, 16, 32}
            BY <6>1, ColumnsOf
          <6> QED
            BY <6>2, <1>0 DEF ContextOK, Places
        <5> QED
          BY <1>0, <3>1, <4>5, <5>1 DEF NotesFlagged
      <4> QED
        BY <1>2, <2>1, <3>1, <4>2, <4>6, RowStays
    <3> QED
      BY <1>3, <2>0, <2>2, <3>3
  <2> QED
    BY <2>3, <2>4
<1> QED
  BY <1>5, <1>6, <1>7

(* The partial drawing that ends a pass shows what a drawing from nothing would. *)
LEMMA DrawsChanges ==
  ASSUME NEW d, NEW s, NEW stage,
         d = [rows |-> d.rows, header |-> d.header, covered |-> d.covered, box |-> d.box],
         d.covered \subseteq UnderDialog,
         s.layout, s.redraw, ContextOK(s.last), ContextOK(s.now), Shows(d, s.last),
         s.now.step = s.last.step, s.now.count = s.last.count,
         HeaderFlagged(s), RowsFlagged(s, stage)
  PROVE  /\ Shows(Drawn(d, s), s.now)
         /\ Drawn(d, s).covered \subseteq UnderDialog
         /\ Drawn(d, s) = [rows |-> Drawn(d, s).rows, header |-> Drawn(d, s).header,
                           covered |-> Drawn(d, s).covered, box |-> Drawn(d, s).box]
<1>0. PICK c, l : c = s.now /\ l = s.last
  OBVIOUS
<1>1. PICK b : b = DrawBody(d, s)
  OBVIOUS
<1>2. /\ b = [rows |-> b.rows, header |-> b.header, covered |-> b.covered, box |-> b.box]
      /\ b.header = d.header /\ b.covered \subseteq d.covered
      /\ \A r \in Rows \ b.covered : \E lit \in BOOLEAN : b.rows[r] = RowLit(c, r, lit)
  BY <1>0, <1>1, BodyShows
<1>3. PICK h : h = DrawHeader(b, s)
  OBVIOUS
<1>4. PICK flags : flags = s.dirty \cup If(~s.layout, Fields) \cup If(Shifts(s), {"NOTE", "RNG"})
  OBVIOUS
<1>5. /\ h = [rows |-> b.rows, header |-> h.header, covered |-> b.covered, box |-> b.box]
      /\ h.header = [f \in Fields |-> IF f \in flags THEN Header(s.now)[f] ELSE b.header[f]]
  BY <1>2, <1>3, <1>4, EditorHeaderDrawn
<1>6. h.header = Header(c)
  <2>1. d.header = Header(l)
    BY <1>0 DEF Shows
  <2>2. s.dirty \subseteq flags
    BY <1>4
  <2>3. ASSUME NEW f \in Fields PROVE f \in flags \/ Header(l)[f] = Header(c)[f]
    <3>1. /\ Header(l)["BAR"] = l.step /\ Header(l)["SKIP"] = l.skip
          /\ Header(l)["POS"] = <<l.slot, l.count>> /\ Header(l)["NOTE"] = l.selected
          /\ Header(l)["GRID"] = l.division /\ Header(l)["RNG"] = l.top /\ Header(l)["CV"] = l.cv
      BY DEF Header, Fields
    <3>2. /\ Header(c)["BAR"] = c.step /\ Header(c)["SKIP"] = c.skip
          /\ Header(c)["POS"] = <<c.slot, c.count>> /\ Header(c)["NOTE"] = c.selected
          /\ Header(c)["GRID"] = c.division /\ Header(c)["RNG"] = c.top /\ Header(c)["CV"] = c.cv
      BY DEF Header, Fields
    <3>3. /\ c.step = l.step /\ c.count = l.count
          /\ c.selected # l.selected => "NOTE" \in flags
          /\ c.top # l.top => "RNG" \in flags
          /\ c.slot # l.slot => "POS" \in flags
          /\ c.skip # l.skip => "SKIP" \in flags
          /\ c.division # l.division => "GRID" \in flags
          /\ c.cv # l.cv => "CV" \in flags
      BY <1>0, <2>2 DEF HeaderFlagged
    <3> QED
      BY <3>1, <3>2, <3>3 DEF Fields
  <2>4. \A f \in Fields : h.header[f] = Header(c)[f]
    BY <1>0, <1>2, <1>5, <2>1, <2>3
  <2> QED
    BY <1>5, <2>4 DEF Header
<1>7. /\ h = [rows |-> h.rows, header |-> Header(c), covered |-> h.covered, box |-> h.box]
      /\ h.covered \subseteq UnderDialog
      /\ \A r \in Rows \ h.covered : \E lit \in BOOLEAN : h.rows[r] = RowLit(c, r, lit)
  BY <1>2, <1>5, <1>6
<1>8. WithLayout(s) = s
  BY DEF WithLayout
<1>9. Drawn(d, s) = DrawQuestion(h, c)
  BY <1>0, <1>1, <1>3, <1>8 DEF Drawn
<1> QED
  BY <1>0, <1>7, <1>9, QuestionDrawn

(* What SetContext does to the flags, when the view has not moved or this is the first
   input of a pass. *)
LEMMA SetFlags ==
  ASSUME NEW s, NEW c, NEW stage, NEW next,
         s = [now |-> s.now, last |-> s.last, dirty |-> s.dirty, before |-> s.before,
              layout |-> s.layout, redraw |-> s.redraw],
         s.now.step = c.step, s.now.step = s.last.step,
         s.now.count = c.count, s.now.count = s.last.count,
         HeaderFlagged(s), RowsFlagged(s, stage),
         \/ c.top = s.now.top
         \/ /\ s.now.top = s.last.top /\ s.dirty = {} /\ c.slot = s.last.slot
            /\ ~c.length /\ ~s.last.length,
         "BODY_FULL" \in s.dirty => ~c.length,
         /\ c.spans = s.last.spans /\ c.top = s.now.top
         /\ {"BODY_FULL", "SPAN_ROWS", "SLOT_BODY"} \cap SetContext(s, c).dirty = {}
         => NotesFlagged(SetContext(s, c), next)
  PROVE  /\ SetContext(s, c).now = c /\ SetContext(s, c).last = s.last
         /\ SetContext(s, c).layout = s.layout /\ SetContext(s, c).redraw = TRUE
         /\ SetContext(s, c) =
              [now |-> c, last |-> s.last, dirty |-> SetContext(s, c).dirty,
               before |-> SetContext(s, c).before, layout |-> s.layout, redraw |-> TRUE]
         /\ HeaderFlagged(SetContext(s, c)) /\ RowsFlagged(SetContext(s, c), next)
<1>1. PICK b : b = IF s.now.step = c.step /\ s.now.selected # c.selected
                   THEN s.now.selected ELSE s.before
  OBVIOUS
<1>2. PICK f : f = FlagsFor(s, c)
  OBVIOUS
<1>3. PICK t : t = SetContext(s, c)
  OBVIOUS
<1>4. t = [s EXCEPT !.now = c, !.redraw = TRUE, !.dirty = s.dirty \cup f, !.before = b]
  BY <1>1, <1>2, <1>3 DEF SetContext
<1>5. /\ t.now = c /\ t.last = s.last /\ t.dirty = s.dirty \cup f /\ t.before = b
      /\ t.layout = s.layout /\ t.redraw = TRUE
  BY <1>4
<1>6. t = [now |-> t.now, last |-> t.last, dirty |-> t.dirty, before |-> t.before,
           layout |-> t.layout, redraw |-> t.redraw]
  BY <1>4
<1>7. PICK all : all = MovedFlags(s.now, c) \cup ColumnFlags(s.last, c) \cup NoteFlags(s.last, c)
                       \cup LengthFlags(s.last, c) \cup FieldFlags(s.last, c)
  OBVIOUS
<1>8. f = IF "BODY_FULL" \in all
          THEN all \ {"SLOT_BODY", "SPAN_ROWS", "ROW_OLD", "ROW_NEW"} ELSE all
  BY <1>2, <1>7 DEF FlagsFor
<1>9. /\ s.now.selected # c.selected => "NOTE" \in all
      /\ s.now.top # c.top => "RNG" \in all /\ "BODY_FULL" \in all
      /\ "BODY_FULL" \in all => s.now.top # c.top
      /\ s.last.slot # c.slot => "POS" \in all /\ "SLOT_BODY" \in all
      /\ s.last.skip # c.skip => "SKIP" \in all
      /\ s.last.division # c.division => "GRID" \in all
      /\ s.last.cv # c.cv => "CV" \in all
      /\ s.last.spans # c.spans \/ s.last.length # c.length => "SPAN_ROWS" \in all
  BY <1>7 DEF MovedFlags, ColumnFlags, NoteFlags, LengthFlags, FieldFlags, If
<1>10. HeaderFlagged(t)
  BY <1>5, <1>8, <1>9 DEF HeaderFlagged
<1>11. RowsFlagged(t, next)
  <2>1. CASE c.top = s.now.top
    <3>1. "BODY_FULL" \notin all /\ f = all
      BY <1>8, <1>9, <2>1
    <3>2. \/ NotesFlagged(t, next) \/ c.spans # s.last.spans
          \/ {"BODY_FULL", "SPAN_ROWS", "SLOT_BODY"} \cap t.dirty # {}
      BY <1>3, <2>1
    <3> QED
      BY <1>5, <1>9, <2>1, <3>1, <3>2 DEF RowsFlagged
  <2>2. CASE c.top # s.now.top
    <3>1. "BODY_FULL" \in f
      BY <1>8, <1>9, <2>2
    <3>2. c.slot = s.last.slot /\ ~c.length /\ ~s.last.length
      BY <2>2
    <3> QED
      BY <1>5, <3>1, <3>2 DEF RowsFlagged
  <2> QED
    BY <2>1, <2>2
<1> QED
  BY <1>3, <1>5, <1>6, <1>10, <1>11

(* A note that comes or goes without a flag for all rows is in a row that a flag names. *)
LEMMA SetNotes ==
  ASSUME NEW s, NEW c, NEW stage \in 0 .. 3, NEW next \in 0 .. 3, stage < next,
         s = [now |-> s.now, last |-> s.last, dirty |-> s.dirty, before |-> s.before,
              layout |-> s.layout, redraw |-> s.redraw],
         s.now.step = c.step, RowsFlagged(s, stage), ContextOK(c), ContextOK(s.last),
         c.spans = s.last.spans, c.top = s.now.top, s.last.count = c.count,
         {"BODY_FULL", "SPAN_ROWS", "SLOT_BODY"} \cap SetContext(s, c).dirty = {},
         \/ \A p \in Places : s.last.slots[p] = {}
         \/ \A p \in Places : c.slots[p] = {}
         \/ c.slots = s.now.slots /\ (c.selected = s.now.selected \/ next = 3)
         \/ /\ s.now.slots = s.last.slots
            /\ \A p \in Places, x \in Int :
                 (x \in c.slots[p] \/ x \in s.now.slots[p])
                   /\ ~ (x \in c.slots[p] /\ x \in s.now.slots[p])
                   => p = c.slot /\ x = c.selected
  PROVE  NotesFlagged(SetContext(s, c), next)
<1>1. PICK b : b = IF s.now.step = c.step /\ s.now.selected # c.selected
                   THEN s.now.selected ELSE s.before
  OBVIOUS
<1>2. PICK f : f = FlagsFor(s, c)
  OBVIOUS
<1>3. PICK t : t = SetContext(s, c)
  OBVIOUS
<1>4. t = [s EXCEPT !.now = c, !.redraw = TRUE, !.dirty = s.dirty \cup f, !.before = b]
  BY <1>1, <1>2, <1>3 DEF SetContext
<1>5. t.now = c /\ t.last = s.last /\ t.dirty = s.dirty \cup f /\ t.before = b
  BY <1>4
<1>6. {"BODY_FULL", "SPAN_ROWS", "SLOT_BODY"} \cap s.dirty = {}
      /\ {"BODY_FULL", "SPAN_ROWS", "SLOT_BODY"} \cap f = {}
  BY <1>3, <1>5
<1>7. PICK all : all = MovedFlags(s.now, c) \cup ColumnFlags(s.last, c) \cup NoteFlags(s.last, c)
                       \cup LengthFlags(s.last, c) \cup FieldFlags(s.last, c)
  OBVIOUS
<1>8. f = all
  BY <1>2, <1>6, <1>7 DEF FlagsFor
<1>9. /\ s.now.selected # c.selected => "ROW_OLD" \in f
      /\ NoteFlags(s.last, c) \subseteq f
  BY <1>7, <1>8 DEF MovedFlags, If
<1>10. CASE \/ \A p \in Places : s.last.slots[p] = {}
            \/ \A p \in Places : c.slots[p] = {}
  <2>1. \A p \in Places : s.last.slots[p] = {} /\ c.slots[p] = {}
    BY <1>10 DEF ContextOK
  <2> QED
    BY <1>3, <1>5, <2>1 DEF NotesFlagged
<1>11. CASE c.slots = s.now.slots /\ (c.selected = s.now.selected \/ next = 3)
  <2>1. NotesFlagged(s, stage) /\ stage # 3
    BY <1>6 DEF RowsFlagged
  <2>2. ASSUME NEW p \in Places, NEW x \in Int,
               x \in c.slots[p] \/ x \in s.last.slots[p],
               ~ (x \in c.slots[p] /\ x \in s.last.slots[p])
        PROVE  \/ x = c.selected /\ "ROW_NEW" \in t.dirty
               \/ x = t.before /\ "ROW_OLD" \in t.dirty /\ next = 3
    <3>1. x = s.now.selected /\ "ROW_NEW" \in s.dirty
      BY <1>11, <2>1, <2>2 DEF NotesFlagged
    <3> QED
      BY <1>1, <1>5, <1>9, <1>11, <3>1
  <2> QED
    BY <1>3, <1>5, <2>2 DEF NotesFlagged
<1>12. CASE /\ s.now.slots = s.last.slots
            /\ \A p \in Places, x \in Int :
                 (x \in c.slots[p] \/ x \in s.now.slots[p])
                   /\ ~ (x \in c.slots[p] /\ x \in s.now.slots[p])
                   => p = c.slot /\ x = c.selected
  <2>2. ASSUME NEW p \in Places, NEW x \in Int,
               x \in c.slots[p] \/ x \in s.last.slots[p],
               ~ (x \in c.slots[p] /\ x \in s.last.slots[p])
        PROVE  x = c.selected /\ "ROW_NEW" \in t.dirty
    <3>1. p = c.slot /\ x = c.selected
      BY <1>12, <2>2
    <3>2. {q \in Places : c.slots[q] # s.last.slots[q]} # {}
      BY <2>2
    <3>3. "SLOT_BODY" \notin NoteFlags(s.last, c)
      BY <1>6, <1>9
    <3>4. "ROW_NEW" \in NoteFlags(s.last, c)
      BY <3>2, <3>3 DEF NoteFlags, If
    <3> QED
      BY <1>5, <1>9, <3>1, <3>4
  <2> QED
    BY <1>3, <1>5, <2>2 DEF NotesFlagged
<1> QED
  BY <1>10, <1>11, <1>12

(* The corrections of a refresh leave alone what is in place, and put the rest there. *)
LEMMA FittedStays ==
  ASSUME NEW e, EdShape(e), CursorPlaced(e), NEW n \in Nat, e.slot < n
  PROVE  Fitted(e, n) = e
<1>1. e.slot \in Nat /\ n - 1 \in Int /\ e.slot <= n - 1
  BY DEF CursorPlaced
<1>2. PICK k : k = n - 1
  OBVIOUS
<1>3. MinOf({e.slot, k}) = e.slot
  <2>1. PICK i \in Int : i = e.slot
    BY <1>1
  <2>2. k \in Int
    BY <1>1, <1>2
  <2>3. MinOf({i, k}) \in {i, k} /\ MinOf({i, k}) <= i
    BY <2>2, OfTwo
  <2> QED
    BY <2>1, <2>3, <1>1, <1>2
<1>4. ClampTop(e.top, ViewRows) = e.top /\ InView(e.selected, e.top, ViewRows) = e.selected
  BY Views DEF CursorPlaced
<1>5. Fitted(e, n) = [e EXCEPT !.slot = MinOf({e.slot, k}), !.top = ClampTop(e.top, ViewRows),
                       !.selected = InView(e.selected, ClampTop(e.top, ViewRows), ViewRows)]
  BY <1>2 DEF Fitted
<1>6. Fitted(e, n) = [e EXCEPT !.slot = e.slot, !.top = e.top, !.selected = e.selected]
  BY <1>3, <1>4, <1>5
<1> QED
  BY <1>6 DEF EdShape

LEMMA FittedPlaces ==
  ASSUME NEW e, EdShape(e), e.bar \in Bars, e.slot \in Nat, e.pending \in Nat,
         e.top \in Int, e.selected \in Int, NEW n \in Nat \ {0}
  PROVE  /\ EdShape(Fitted(e, n)) /\ CursorPlaced(Fitted(e, n)) /\ Fitted(e, n).slot < n
         /\ Fitted(e, n).mode = e.mode
<1>0. /\ PitchMin \in Nat /\ PitchMax \in Nat /\ BodyRows \in Nat \ {0}
      /\ ViewRows \in 1 .. BodyRows
      /\ PitchMax - PitchMin >= BodyRows
  BY ScreenAssumption DEF ScreenAssumption
<1>1. PICK k \in Nat : k = n - 1
  OBVIOUS
<1>2. PICK slt : slt = MinOf({e.slot, k})
  OBVIOUS
<1>3. slt \in Nat /\ slt < n
  <2>1. PICK i \in Int : i = e.slot
    OBVIOUS
  <2>2. k \in Int
    OBVIOUS
  <2>3. MinOf({i, k}) \in {i, k} /\ MinOf({i, k}) <= k
    BY <2>2, OfTwo
  <2> QED
    BY <2>1, <2>3, <1>1, <1>2
<1>4. PICK top : top = ClampTop(e.top, ViewRows)
  OBVIOUS
<1>5. top \in LowestTop(ViewRows) .. PitchMax /\ top \in Int /\ top >= PitchMin + ViewRows - 1
  BY <1>0, <1>4 DEF ClampTop, Clamp, LowestTop
<1>6. PICK low \in Int : low = top - ViewRows + 1
  BY <1>0, <1>5
<1>7. PICK sel : sel = InView(e.selected, top, ViewRows)
  OBVIOUS
<1>8. sel \in PitchMin .. top /\ sel > top - ViewRows
  <2>1. PitchMin \in Int
    BY <1>0
  <2>2. PICK m : m = MaxOf({PitchMin, low})
    OBVIOUS
  <2>3. m \in {PitchMin, low} /\ m >= PitchMin /\ m >= low
    BY <2>1, <2>2, OfTwo
  <2>4. sel = Clamp(e.selected, m, top)
    BY <1>6, <1>7, <2>2 DEF InView
  <2> QED
    BY <1>0, <1>5, <1>6, <2>3, <2>4 DEF Clamp
<1>9. PICK g : g = Fitted(e, n)
  OBVIOUS
<1>10. g = [e EXCEPT !.slot = slt, !.top = top, !.selected = sel]
  BY <1>1, <1>2, <1>4, <1>7, <1>9 DEF Fitted
<1>11. /\ g.slot = slt /\ g.top = top /\ g.selected = sel /\ g.mode = e.mode /\ g.bar = e.bar
       /\ g.length = e.length /\ g.pending = e.pending /\ g.question = e.question /\ g.yes = e.yes
  BY <1>10 DEF EdShape
<1>12. g = [mode |-> g.mode, bar |-> g.bar, slot |-> g.slot, top |-> g.top,
           selected |-> g.selected, length |-> g.length, pending |-> g.pending,
           question |-> g.question, yes |-> g.yes]
  BY <1>10 DEF EdShape
<1>13. EdShape(g) /\ CursorPlaced(g)
  BY <1>3, <1>5, <1>8, <1>11, <1>12 DEF EdShape, CursorPlaced
<1> QED
  BY <1>3, <1>9, <1>11, <1>13

(* What the screen was given last, field by field. *)
LEMMA GivenFields ==
  ScreenInv /\ ed.mode \in {"editor", "asleep"} =>
    /\ scr.now.step = ed.bar /\ scr.now.top = ClampTop(ed.top, BodyRows)
    /\ scr.now.selected = ed.selected /\ scr.now.slot = ed.slot /\ scr.now.count = Now
    /\ scr.now.length = ed.length /\ scr.now.question = ed.question /\ scr.now.yes = ed.yes
    /\ ContextOK(scr.now)
<1> SUFFICES ASSUME ScreenInv, ed.mode \in {"editor", "asleep"}
             PROVE  /\ scr.now.step = ed.bar /\ scr.now.top = ClampTop(ed.top, BodyRows)
                    /\ scr.now.selected = ed.selected /\ scr.now.slot = ed.slot
                    /\ scr.now.count = Now /\ scr.now.length = ed.length
                    /\ scr.now.question = ed.question /\ scr.now.yes = ed.yes
                    /\ ContextOK(scr.now)
  OBVIOUS
<1>1. LedgerShape /\ EdType /\ ScreenType /\ GivenInv /\ CursorPlaced(ed)
  BY DEF ScreenInv, EdType
<1>2. PICK c : c = Context
  OBVIOUS
<1>3. ContextOK(c) /\ ContextShape(c)
  BY <1>1, <1>2, ContextIsOK DEF ContextOK
<1>4. /\ scr.now = [c EXCEPT !.slots = scr.now.slots, !.spans = scr.now.spans]
      /\ \/ scr.now.slots = c.slots /\ scr.now.spans = c.spans
         \/ scr.now.slots = NoNotes /\ scr.now.spans = NoSpans
  BY <1>1, <1>2 DEF GivenInv
<1>5. PICK n, a, b : n = scr.now /\ a = scr.now.slots /\ b = scr.now.spans
  OBVIOUS
<1>6. n = [c EXCEPT !.slots = a, !.spans = b]
  BY <1>4, <1>5
<1>7. /\ n.step = c.step /\ n.top = c.top /\ n.selected = c.selected /\ n.slot = c.slot
      /\ n.count = c.count /\ n.length = c.length /\ n.question = c.question /\ n.yes = c.yes
  BY <1>3, <1>6 DEF ContextShape
<1>8. ContextShape(n)
  BY <1>3, <1>6 DEF ContextShape
<1>9. ContextOK(n)
  <2>1. CASE a = c.slots /\ b = c.spans
    BY <1>3, <1>5, <1>7, <1>8, <2>1 DEF ContextOK
  <2>2. CASE a = NoNotes /\ b = NoSpans
    <3>1. \A p \in Places : a[p] = {} /\ b[p] = 0
      BY <2>2 DEF NoNotes, NoSpans
    <3> QED
      BY <1>3, <1>5, <1>7, <1>8, <3>1 DEF ContextOK
  <2> QED
    BY <1>4, <1>5, <2>1, <2>2
<1>10. InView(ed.selected, ClampTop(ed.top, BodyRows), BodyRows) = ed.selected
  BY <1>1, Views DEF CursorPlaced
<1> QED
  BY <1>2, <1>5, <1>7, <1>9, <1>10, ContextFields

(* The handlers that end in RefreshStepPianoContext. *)
LEMMA SetKeeps ==
  ASSUME ScreenInv, InEditor, LedgerShape', bar' = bar, division' = division,
         pass' = [stage |-> pass'.stage, inputs |-> pass'.inputs], pass'.stage \in 1 .. 3,
         pass.stage < pass'.stage,
         NEW e, EdShape(e), CursorPlaced(e), e.mode = "editor", e.bar = ed.bar, e.slot < Now,
         Set(e),
         \/ e.top = ed.top
         \/ pass.stage = 0 /\ e.slot = ed.slot /\ ~e.length /\ ~ed.length,
         pass.stage = 0 \/ e.length = ed.length,
         \/ \A p \in Places : Context'.slots[p] = {}
         \/ /\ Context'.slots = Context.slots
            /\ e.selected = ed.selected \/ pass'.stage = 3 \/ pass.stage = 0
         \/ /\ pass.stage = 0
            /\ \A p \in Places, x \in Int :
                 (x \in Context'.slots[p] \/ x \in Context.slots[p])
                   /\ ~ (x \in Context'.slots[p] /\ x \in Context.slots[p])
                   => p = e.slot /\ x = e.selected
  PROVE  ScreenInv'
<1>0. /\ LedgerShape /\ EdType /\ ScreenType /\ GivenInv /\ EditorInv
      /\ ed.mode = "editor" /\ Now \in Nat \ {0}
  BY GridOfBar DEF ScreenInv, InEditor
<1>1. ed' = e /\ Now' = Now
  <2>1. Columns(Steps(bar', division')) = Now
    BY DEF Now
  <2>2. Fitted(e, Now) = e
    BY <1>0, FittedStays
  <2>3. ed' = Fitted(e, Columns(Steps(bar', division')))
    BY DEF Set
  <2>4. Now' = Columns(Steps(bar', division'))
    BY DEF Now
  <2> QED
    BY <2>1, <2>2, <2>3, <2>4
<1>2. EdType'
  BY <1>1 DEF EdType
<1>3. PICK c : c = Context' /\ scr' = SetContext(scr, c) /\ disp' = disp
  BY DEF Set
<1>4. ContextOK(c)
  BY <1>1, <1>2, <1>3, NextContextIsOK
<1>5. /\ c.step = ed.bar /\ c.top = ClampTop(e.top, BodyRows) /\ c.selected = e.selected
      /\ c.slot = e.slot /\ c.count = Now /\ c.length = e.length
  <2>1. InView(e.selected, ClampTop(e.top, BodyRows), BodyRows) = e.selected
    BY Views DEF CursorPlaced
  <2> QED
    BY <1>1, <1>3, <2>1, NextContextFields
<1>6. PICK s : s = scr
  OBVIOUS
<1>7. /\ s = [now |-> s.now, last |-> s.last, dirty |-> s.dirty, before |-> s.before,
              layout |-> s.layout, redraw |-> s.redraw]
      /\ s.now.step = ed.bar /\ s.now.top = ClampTop(ed.top, BodyRows)
      /\ s.now.selected = ed.selected /\ s.now.slot = ed.slot /\ s.now.count = Now
      /\ s.now.length = ed.length
      /\ s.layout /\ ContextOK(s.last) /\ Shows(disp, s.last)
      /\ s.now.step = s.last.step /\ s.now.count = s.last.count
      /\ HeaderFlagged(s) /\ RowsFlagged(s, pass.stage)
      /\ pass.stage = 0 => s.now = s.last /\ s.dirty = {}
  BY <1>0, <1>6, GivenFields DEF ScreenType, EditorInv, InEditor
<1>8. \/ c.top = s.now.top
      \/ /\ s.now.top = s.last.top /\ s.dirty = {} /\ c.slot = s.last.slot
         /\ ~c.length /\ ~s.last.length
  BY <1>5, <1>7
<1>9. "BODY_FULL" \in s.dirty => ~c.length
  BY <1>5, <1>7 DEF RowsFlagged
<1>10. \/ \A p \in Places : s.last.slots[p] = {}
       \/ \A p \in Places : c.slots[p] = {}
       \/ c.slots = s.now.slots /\ (c.selected = s.now.selected \/ pass'.stage = 3)
       \/ /\ s.now.slots = s.last.slots
          /\ \A p \in Places, x \in Int :
               (x \in c.slots[p] \/ x \in s.now.slots[p])
                 /\ ~ (x \in c.slots[p] /\ x \in s.now.slots[p])
                 => p = c.slot /\ x = c.selected
  <2>1. CASE s.last.slots = NoNotes
    BY <2>1 DEF NoNotes
  <2>2. CASE s.last.slots # NoNotes
    <3>1. s.now.slots = Context.slots
      BY <1>0, <1>6, <2>2 DEF GivenInv
    <3>2. CASE \A p \in Places : Context'.slots[p] = {}
      BY <1>3, <3>2
    <3>3. CASE /\ Context'.slots = Context.slots
               /\ e.selected = ed.selected \/ pass'.stage = 3 \/ pass.stage = 0
      <4>1. c.slots = s.now.slots
        BY <1>3, <3>1, <3>3
      <4>2. CASE pass.stage = 0
        <5>1. s.now.slots = s.last.slots
          BY <1>7, <4>2
        <5> QED
          BY <4>1, <5>1
      <4>3. CASE e.selected = ed.selected \/ pass'.stage = 3
        BY <1>5, <1>7, <4>1, <4>3
      <4> QED
        BY <3>3, <4>2, <4>3
    <3>4. CASE /\ pass.stage = 0
               /\ \A p \in Places, x \in Int :
                    (x \in Context'.slots[p] \/ x \in Context.slots[p])
                      /\ ~ (x \in Context'.slots[p] /\ x \in Context.slots[p])
                      => p = e.slot /\ x = e.selected
      <4>1. s.now.slots = s.last.slots
        BY <1>7, <3>4
      <4> QED
        BY <1>3, <1>5, <3>1, <3>4, <4>1
    <3> QED
      BY <3>2, <3>3, <3>4
  <2> QED
    BY <2>1, <2>2
<1>11. PICK stage \in 0 .. 3, next \in 0 .. 3 : stage = pass.stage /\ next = pass'.stage
  BY <1>0 DEF ScreenType
<1>12. ASSUME c.spans = s.last.spans, c.top = s.now.top,
              {"BODY_FULL", "SPAN_ROWS", "SLOT_BODY"} \cap SetContext(s, c).dirty = {}
       PROVE  NotesFlagged(SetContext(s, c), next)
  BY <1>4, <1>5, <1>7, <1>10, <1>11, <1>12, SetNotes
<1>13. PICK t : t = SetContext(s, c)
  OBVIOUS
<1>20. /\ s.now.step = c.step /\ s.now.step = s.last.step
       /\ s.now.count = c.count /\ s.now.count = s.last.count
       /\ HeaderFlagged(s) /\ RowsFlagged(s, stage)
  BY <1>5, <1>7, <1>11
<1>21. s = [now |-> s.now, last |-> s.last, dirty |-> s.dirty, before |-> s.before,
            layout |-> s.layout, redraw |-> s.redraw]
  BY <1>7
<1>22. /\ SetContext(s, c).now = c /\ SetContext(s, c).last = s.last
       /\ SetContext(s, c).layout = s.layout /\ SetContext(s, c).redraw = TRUE
       /\ SetContext(s, c) =
            [now |-> c, last |-> s.last, dirty |-> SetContext(s, c).dirty,
             before |-> SetContext(s, c).before, layout |-> s.layout, redraw |-> TRUE]
       /\ HeaderFlagged(SetContext(s, c)) /\ RowsFlagged(SetContext(s, c), next)
  BY <1>8, <1>9, <1>12, <1>20, <1>21, SetFlags
<1>14. /\ t.now = c /\ t.last = s.last /\ t.layout = s.layout /\ t.redraw = TRUE
       /\ t = [now |-> c, last |-> s.last, dirty |-> t.dirty,
               before |-> t.before, layout |-> s.layout, redraw |-> TRUE]
       /\ HeaderFlagged(t) /\ RowsFlagged(t, next)
  BY <1>13, <1>22
<1>15. scr' = t
  BY <1>3, <1>6, <1>13
<1>16. ContextShape(c)
  BY <1>4 DEF ContextOK
<1>17. ScreenType'
  <2>1. t = [now |-> t.now, last |-> t.last, dirty |-> t.dirty,
             before |-> t.before, layout |-> t.layout, redraw |-> t.redraw]
    BY <1>14
  <2>2. t.redraw \in BOOLEAN /\ ContextShape(t.now)
    BY <1>14, <1>16
  <2>3. /\ disp = [rows |-> disp.rows, header |-> disp.header, covered |-> disp.covered,
                   box |-> disp.box]
        /\ disp.covered \subseteq UnderDialog
    BY <1>0 DEF ScreenType
  <2> QED
    BY <1>3, <1>15, <2>1, <2>2, <2>3 DEF ScreenType
<1>18. GivenInv'
  <2>1. c = [c EXCEPT !.slots = c.slots, !.spans = c.spans]
    BY <1>16 DEF ContextShape
  <2> QED
    BY <1>3, <1>14, <1>15, <2>1 DEF GivenInv
<1>19. EditorInv'
  BY <1>3, <1>5, <1>7, <1>11, <1>14, <1>15 DEF EditorInv
<1> QED
  BY <1>2, <1>17, <1>18, <1>19 DEF ScreenInv

(* What the steps of a drawing do to the copies of the context. *)
LEMMA DrawnOnce ==
  ASSUME NEW s,
         s = [now |-> s.now, last |-> s.last, dirty |-> s.dirty, before |-> s.before,
              layout |-> s.layout, redraw |-> s.redraw],
         s.redraw
  PROVE  /\ AfterDraw(s).now = s.now /\ AfterDraw(s).last = s.now /\ AfterDraw(s).dirty = {}
         /\ AfterDraw(s).layout = TRUE /\ AfterDraw(s).redraw = FALSE
         /\ AfterDraw(s) =
              [now |-> AfterDraw(s).now, last |-> AfterDraw(s).last,
               dirty |-> AfterDraw(s).dirty, before |-> AfterDraw(s).before,
               layout |-> AfterDraw(s).layout, redraw |-> AfterDraw(s).redraw]
<1>1. PICK t : t = AfterDraw(s)
  OBVIOUS
<1>2. t = [s EXCEPT !.layout = TRUE, !.last = s.now, !.dirty = {}, !.redraw = FALSE]
  BY <1>1 DEF AfterDraw
<1>3. t.now = s.now /\ t.last = s.now /\ t.dirty = {} /\ t.layout = TRUE /\ t.redraw = FALSE
  BY <1>2
<1>4. t = [now |-> t.now, last |-> t.last, dirty |-> t.dirty, before |-> t.before,
           layout |-> t.layout, redraw |-> t.redraw]
  BY <1>2
<1> QED
  BY <1>1, <1>3, <1>4

LEMMA CacheReset ==
  ASSUME NEW s,
         s = [now |-> s.now, last |-> s.last, dirty |-> s.dirty, before |-> s.before,
              layout |-> s.layout, redraw |-> s.redraw],
         ContextShape(s.now)
  PROVE  /\ ResetCache(s).now = [s.now EXCEPT !.slots = NoNotes, !.spans = NoSpans]
         /\ ResetCache(s).layout = FALSE /\ ResetCache(s).redraw = TRUE
         /\ ContextShape(ResetCache(s).now)
         /\ ResetCache(s) =
              [now |-> ResetCache(s).now, last |-> ResetCache(s).last,
               dirty |-> ResetCache(s).dirty, before |-> ResetCache(s).before,
               layout |-> ResetCache(s).layout, redraw |-> ResetCache(s).redraw]
<1>1. PICK n : n = [s.now EXCEPT !.slots = NoNotes, !.spans = NoSpans]
  OBVIOUS
<1>2. PICK t : t = ResetCache(s)
  OBVIOUS
<1>3. t = [[[s EXCEPT !.now.slots = NoNotes] EXCEPT !.now.spans = NoSpans]
             EXCEPT !.last = Never, !.layout = FALSE, !.redraw = TRUE, !.dirty = Flags,
                    !.before = 255]
  BY <1>2 DEF ResetCache
<1>4. PICK u : u = [[s EXCEPT !.now.slots = NoNotes] EXCEPT !.now.spans = NoSpans]
  OBVIOUS
<1>5. u.now = n
  BY <1>1, <1>4
<1>6. u = [now |-> u.now, last |-> u.last, dirty |-> u.dirty, before |-> u.before,
           layout |-> u.layout, redraw |-> u.redraw]
  BY <1>4
<1>7. t = [u EXCEPT !.last = Never, !.layout = FALSE, !.redraw = TRUE, !.dirty = Flags,
                    !.before = 255]
  BY <1>3, <1>4
<1>8. t.now = n /\ t.layout = FALSE /\ t.redraw = TRUE
  BY <1>5, <1>6, <1>7
<1>9. t = [now |-> t.now, last |-> t.last, dirty |-> t.dirty, before |-> t.before,
           layout |-> t.layout, redraw |-> t.redraw]
  BY <1>6, <1>7
<1>10. ContextShape(n)
  BY <1>1 DEF ContextShape
<1> QED
  BY <1>1, <1>2, <1>8, <1>9, <1>10

LEMMA ContextSet ==
  ASSUME NEW s, NEW c,
         s = [now |-> s.now, last |-> s.last, dirty |-> s.dirty, before |-> s.before,
              layout |-> s.layout, redraw |-> s.redraw]
  PROVE  /\ SetContext(s, c).now = c /\ SetContext(s, c).redraw = TRUE
         /\ SetContext(s, c).layout = s.layout
         /\ SetContext(s, c) =
              [now |-> SetContext(s, c).now, last |-> SetContext(s, c).last,
               dirty |-> SetContext(s, c).dirty, before |-> SetContext(s, c).before,
               layout |-> SetContext(s, c).layout, redraw |-> SetContext(s, c).redraw]
<1>1. PICK b : b = IF s.now.step = c.step /\ s.now.selected # c.selected
                   THEN s.now.selected ELSE s.before
  OBVIOUS
<1>2. PICK f : f = FlagsFor(s, c)
  OBVIOUS
<1>3. PICK t : t = SetContext(s, c)
  OBVIOUS
<1>4. t = [s EXCEPT !.now = c, !.redraw = TRUE, !.dirty = s.dirty \cup f, !.before = b]
  BY <1>1, <1>2, <1>3 DEF SetContext
<1>5. t.now = c /\ t.redraw = TRUE /\ t.layout = s.layout
  BY <1>4
<1>6. t = [now |-> t.now, last |-> t.last, dirty |-> t.dirty, before |-> t.before,
           layout |-> t.layout, redraw |-> t.redraw]
  BY <1>4
<1> QED
  BY <1>3, <1>5, <1>6

LEMMA NextGridOfBar ==
  (LedgerShape => Now \in {4, 8, 16, 32})'
<1>1. LedgerShape => Now \in {4, 8, 16, 32}
  BY GridOfBar
<1> QED
  BY <1>1, PTL

(* After a drawing at once, nothing is left to be drawn. *)
LEMMA AtOnceKeeps ==
  ASSUME ScreenType', EdType', LedgerShape', GivenInv', ContextOK(scr.now)',
         (scr.now = scr.last /\ scr.dirty = {} /\ scr.layout /\ ~scr.redraw)',
         Shows(disp, scr.last)'
  PROVE  ScreenInv'
<1>1. HeaderFlagged(scr)' /\ RowsFlagged(scr, pass.stage)'
  BY DEF HeaderFlagged, RowsFlagged, NotesFlagged
<1>2. EditorInv'
  BY <1>1 DEF EditorInv
<1> QED
  BY <1>2 DEF ScreenInv

LEMMA DrawAnewKeeps ==
  ASSUME ScreenInv, LedgerShape',
         pass' = [stage |-> pass'.stage, inputs |-> pass'.inputs], pass'.stage \in 0 .. 3,
         NEW e, EdShape(e), e.mode = "editor", e.bar \in Bars, e.slot \in Nat, e.pending \in Nat,
         e.top \in Int, e.selected \in Int, DrawAnew(e)
  PROVE  ScreenInv'
<1>1. ScreenType
  BY DEF ScreenInv
<1>2. Now' \in Nat \ {0} /\ Now' = Columns(Steps(bar', division'))
  BY NextGridOfBar DEF Now
<1>3. ed' = Fitted(e, Now')
  BY <1>2 DEF DrawAnew
<1>4. EdShape(ed') /\ CursorPlaced(ed') /\ ed'.slot < Now' /\ ed'.mode = "editor"
  BY <1>2, <1>3, FittedPlaces
<1>5. EdType'
  BY <1>4 DEF EdType
<1>6. PICK c, s : /\ c = Context' /\ s = SetContext(ResetCache(scr), c)
                  /\ scr' = AfterDraw(s) /\ disp' = Drawn(disp, s)
  BY DEF DrawAnew
<1>7. ContextOK(c)
  BY <1>4, <1>5, <1>6, NextContextIsOK
<1>8. PICK r : r = ResetCache(scr)
  OBVIOUS
<1>9. /\ r = [now |-> r.now, last |-> r.last, dirty |-> r.dirty, before |-> r.before,
              layout |-> r.layout, redraw |-> r.redraw]
      /\ r.layout = FALSE
  BY <1>1, <1>8, CacheReset DEF ScreenType
<1>10. s = SetContext(r, c)
  BY <1>6, <1>8
<1>11. /\ s = [now |-> s.now, last |-> s.last, dirty |-> s.dirty, before |-> s.before,
               layout |-> s.layout, redraw |-> s.redraw]
       /\ s.now = c /\ s.layout = FALSE /\ s.redraw = TRUE
  BY <1>9, <1>10, ContextSet
<1>12. PICK d, f : d = disp' /\ f = Drawn(disp, s)
  OBVIOUS
<1>13. /\ disp = [rows |-> disp.rows, header |-> disp.header, covered |-> disp.covered,
                  box |-> disp.box]
       /\ disp.covered \subseteq UnderDialog
  BY <1>1 DEF ScreenType
<1>14. /\ Shows(d, c) /\ d.covered \subseteq UnderDialog
       /\ d = [rows |-> d.rows, header |-> d.header, covered |-> d.covered, box |-> d.box]
  BY <1>6, <1>11, <1>12, <1>13, DrawsAnew
<1>15. PICK t : t = AfterDraw(s)
  OBVIOUS
<1>16. /\ t.now = c /\ t.last = c /\ t.dirty = {} /\ t.layout = TRUE /\ t.redraw = FALSE
       /\ t = [now |-> t.now, last |-> t.last, dirty |-> t.dirty, before |-> t.before,
               layout |-> t.layout, redraw |-> t.redraw]
  BY <1>11, <1>15, DrawnOnce
<1>17. scr' = t
  BY <1>6, <1>15
<1>18. ContextShape(c)
  BY <1>7 DEF ContextOK
<1>19. ScreenType'
  BY <1>12, <1>14, <1>16, <1>17, <1>18 DEF ScreenType
<1>20. GivenInv'
  <2>1. c = [c EXCEPT !.slots = c.slots, !.spans = c.spans]
    BY <1>18 DEF ContextShape
  <2> QED
    BY <1>6, <1>16, <1>17, <2>1 DEF GivenInv
<1> QED
  BY <1>5, <1>7, <1>12, <1>14, <1>16, <1>17, <1>19, <1>20, AtOnceKeeps

(* While another screen is shown, nothing is claimed of this one. *)
LEMMA ShowKeeps ==
  ASSUME ScreenInv, UNCHANGED ledgerVars,
         pass' = [stage |-> pass'.stage, inputs |-> pass'.inputs], pass'.stage \in 0 .. 3,
         NEW e, EdShape(e), e.mode \in {"closed", "menu"},
           e.mode = "menu" => CursorPlaced(e), Show(e)
  PROVE  ScreenInv'
<1>1. LedgerShape'
  BY DEF ScreenInv, LedgerShape, ledgerVars
<1>2. EdType' /\ GivenInv' /\ EditorInv'
  BY DEF EdType, GivenInv, EditorInv, Show, InEditor
<1>3. PICK r : r = ResetCache(scr)
  OBVIOUS
<1>4. /\ r = [now |-> r.now, last |-> r.last, dirty |-> r.dirty, before |-> r.before,
              layout |-> r.layout, redraw |-> r.redraw]
      /\ r.redraw = TRUE /\ ContextShape(r.now)
  BY <1>3, CacheReset DEF ScreenInv, ScreenType
<1>5. ScreenType'
  BY <1>3, <1>4 DEF ScreenType, Show, Painted
<1> QED
  BY <1>1, <1>2, <1>5 DEF ScreenInv

(* What the edits of a bar do to its columns. *)
LEMMA ShapeSummarized ==
  ASSUME NEW s, BarShape(s)
  PROVE  BarShape(Summarized(s)) /\ Summarized(s).ledger = s.ledger
<1>1. PICK m : m = UNION {PitchClasses(s.ledger[p]) : p \in Positions}
  OBVIOUS
<1>2. PICK y : y = IF s.skip THEN "Skip" ELSE IF m # {} THEN "Chord" ELSE "Empty"
  OBVIOUS
<1>3. PICK t : t = Summarized(s)
  OBVIOUS
<1>4. t = [s EXCEPT !.mask = m, !.type = y]
  BY <1>1, <1>2, <1>3 DEF Summarized
<1>5. t.ledger = s.ledger /\ t.length = s.length
  BY <1>4 DEF BarShape
<1>6. t = [ledger |-> t.ledger, length |-> t.length, lane |-> t.lane,
           explicit |-> t.explicit, skip |-> t.skip, mask |-> t.mask, type |-> t.type]
  BY <1>4 DEF BarShape
<1> QED
  BY <1>3, <1>5, <1>6 DEF BarShape

(* One bar is edited; another stays as it is. *)
LEMMA BarEdited ==
  ASSUME LedgerShape, NEW b \in Bars, NEW s, BarShape(s), slot' = [slot EXCEPT ![b] = s],
         UNCHANGED <<division, bar>>
  PROVE  LedgerShape' /\ slot'[b] = s
<1>1. slot' = [a \in Bars |-> slot'[a]] /\ slot'[b] = s
  BY DEF LedgerShape
<1>2. \A a \in Bars : BarShape(slot'[a])
  <2>1. \A a \in Bars : slot'[a] = IF a = b THEN s ELSE slot[a]
    BY DEF LedgerShape
  <2> QED
    BY <2>1 DEF LedgerShape
<1> QED
  BY <1>1, <1>2 DEF LedgerShape

(* What the calls of the ledger leave of its shape and of the columns. *)
LEMMA SkipSet ==
  ASSUME LedgerShape, NEW b \in Bars, NEW skip, SetStepBarState(b, skip)
  PROVE  LedgerShape' /\ \A p \in Nat : Column(b, p)' = Column(b, p)
<1>1. PICK s : s = [slot[b] EXCEPT !.skip = skip]
  OBVIOUS
<1>2. s.ledger = slot[b].ledger /\ s.length = slot[b].length
  BY <1>1 DEF LedgerShape, BarShape
<1>3. s = [ledger |-> s.ledger, length |-> s.length, lane |-> s.lane,
           explicit |-> s.explicit, skip |-> s.skip, mask |-> s.mask, type |-> s.type]
  BY <1>1 DEF LedgerShape, BarShape
<1>4. BarShape(s)
  BY <1>2, <1>3 DEF LedgerShape, BarShape
<1>5. PICK t : t = Summarized(s) /\ BarShape(t) /\ t.ledger = slot[b].ledger
  BY <1>2, <1>4, ShapeSummarized
<1>6. slot' = [slot EXCEPT ![b] = t] /\ UNCHANGED <<division, bar>>
  BY <1>1, <1>5 DEF SetStepBarState
<1>7. LedgerShape' /\ slot'[b] = t
  BY <1>5, <1>6, BarEdited
<1> QED
  BY <1>5, <1>6, <1>7 DEF Column

LEMMA LengthSet ==
  ASSUME LedgerShape, NEW b \in Bars, NEW i \in Nat, NEW k \in Int, SetStepEventLength(b, i, k)
  PROVE  LedgerShape' /\ \A p \in Nat : Column(b, p)' = Column(b, p)
<1> DEFINE p == i * Stride(division)
           n == Clamp(Clamp(k, 1, GridMaxLength(slot[b], i)) * Stride(division), 1,
                      MaxLength(slot[b], p, bar))
<1>1. p \in Positions /\ Stride(division) \in 1 .. 8 /\ division \in Divisions /\ bar \in Nat
  BY GridOfBar, StepsFillBar DEF SetStepEventLength
<1>2. n \in Nat
  <2>1. PICK grid : grid = Clamp(k, 1, GridMaxLength(slot[b], i))
    OBVIOUS
  <2>2. GridMaxLength(slot[b], i) \in Nat \ {0}
    BY GridLengths
  <2>3. grid \in Nat
    BY <2>1, <2>2 DEF Clamp
  <2>4. MaxLength(slot[b], p, bar) \in Nat \ {0}
    <3>1. p \in Nat
      BY <1>1
    <3> QED
      BY <1>1, <3>1, RoomOfEvent
  <2>5. PICK m \in Nat : m = grid * Stride(division)
    BY <2>3, <1>1
  <2>6. n = Clamp(m, 1, MaxLength(slot[b], p, bar))
    BY <2>1, <2>5
  <2> HIDE DEF n
  <2> QED
    BY <2>4, <2>6 DEF Clamp
<1>3. slot' = [slot EXCEPT ![b].length[p] = n] /\ UNCHANGED <<division, bar>>
  BY DEF SetStepEventLength
<1> HIDE DEF n, p
<1>4. PICK s : s = [slot[b] EXCEPT !.length[p] = n]
  OBVIOUS
<1>5. slot' = [slot EXCEPT ![b] = s]
  BY <1>3, <1>4
<1>6. s.ledger = slot[b].ledger /\ s.length = [slot[b].length EXCEPT ![p] = n]
  BY <1>4 DEF LedgerShape, BarShape
<1>7. s = [ledger |-> s.ledger, length |-> s.length, lane |-> s.lane,
           explicit |-> s.explicit, skip |-> s.skip, mask |-> s.mask, type |-> s.type]
  BY <1>4 DEF LedgerShape, BarShape
<1>8. BarShape(s)
  BY <1>1, <1>2, <1>6, <1>7 DEF LedgerShape, BarShape
<1>9. LedgerShape' /\ slot'[b] = s
  BY <1>3, <1>5, <1>8, BarEdited
<1> QED
  BY <1>3, <1>6, <1>9 DEF Column

LEMMA NotesSet ==
  ASSUME LedgerShape, NEW b \in Bars, NEW i \in Nat, NEW given \in SUBSET Nat,
         SetStepLedgerSlot(b, i, given)
  PROVE  LedgerShape' /\ \A p \in Nat : Column(b, p)' = IF p = i THEN given ELSE Column(b, p)
<1>1. PICK q : q = i * Stride(division)
  OBVIOUS
<1>2. PICK stride : stride = Stride(division)
  OBVIOUS
<1>3. /\ q \in Positions /\ stride \in Nat \ {0} /\ division \in Divisions
      /\ Steps(bar, division) \in Nat /\ i < Steps(bar, division)
      /\ \A p \in Nat : p < Steps(bar, division) => p * Stride(division) \in Positions
  <2>1. /\ division \in Divisions /\ bar \in Nat /\ Steps(bar, division) \in Nat
        /\ \A p \in Nat : p < Steps(bar, division) => p * Stride(division) \in Positions
    BY GridOfBar
  <2>2. Stride(division) \in 1 .. 8
    BY <2>1, StepsFillBar
  <2>3. i < Steps(bar, division)
    BY DEF SetStepLedgerSlot
  <2>4. q \in Positions
    BY <1>1, <2>1, <2>3
  <2>5. stride \in Nat \ {0}
    BY <1>2, <2>2
  <2> QED
    BY <2>1, <2>3, <2>4, <2>5
<1>4. PICK a : a = slot[b] /\ BarShape(a)
  BY DEF LedgerShape
<1>5. PICK n, y : /\ n = IF ~IsStart(a, q) /\ given # {} THEN stride ELSE a.length[q]
                  /\ y = LaneByte(a, q, given)
  OBVIOUS
<1>6. n \in Nat
  BY <1>3, <1>4, <1>5 DEF BarShape
<1>7. PICK s : s = [a EXCEPT !.ledger[q] = given, !.lane[q] = y, !.length[q] = n]
  OBVIOUS
<1>8. s.ledger = [a.ledger EXCEPT ![q] = given] /\ s.length = [a.length EXCEPT ![q] = n]
  BY <1>4, <1>7 DEF BarShape
<1>9. s = [ledger |-> s.ledger, length |-> s.length, lane |-> s.lane,
           explicit |-> s.explicit, skip |-> s.skip, mask |-> s.mask, type |-> s.type]
  BY <1>4, <1>7 DEF BarShape
<1>10. BarShape(s)
  BY <1>3, <1>4, <1>6, <1>8, <1>9 DEF BarShape
<1>11. PICK t : t = Summarized(s) /\ BarShape(t) /\ t.ledger = [a.ledger EXCEPT ![q] = given]
  BY <1>8, <1>10, ShapeSummarized
<1>12. WithSlot(a, q, given, stride) = t
  BY <1>5, <1>7, <1>11 DEF WithSlot
<1>13. slot' = [slot EXCEPT ![b] = t] /\ UNCHANGED <<division, bar>>
  BY <1>1, <1>2, <1>4, <1>12 DEF SetStepLedgerSlot
<1>14. LedgerShape' /\ slot'[b] = t
  BY <1>11, <1>13, BarEdited
<1>15. ASSUME NEW p \in Nat, p < Steps(bar, division)
       PROVE  t.ledger[p * Stride(division)] =
                IF p = i THEN given ELSE a.ledger[p * Stride(division)]
  <2>1. p * Stride(division) = q <=> p = i
    <3>1. /\ Stride(1) = 8 /\ Stride(2) = 4 /\ Stride(4) = 2 /\ Stride(8) = 1
      BY DEF Stride
    <3>2. division = 1 \/ division = 2 \/ division = 4 \/ division = 8
      BY <1>3 DEF Divisions
    <3> QED
      BY <1>1, <3>1, <3>2
  <2>2. p * Stride(division) \in Positions
    BY <1>3, <1>15
  <2> QED
    BY <1>3, <1>4, <1>11, <2>1, <2>2 DEF BarShape
<1>16. ASSUME NEW p \in Nat
       PROVE  Column(b, p)' = IF p = i THEN given ELSE Column(b, p)
  <2>1. CASE p < Steps(bar, division)
    <3>1. Column(b, p)' = t.ledger[p * Stride(division)]
      BY <1>13, <1>14, <2>1 DEF Column
    <3>2. Column(b, p) = a.ledger[p * Stride(division)]
      BY <1>4, <2>1 DEF Column
    <3> QED
      BY <1>15, <2>1, <3>1, <3>2
  <2>2. CASE ~(p < Steps(bar, division))
    <3>1. Column(b, p)' = {} /\ Column(b, p) = {} /\ p # i
      BY <1>3, <1>13, <2>2 DEF Column
    <3> QED
      BY <3>1
  <2> QED
    BY <2>1, <2>2
<1> QED
  BY <1>14, <1>16

LEMMA BarCleared ==
  ASSUME LedgerShape, NEW b \in Bars, slot' = [slot EXCEPT ![b] = Emptied(@)],
         UNCHANGED <<division, bar>>
  PROVE  LedgerShape' /\ \A p \in Nat : Column(b, p)' = {}
<1>1. PICK a : a = slot[b] /\ BarShape(a)
  BY DEF LedgerShape
<1>2. PICK x : x = [p \in Positions |->
    IF \E i \in 0 .. Steps(bar, division) - 1 : p = i * Stride(division) THEN {} ELSE a.ledger[p]]
  OBVIOUS
<1>3. PICK y : y = [p \in Positions |->
    IF \E i \in 0 .. Steps(bar, division) - 1 : p = i * Stride(division)
    THEN [k \in Lanes |-> 0] ELSE a.lane[p]]
  OBVIOUS
<1>4. PICK s : s = [a EXCEPT !.ledger = x, !.lane = y]
  OBVIOUS
<1>5. s.ledger = x /\ s.length = a.length
  BY <1>1, <1>4 DEF BarShape
<1>6. s = [ledger |-> s.ledger, length |-> s.length, lane |-> s.lane,
           explicit |-> s.explicit, skip |-> s.skip, mask |-> s.mask, type |-> s.type]
  BY <1>1, <1>4 DEF BarShape
<1>7. x \in [Positions -> SUBSET Nat]
  BY <1>1, <1>2 DEF BarShape
<1>8. BarShape(s)
  BY <1>1, <1>5, <1>6, <1>7 DEF BarShape
<1>9. PICK t : t = Summarized(s) /\ BarShape(t) /\ t.ledger = x
  BY <1>5, <1>8, ShapeSummarized
<1>10. Emptied(a) = t
  BY <1>2, <1>3, <1>4, <1>9 DEF Emptied
<1>11. slot' = [slot EXCEPT ![b] = t]
  BY <1>1, <1>10
<1>12. LedgerShape' /\ slot'[b] = t
  BY <1>9, <1>11, BarEdited
<1>13. ASSUME NEW p \in Nat
       PROVE  Column(b, p)' = {}
  <2>1. CASE p < Steps(bar, division)
    <3>1. p * Stride(division) \in Positions /\ p \in 0 .. Steps(bar, division) - 1
      BY <2>1, GridOfBar
    <3>2. x[p * Stride(division)] = {}
      BY <1>2, <3>1
    <3> QED
      BY <1>9, <1>12, <2>1, <3>2 DEF Column
  <2>2. CASE ~(p < Steps(bar, division))
    BY <2>2 DEF Column
  <2> QED
    BY <2>1, <2>2
<1> QED
  BY <1>12, <1>13

LEMMA TimingSet ==
  ASSUME LedgerShape, NEW d \in Divisions, NEW n \in BarLengths, SetPatternTiming(d, n)
  PROVE  LedgerShape'
<1>1. \A b \in Bars : BarShape(Summarized(slot[b]))
  BY ShapeSummarized DEF LedgerShape
<1> QED
  BY <1>1 DEF LedgerShape, SetPatternTiming

(* The notes handed to the screen are the columns of the bar. *)
LEMMA NextColumns ==
  ASSUME NEW b, ed.bar = b, ed'.bar = b, bar' = bar, division' = division, NEW p \in Places
  PROVE  /\ Context'.slots[p] = IF p < Now THEN Column(b, p)' ELSE {}
         /\ Context.slots[p] = IF p < Now THEN Column(b, p) ELSE {}
<1>1. Context.slots[p] = IF p < Now THEN Column(b, p) ELSE {}
  BY ContextFields
<1>2. Context'.slots[p] = IF p < Now' THEN Column(ed.bar, p)' ELSE {}
  BY NextContextFields
<1>3. Now' = Now
  BY DEF Now
<1>4. Column(ed.bar, p)' = Column(b, p)'
  BY DEF Column
<1> QED
  BY <1>1, <1>2, <1>3, <1>4

LEMMA BarIsSet ==
  ASSUME LedgerShape, bar' = bar, division' = division, NEW e, EdShape(e), CursorPlaced(e),
         e.slot < Now, Set(e)
  PROVE  ed' = e
<1>1. Now \in Nat
  BY GridOfBar
<1>2. Fitted(e, Now) = e
  BY <1>1, FittedStays
<1>3. Columns(Steps(bar', division')) = Now
  BY DEF Now
<1> QED
  BY <1>2, <1>3 DEF Set

(* An input that leaves the bar as it is. *)
LEMMA SeenKeeps ==
  ASSUME ScreenInv, InEditor, UNCHANGED ledgerVars, NEW stage \in 1 .. 3, Input(stage),
         NEW e, EdShape(e), CursorPlaced(e), e.mode = "editor", e.bar = ed.bar, e.slot < Now,
         Set(e),
         \/ e.top = ed.top
         \/ stage = 1 /\ e.slot = ed.slot /\ ~e.length /\ ~ed.length,
         stage = 1 \/ e.length = ed.length,
         stage \in {1, 3} \/ e.selected = ed.selected
  PROVE  ScreenInv'
<1>1. /\ LedgerShape /\ LedgerShape' /\ bar' = bar /\ division' = division /\ slot' = slot
      /\ pass.stage \in 0 .. 3
  BY DEF ScreenInv, ScreenType, LedgerShape, ledgerVars
<1>2. /\ pass' = [stage |-> pass'.stage, inputs |-> pass'.inputs] /\ pass'.stage = stage
      /\ pass.stage < stage
  BY DEF Input
<1>3. stage = 1 => pass.stage = 0
  BY <1>1, <1>2
<1>4. PICK b : b = ed.bar
  OBVIOUS
<1>5. ed'.bar = b
  BY <1>1, <1>4, BarIsSet
<1>6. \A p \in Places : Column(b, p)' = Column(b, p)
  BY <1>1 DEF Column
<1>7. \A p \in Places : Context'.slots[p] = Context.slots[p]
  BY <1>1, <1>4, <1>5, <1>6, NextColumns
<1>8. /\ Context'.slots = [p \in Places |-> Context'.slots[p]]
      /\ Context.slots = [p \in Places |-> Context.slots[p]]
  BY ContextFields, NextContextFields
<1>9. Context'.slots = Context.slots
  BY <1>7, <1>8
<1> QED
  BY <1>1, <1>2, <1>3, <1>9, SetKeeps

LEMMA InViewPlaces ==
  ASSUME NEW top \in LowestTop(ViewRows) .. PitchMax, NEW x \in Int
  PROVE  InView(x, top, ViewRows) \in PitchMin .. top /\ InView(x, top, ViewRows) > top - ViewRows
<1>0. PitchMin \in Int /\ PitchMin \in Nat /\ PitchMax \in Nat /\ ViewRows \in Nat \ {0}
  BY ScreenAssumption DEF ScreenAssumption
<1>1. top \in Int /\ top >= PitchMin + ViewRows - 1
  BY <1>0 DEF LowestTop
<1>2. PICK low \in Int : low = top - ViewRows + 1
  BY <1>0, <1>1
<1>3. PICK m : m = MaxOf({PitchMin, low})
  OBVIOUS
<1>4. m \in {PitchMin, low} /\ m >= PitchMin /\ m >= low
  BY <1>0, <1>3, OfTwo
<1>5. InView(x, top, ViewRows) = Clamp(x, m, top)
  BY <1>2, <1>3 DEF InView
<1> QED
  BY <1>0, <1>1, <1>2, <1>4, <1>5 DEF Clamp

LEMMA ClampTopPlaces ==
  ASSUME NEW x \in Int
  PROVE  ClampTop(x, ViewRows) \in LowestTop(ViewRows) .. PitchMax
<1>1. /\ PitchMin \in Nat /\ PitchMax \in Nat /\ BodyRows \in Nat \ {0}
      /\ ViewRows \in 1 .. BodyRows /\ PitchMax - PitchMin >= BodyRows
  BY ScreenAssumption DEF ScreenAssumption
<1> QED
  BY <1>1 DEF ClampTop, Clamp, LowestTop

(* The editor while it is on the display. *)
LEMMA InTheEditor ==
  ASSUME ScreenInv, InEditor
  PROVE  /\ LedgerShape /\ EdShape(ed) /\ CursorPlaced(ed) /\ ed.mode = "editor" /\ ed.slot < Now
         /\ Now \in {4, 8, 16, 32} /\ ed.slot \in Nat /\ ed.bar \in Bars /\ ed.selected \in Nat
         /\ ed.top \in Int /\ ed.selected \in Int
         /\ ed = [mode |-> ed.mode, bar |-> ed.bar, slot |-> ed.slot, top |-> ed.top,
                  selected |-> ed.selected, length |-> ed.length, pending |-> ed.pending,
                  question |-> ed.question, yes |-> ed.yes]
<1>1. LedgerShape /\ EdShape(ed) /\ CursorPlaced(ed) /\ ed.mode = "editor" /\ ed.slot < Now
  BY DEF ScreenInv, EdType, InEditor
<1>2. Now \in {4, 8, 16, 32}
  BY <1>1, GridOfBar
<1>3. PitchMin \in Nat /\ PitchMax \in Nat /\ ViewRows \in Nat
  BY ScreenAssumption DEF ScreenAssumption
<1>4. ed.top \in Int /\ ed.selected \in Nat
  BY <1>1, <1>3 DEF CursorPlaced, LowestTop
<1> QED
  BY <1>1, <1>2, <1>4 DEF EdShape, CursorPlaced

(* The inputs that change what is seen. *)
LEMMA MovePitchKeeps ==
  ASSUME ScreenInv, NEW turn \in {-1, 1}, MovePitch(turn)
  PROVE  ScreenInv'
<1>1. InEditor /\ Input(3) /\ UNCHANGED ledgerVars
  BY DEF MovePitch, Editing, See
<1>2. PICK x : x = InView(ed.selected + turn, ed.top, ViewRows)
  OBVIOUS
<1>3. PICK e : e = [ed EXCEPT !.selected = x]
  OBVIOUS
<1>4. Set(e)
  BY <1>2, <1>3 DEF MovePitch
<1>5. x \in PitchMin .. ed.top /\ x > ed.top - ViewRows
  <2>1. ed.top \in LowestTop(ViewRows) .. PitchMax /\ ed.selected + turn \in Int
    BY <1>1, InTheEditor DEF CursorPlaced
  <2> QED
    BY <1>2, <2>1, InViewPlaces
<1>6. /\ e.mode = ed.mode /\ e.bar = ed.bar /\ e.slot = ed.slot /\ e.top = ed.top
      /\ e.selected = x /\ e.length = ed.length /\ e.pending = ed.pending /\ e.yes = ed.yes
  BY <1>1, <1>3, InTheEditor
<1>7. EdShape(e) /\ CursorPlaced(e) /\ e.slot < Now
  BY <1>1, <1>3, <1>5, <1>6, InTheEditor DEF EdShape, CursorPlaced
<1> QED
  BY <1>1, <1>4, <1>6, <1>7, SeenKeeps DEF InEditor

LEMMA ChooseAnswerKeeps ==
  ASSUME ScreenInv, ChooseAnswer
  PROVE  ScreenInv'
<1>1. InEditor /\ Input(3) /\ UNCHANGED ledgerVars
  BY DEF ChooseAnswer, See
<1>2. PICK y \in BOOLEAN : y = ~ed.yes
  BY Zenon
<1>3. PICK e : e = [ed EXCEPT !.yes = y]
  OBVIOUS
<1>4. Set(e)
  BY <1>2, <1>3 DEF ChooseAnswer
<1>6. /\ e.mode = ed.mode /\ e.bar = ed.bar /\ e.slot = ed.slot /\ e.top = ed.top
      /\ e.selected = ed.selected /\ e.length = ed.length /\ e.pending = ed.pending /\ e.yes = y
  BY <1>1, <1>3, InTheEditor
<1>7. EdShape(e) /\ CursorPlaced(e) /\ e.slot < Now
  BY <1>1, <1>3, <1>6, InTheEditor DEF EdShape, CursorPlaced
<1> QED
  BY <1>1, <1>4, <1>6, <1>7, SeenKeeps DEF InEditor

LEMMA ChangeLengthKeeps ==
  ASSUME ScreenInv, NEW turn \in {-1, 1}, ChangeLength(turn)
  PROVE  ScreenInv'
<1>1. InEditor /\ Input(3) /\ UNCHANGED ledgerVars
  BY DEF ChangeLength, See
<1>2. PICK n : n = Clamp(ed.pending + turn, 1, GridMaxLength(slot[ed.bar], ed.slot))
  OBVIOUS
<1>3. PICK e : e = [ed EXCEPT !.pending = n]
  OBVIOUS
<1>4. Set(e)
  BY <1>2, <1>3 DEF ChangeLength
<1>5. n \in Nat
  <2>1. GridMaxLength(slot[ed.bar], ed.slot) \in Nat \ {0}
    BY <1>1, InTheEditor, GridLengths
  <2>2. ed.pending \in Nat
    BY <1>1, InTheEditor DEF CursorPlaced
  <2> QED
    BY <1>2, <2>1, <2>2 DEF Clamp
<1>6. /\ e.mode = ed.mode /\ e.bar = ed.bar /\ e.slot = ed.slot /\ e.top = ed.top
      /\ e.selected = ed.selected /\ e.length = ed.length /\ e.pending = n /\ e.yes = ed.yes
  BY <1>1, <1>3, InTheEditor
<1>7. EdShape(e) /\ CursorPlaced(e) /\ e.slot < Now
  BY <1>1, <1>3, <1>5, <1>6, InTheEditor DEF EdShape, CursorPlaced
<1> QED
  BY <1>1, <1>4, <1>6, <1>7, SeenKeeps DEF InEditor

LEMMA NextPositionKeeps ==
  ASSUME ScreenInv, NextPosition
  PROVE  ScreenInv'
<1>1. InEditor /\ Input(2) /\ UNCHANGED ledgerVars
  BY DEF NextPosition, Editing, See
<1>2. PICK n : n = (ed.slot + 1) % Now
  OBVIOUS
<1>3. PICK e : e = [ed EXCEPT !.slot = n]
  OBVIOUS
<1>4. Set(e)
  BY <1>2, <1>3 DEF NextPosition, Now
<1>5. n \in Nat /\ n < Now
  BY <1>1, <1>2, InTheEditor
<1>6. /\ e.mode = ed.mode /\ e.bar = ed.bar /\ e.slot = n /\ e.top = ed.top
      /\ e.selected = ed.selected /\ e.length = ed.length /\ e.pending = ed.pending
      /\ e.yes = ed.yes
  BY <1>1, <1>3, InTheEditor
<1>7. EdShape(e) /\ CursorPlaced(e) /\ e.slot < Now
  BY <1>1, <1>3, <1>5, <1>6, InTheEditor DEF EdShape, CursorPlaced
<1> QED
  BY <1>1, <1>4, <1>6, <1>7, SeenKeeps DEF InEditor

LEMMA ShiftOctaveKeeps ==
  ASSUME ScreenInv, NEW way \in {-1, 1}, ShiftOctave(way)
  PROVE  ScreenInv'
<1>1. InEditor /\ Input(1) /\ UNCHANGED ledgerVars /\ ~ed.length
  BY DEF ShiftOctave, Editing, See
<1>2. PICK top : top = ClampTop(ed.top + way * Octave, ViewRows)
  OBVIOUS
<1>3. PICK x : x = InView(ed.selected + way * Octave, top, ViewRows)
  OBVIOUS
<1>4. PICK e : e = [ed EXCEPT !.top = top, !.selected = x]
  OBVIOUS
<1>5. Set(e)
  BY <1>2, <1>3, <1>4 DEF ShiftOctave
<1>6. top \in LowestTop(ViewRows) .. PitchMax /\ x \in PitchMin .. top /\ x > top - ViewRows
  <2>1. PICK k \in Int : k = way * Octave
    BY ScreenAssumption DEF ScreenAssumption
  <2>2. ed.top + k \in Int /\ ed.selected + k \in Int
    BY <1>1, InTheEditor
  <2>3. top \in LowestTop(ViewRows) .. PitchMax
    BY <1>2, <2>1, <2>2, ClampTopPlaces
  <2> QED
    BY <1>3, <2>1, <2>2, <2>3, InViewPlaces
<1>7. /\ e.mode = ed.mode /\ e.bar = ed.bar /\ e.slot = ed.slot /\ e.top = top
      /\ e.selected = x /\ e.length = ed.length /\ e.pending = ed.pending /\ e.yes = ed.yes
  BY <1>1, <1>4, InTheEditor
<1>8. e = [mode |-> e.mode, bar |-> e.bar, slot |-> e.slot, top |-> e.top,
           selected |-> e.selected, length |-> e.length, pending |-> e.pending,
           question |-> e.question, yes |-> e.yes]
  BY <1>1, <1>4, InTheEditor
<1>9. EdShape(e) /\ CursorPlaced(e) /\ e.slot < Now
  BY <1>1, <1>6, <1>7, <1>8, InTheEditor DEF EdShape, CursorPlaced
<1> QED
  BY <1>1, <1>5, <1>7, <1>9, SeenKeeps DEF InEditor

(* An input that edits the bar: it empties every column, or no more than the note at the
   cursor comes or goes. *)
LEMMA EditKeeps ==
  ASSUME ScreenInv, InEditor, NEW b, b = ed.bar, LedgerShape', bar' = bar, division' = division,
         NEW stage \in 1 .. 2, Input(stage),
         NEW e, EdShape(e), CursorPlaced(e), e.mode = "editor", e.bar = ed.bar, e.slot < Now,
         e.top = ed.top, e.selected = ed.selected, stage = 1 \/ e.length = ed.length, Set(e),
         \/ \A p \in Nat : Column(b, p)' = {}
         \/ /\ stage = 1 /\ e.slot = ed.slot
            /\ \A p \in Nat, x \in Int : p # ed.slot \/ x # ed.selected =>
                 (x \in Column(b, p)' <=> x \in Column(b, p))
  PROVE  ScreenInv'
<1>1. LedgerShape /\ pass.stage \in 0 .. 3 /\ CursorPlaced(ed)
  BY InTheEditor DEF ScreenInv, ScreenType
<1>2. /\ pass' = [stage |-> pass'.stage, inputs |-> pass'.inputs] /\ pass'.stage = stage
      /\ pass.stage < stage
  BY DEF Input
<1>3. stage = 1 => pass.stage = 0
  BY <1>1, <1>2
<1>4. ed'.bar = b
  BY <1>1, BarIsSet
<1>5. \A p \in Places :
        /\ Context'.slots[p] = IF p < Now THEN Column(b, p)' ELSE {}
        /\ Context.slots[p] = IF p < Now THEN Column(b, p) ELSE {}
  BY <1>4, NextColumns
<1>6. \A p \in Places : p \in Nat
  BY <1>1, GridOfBar
<1>7. CASE \A p \in Nat : Column(b, p)' = {}
  <2>1. \A p \in Places : Context'.slots[p] = {}
    BY <1>5, <1>6, <1>7
  <2> QED
    BY <1>2, <1>3, <2>1, SetKeeps
<1>8. CASE /\ stage = 1 /\ e.slot = ed.slot
           /\ \A p \in Nat, x \in Int : p # ed.slot \/ x # ed.selected =>
                 (x \in Column(b, p)' <=> x \in Column(b, p))
  <2>1. ASSUME NEW p \in Places, NEW x \in Int,
               x \in Context'.slots[p] \/ x \in Context.slots[p],
               ~ (x \in Context'.slots[p] /\ x \in Context.slots[p])
        PROVE  p = e.slot /\ x = e.selected
    <3>1. ~ (x \in Column(b, p)' <=> x \in Column(b, p))
      BY <1>5, <2>1
    <3> QED
      BY <1>6, <1>8, <3>1
  <2>2. pass.stage = 0
    BY <1>3, <1>8
  <2> QED
    BY <1>2, <2>1, <2>2, SetKeeps
<1> QED
  BY <1>7, <1>8

(* Those that edit the bar. *)
LEMMA ToggleBarSkipKeeps ==
  ASSUME ScreenInv, ToggleBarSkip
  PROVE  ScreenInv'
<1>1. InEditor /\ Input(1) /\ Set(ed)
  BY DEF ToggleBarSkip, Editing, Change
<1>2. PICK b : b = ed.bar
  OBVIOUS
<1>3. PICK e : e = ed
  OBVIOUS
<1>4. PICK skip : skip = ~slot[ed.bar].skip
  OBVIOUS
<1>5. b \in Bars /\ LedgerShape /\ SetStepBarState(b, skip)
  BY <1>1, <1>2, <1>4, InTheEditor DEF ToggleBarSkip
<1>6. LedgerShape' /\ \A p \in Nat : Column(b, p)' = Column(b, p)
  BY <1>5, SkipSet
<1>7. bar' = bar /\ division' = division
  BY <1>5 DEF SetStepBarState
<1>8. /\ EdShape(e) /\ CursorPlaced(e) /\ e.mode = "editor" /\ e.bar = ed.bar /\ e.slot < Now
      /\ e.top = ed.top /\ e.selected = ed.selected /\ e.slot = ed.slot /\ Set(e)
  BY <1>1, <1>3, InTheEditor
<1> QED
  BY <1>1, <1>2, <1>6, <1>7, <1>8, EditKeeps

LEMMA EndLengthKeeps ==
  ASSUME ScreenInv, EndLength
  PROVE  ScreenInv'
<1>1. InEditor /\ Input(1)
  BY DEF EndLength, Change
<1>2. PICK b, i, k : b = ed.bar /\ i = ed.slot /\ k = ed.pending
  OBVIOUS
<1>3. PICK e : e = [ed EXCEPT !.length = FALSE]
  OBVIOUS
<1>4. Set(e)
  BY <1>3 DEF EndLength
<1>5. b \in Bars /\ i \in Nat /\ k \in Int /\ LedgerShape /\ SetStepEventLength(b, i, k)
  BY <1>1, <1>2, InTheEditor DEF EndLength, CursorPlaced
<1>6. LedgerShape' /\ \A p \in Nat : Column(b, p)' = Column(b, p)
  BY <1>5, LengthSet
<1>7. bar' = bar /\ division' = division
  BY <1>5 DEF SetStepEventLength
<1>8. /\ e.mode = ed.mode /\ e.bar = ed.bar /\ e.slot = ed.slot /\ e.top = ed.top
      /\ e.selected = ed.selected /\ e.length = FALSE /\ e.pending = ed.pending
      /\ e.yes = ed.yes
  BY <1>1, <1>3, InTheEditor
<1>9. EdShape(e) /\ CursorPlaced(e) /\ e.slot < Now
  BY <1>1, <1>3, <1>8, InTheEditor DEF EdShape, CursorPlaced
<1> QED
  BY <1>1, <1>2, <1>4, <1>6, <1>7, <1>8, <1>9, EditKeeps DEF InEditor

LEMMA ToggleNoteKeeps ==
  ASSUME ScreenInv, ToggleNote
  PROVE  ScreenInv'
<1>1. InEditor /\ Input(1) /\ Set(ed)
  BY DEF ToggleNote, Editing, Change
<1>2. PICK b, i, x : b = ed.bar /\ i = ed.slot /\ x = ed.selected
  OBVIOUS
<1>3. PICK e : e = ed
  OBVIOUS
<1>4. b \in Bars /\ i \in Nat /\ x \in Nat /\ LedgerShape
  BY <1>1, <1>2, InTheEditor
<1>5. /\ EdShape(e) /\ CursorPlaced(e) /\ e.mode = "editor" /\ e.bar = ed.bar /\ e.slot < Now
      /\ e.top = ed.top /\ e.selected = ed.selected /\ e.slot = ed.slot /\ Set(e)
  BY <1>1, <1>3, InTheEditor
<1>6. /\ LedgerShape' /\ bar' = bar /\ division' = division
      /\ \A p \in Nat, y \in Int : p # i \/ y # x =>
           (y \in Column(b, p)' <=> y \in Column(b, p))
  <2>1. CASE ~(ed.slot < Steps(bar, division))
    <3>1. UNCHANGED ledgerVars
      BY <2>1 DEF ToggleNote
    <3> QED
      BY <1>4, <3>1 DEF LedgerShape, ledgerVars, Column
  <2>2. CASE ed.slot < Steps(bar, division)
    <3>1. PICK given : given = Toggled(Column(b, i), x)
      OBVIOUS
    <3>2. SetStepLedgerSlot(b, i, given)
      BY <1>2, <2>2, <3>1 DEF ToggleNote
    <3>3. Column(b, i) \in SUBSET Nat
      <4>1. i * Stride(division) \in Positions
        BY <1>2, <1>4, <2>2, GridOfBar
      <4> QED
        BY <1>4, <4>1 DEF Column, LedgerShape, BarShape
    <3>4. given \in SUBSET Nat /\ \A y \in Int : y # x => (y \in given <=> y \in Column(b, i))
      BY <1>4, <3>1, <3>3 DEF Toggled
    <3>5. LedgerShape' /\ \A p \in Nat : Column(b, p)' = IF p = i THEN given ELSE Column(b, p)
      BY <1>4, <3>2, <3>4, NotesSet
    <3>6. bar' = bar /\ division' = division
      BY <3>2 DEF SetStepLedgerSlot
    <3> QED
      BY <1>4, <3>4, <3>5, <3>6
  <2> QED
    BY <2>1, <2>2
<1> QED
  BY <1>1, <1>2, <1>5, <1>6, EditKeeps

LEMMA ClearBarKeeps ==
  ASSUME ScreenInv, ClearBar
  PROVE  ScreenInv'
<1>1. InEditor /\ Input(2) /\ UNCHANGED <<division, bar>>
  BY DEF ClearBar, Change
<1>2. PICK b : b = ed.bar
  OBVIOUS
<1>3. PICK e : e = [ed EXCEPT !.question = "none", !.yes = FALSE, !.slot = 0]
  OBVIOUS
<1>4. Set(e)
  BY <1>3 DEF ClearBar
<1>5. b \in Bars /\ LedgerShape /\ slot' = [slot EXCEPT ![b] = Emptied(@)]
  BY <1>1, <1>2, InTheEditor DEF ClearBar
<1>6. LedgerShape' /\ \A p \in Nat : Column(b, p)' = {}
  BY <1>1, <1>5, BarCleared
<1>7. /\ e.mode = ed.mode /\ e.bar = ed.bar /\ e.slot = 0 /\ e.top = ed.top
      /\ e.selected = ed.selected /\ e.length = ed.length /\ e.pending = ed.pending
      /\ e.yes = FALSE
  BY <1>1, <1>3, InTheEditor
<1>8. e = [mode |-> e.mode, bar |-> e.bar, slot |-> e.slot, top |-> e.top,
           selected |-> e.selected, length |-> e.length, pending |-> e.pending,
           question |-> e.question, yes |-> e.yes]
  BY <1>1, <1>3, InTheEditor
<1>9. EdShape(e) /\ CursorPlaced(e) /\ e.slot < Now
  <2>1. e.slot < Now /\ e.slot \in Nat
    BY <1>1, <1>7, InTheEditor
  <2>2. EdShape(e)
    BY <1>1, <1>7, <1>8, InTheEditor DEF EdShape
  <2> QED
    BY <1>1, <1>7, <2>1, <2>2, InTheEditor DEF CursorPlaced
<1> QED
  BY <1>1, <1>2, <1>4, <1>6, <1>7, <1>9, EditKeeps DEF InEditor

(* Lengths and questions. *)
LEMMA BeginLengthKeeps ==
  ASSUME ScreenInv, BeginLength
  PROVE  ScreenInv'
<1>1. InEditor /\ Input(1) /\ UNCHANGED ledgerVars
  BY DEF BeginLength, Editing, See
<1>2. PICK n : n = GridLength(slot[ed.bar], ed.slot)
  OBVIOUS
<1>3. PICK e : e = [ed EXCEPT !.length = TRUE, !.pending = n]
  OBVIOUS
<1>4. Set(e)
  BY <1>2, <1>3 DEF BeginLength
<1>5. n \in Nat
  <2>1. /\ GridMaxLength(slot[ed.bar], ed.slot) \in Nat \ {0}
        /\ GridLength(slot[ed.bar], ed.slot) \in 0 .. GridMaxLength(slot[ed.bar], ed.slot)
    BY <1>1, InTheEditor, GridLengths
  <2> QED
    BY <1>2, <2>1
<1>6. /\ e.mode = ed.mode /\ e.bar = ed.bar /\ e.slot = ed.slot /\ e.top = ed.top
      /\ e.selected = ed.selected /\ e.length = TRUE /\ e.pending = n /\ e.yes = ed.yes
  BY <1>1, <1>3, InTheEditor
<1>7. e = [mode |-> e.mode, bar |-> e.bar, slot |-> e.slot, top |-> e.top,
           selected |-> e.selected, length |-> e.length, pending |-> e.pending,
           question |-> e.question, yes |-> e.yes]
  BY <1>1, <1>3, InTheEditor
<1>8. EdShape(e) /\ CursorPlaced(e) /\ e.slot < Now
  BY <1>1, <1>5, <1>6, <1>7, InTheEditor DEF EdShape, CursorPlaced
<1> QED
  BY <1>1, <1>4, <1>6, <1>8, SeenKeeps DEF InEditor

LEMMA AskKeeps ==
  ASSUME ScreenInv, NEW question, NEW stage \in {1, 2}, Ask(question, stage)
  PROVE  ScreenInv'
<1>1. InEditor /\ Input(stage) /\ UNCHANGED ledgerVars /\ stage \in 1 .. 3
  BY DEF Ask, See
<1>2. PICK e : e = [ed EXCEPT !.question = question, !.yes = FALSE]
  OBVIOUS
<1>3. Set(e)
  BY <1>2 DEF Ask
<1>4. /\ e.mode = ed.mode /\ e.bar = ed.bar /\ e.slot = ed.slot /\ e.top = ed.top
      /\ e.selected = ed.selected /\ e.length = ed.length /\ e.pending = ed.pending
      /\ e.yes = FALSE
  BY <1>1, <1>2, InTheEditor
<1>5. e = [mode |-> e.mode, bar |-> e.bar, slot |-> e.slot, top |-> e.top,
           selected |-> e.selected, length |-> e.length, pending |-> e.pending,
           question |-> e.question, yes |-> e.yes]
  BY <1>1, <1>2, InTheEditor
<1>6. EdShape(e) /\ CursorPlaced(e) /\ e.slot < Now
  BY <1>1, <1>4, <1>5, InTheEditor DEF EdShape, CursorPlaced
<1> QED
  BY <1>1, <1>3, <1>4, <1>6, SeenKeeps DEF InEditor

LEMMA AnswerNoKeeps ==
  ASSUME ScreenInv, AnswerNo
  PROVE  ScreenInv'
<1>1. InEditor /\ Input(2) /\ UNCHANGED ledgerVars
  BY DEF AnswerNo, See
<1>2. PICK e : e = [ed EXCEPT !.question = "none"]
  OBVIOUS
<1>3. Set(e)
  BY <1>2 DEF AnswerNo
<1>4. /\ e.mode = ed.mode /\ e.bar = ed.bar /\ e.slot = ed.slot /\ e.top = ed.top
      /\ e.selected = ed.selected /\ e.length = ed.length /\ e.pending = ed.pending
      /\ e.yes = ed.yes
  BY <1>1, <1>2, InTheEditor
<1>6. EdShape(e) /\ CursorPlaced(e) /\ e.slot < Now
  BY <1>1, <1>2, <1>4, InTheEditor DEF EdShape, CursorPlaced
<1> QED
  BY <1>1, <1>3, <1>4, <1>6, SeenKeeps DEF InEditor

(* The ways to the editor and away from it. *)
LEMMA EnterKeeps ==
  ASSUME ScreenInv, NEW b \in Bars, Enter(b)
  PROVE  ScreenInv'
<1>1. UNCHANGED ledgerVars /\ Input(1)
  BY DEF Enter, See
<1>2. LedgerShape /\ LedgerShape' /\ pass.stage \in 0 .. 3
  BY <1>1 DEF ScreenInv, ScreenType, LedgerShape, ledgerVars
<1>3. pass' = [stage |-> pass'.stage, inputs |-> pass'.inputs] /\ pass'.stage \in 0 .. 3
  BY <1>1 DEF Input
<1>4. PICK first : first = IF Column(b, 0) # {} THEN MinOf(Column(b, 0)) ELSE BaseNote
  OBVIOUS
<1>5. first \in Int
  <2>1. Column(b, 0) \in SUBSET Nat
    <3>1. CASE 0 < Steps(bar, division)
      <4>1. 0 * Stride(division) \in Positions
        BY <1>2, <3>1, GridOfBar
      <4> QED
        BY <1>2, <3>1, <4>1 DEF Column, LedgerShape, BarShape
    <3>2. CASE ~(0 < Steps(bar, division))
      BY <3>2 DEF Column
    <3> QED
      BY <3>1, <3>2
  <2>2. Column(b, 0) # {} => MinOf(Column(b, 0)) \in Nat
    BY <2>1, LeastOf
  <2> QED
    BY <1>4, <2>2 DEF BaseNote
<1>6. PICK top : top = ClampTop(first + Lead, ViewRows)
  OBVIOUS
<1>7. top \in Int
  <2>1. /\ Lead \in Int /\ PitchMin \in Nat /\ PitchMax \in Nat /\ ViewRows \in Nat
    BY ScreenAssumption DEF ScreenAssumption
  <2>2. PICK k \in Int : k = first + Lead
    BY <1>5, <2>1
  <2>3. top \in LowestTop(ViewRows) .. PitchMax
    BY <1>6, <2>2, ClampTopPlaces
  <2> QED
    BY <2>1, <2>3 DEF LowestTop
<1>8. PICK e : e = [Closed EXCEPT !.mode = "editor", !.bar = b, !.selected = first, !.top = top]
  OBVIOUS
<1>9. DrawAnew(e)
  BY <1>4, <1>6, <1>8 DEF Enter
<1>10. /\ e.mode = "editor" /\ e.bar = b /\ e.slot = 0 /\ e.top = top /\ e.selected = first
       /\ e.length = FALSE /\ e.pending = 1 /\ e.yes = FALSE
  BY <1>8 DEF Closed
<1>11. e = [mode |-> e.mode, bar |-> e.bar, slot |-> e.slot, top |-> e.top,
            selected |-> e.selected, length |-> e.length, pending |-> e.pending,
            question |-> e.question, yes |-> e.yes]
  BY <1>8 DEF Closed
<1>12. EdShape(e)
  BY <1>10, <1>11 DEF EdShape
<1>13. e.bar \in Bars /\ e.slot \in Nat /\ e.pending \in Nat /\ e.top \in Int /\ e.selected \in Int
  BY <1>5, <1>7, <1>10
<1> QED
  BY <1>2, <1>3, <1>9, <1>10, <1>12, <1>13, DrawAnewKeeps

LEMMA ReturnKeeps ==
  ASSUME ScreenInv, Return
  PROVE  ScreenInv'
<1>1. /\ LedgerShape /\ pass.stage \in 0 .. 3
      /\ pass = [stage |-> pass.stage, inputs |-> pass.inputs]
      /\ pass' = pass /\ ed.mode = "menu" /\ EdShape(ed) /\ CursorPlaced(ed)
  BY DEF ScreenInv, ScreenType, EdType, Return
<1>2. LedgerShape'
  <2>1. CASE UNCHANGED ledgerVars
    BY <1>1, <2>1 DEF LedgerShape, ledgerVars
  <2>2. CASE \E given \in Inputs : SetStepLedgerSlot(ed.bar, ed.slot, given)
    <3>1. PICK given \in Inputs : SetStepLedgerSlot(ed.bar, ed.slot, given)
      BY <2>2
    <3>2. PICK b, i : b = ed.bar /\ i = ed.slot
      OBVIOUS
    <3>3. b \in Bars /\ i \in Nat /\ SetStepLedgerSlot(b, i, given)
      BY <1>1, <3>1, <3>2 DEF CursorPlaced
    <3>4. given \in SUBSET Nat
      BY LedgerAssumption DEF LedgerAssumption, LedgerSlot
    <3> QED
      BY <1>1, <3>3, <3>4, NotesSet
  <2>3. CASE \E d \in Divisions, n \in BarLengths : SetPatternTiming(d, n)
    BY <1>1, <2>3, TimingSet
  <2> QED
    BY <2>1, <2>2, <2>3 DEF Return
<1>3. PICK e : e = [ed EXCEPT !.mode = "editor"]
  OBVIOUS
<1>4. DrawAnew(e)
  BY <1>3 DEF Return
<1>5. /\ e.mode = "editor" /\ e.bar = ed.bar /\ e.slot = ed.slot /\ e.top = ed.top
      /\ e.selected = ed.selected /\ e.length = ed.length /\ e.pending = ed.pending
      /\ e.yes = ed.yes
  BY <1>1, <1>3 DEF EdShape
<1>6. EdShape(e)
  BY <1>1, <1>3, <1>5 DEF EdShape
<1>7. e.bar \in Bars /\ e.slot \in Nat /\ e.pending \in Nat /\ e.top \in Int /\ e.selected \in Int
  <2>1. PitchMin \in Nat /\ PitchMax \in Nat /\ ViewRows \in Nat
    BY ScreenAssumption DEF ScreenAssumption
  <2> QED
    BY <1>1, <1>5, <2>1 DEF CursorPlaced, LowestTop
<1> QED
  BY <1>1, <1>2, <1>4, <1>5, <1>6, <1>7, DrawAnewKeeps

LEMMA ClosedShape == EdShape(Closed) /\ Closed.mode = "closed"
  BY DEF Closed, EdShape

LEMMA LeaveKeeps ==
  ASSUME ScreenInv, Leave \/ LeaveOnYes
  PROVE  ScreenInv'
<1>1. /\ UNCHANGED ledgerVars /\ Show(Closed) /\ pass'.stage \in 0 .. 3
      /\ pass' = [stage |-> pass'.stage, inputs |-> pass'.inputs]
  BY DEF Leave, LeaveOnYes, See, Input, ScreenInv, ScreenType
<1> QED
  BY <1>1, ClosedShape, ShowKeeps

LEMMA OpenMenuKeeps ==
  ASSUME ScreenInv, OpenMenu
  PROVE  ScreenInv'
<1>1. /\ UNCHANGED ledgerVars /\ InEditor /\ pass'.stage \in 0 .. 3
      /\ pass' = [stage |-> pass'.stage, inputs |-> pass'.inputs]
  BY DEF OpenMenu, Editing, See, Input
<1>2. PICK e : e = [ed EXCEPT !.mode = "menu"]
  OBVIOUS
<1>3. Show(e)
  BY <1>2 DEF OpenMenu
<1>4. /\ e.mode = "menu" /\ e.bar = ed.bar /\ e.slot = ed.slot /\ e.top = ed.top
      /\ e.selected = ed.selected /\ e.length = ed.length /\ e.pending = ed.pending
      /\ e.yes = ed.yes
  BY <1>1, <1>2, InTheEditor
<1>5. EdShape(e) /\ CursorPlaced(e)
  BY <1>1, <1>2, <1>4, InTheEditor DEF EdShape, CursorPlaced
<1> QED
  BY <1>1, <1>3, <1>4, <1>5, ShowKeeps

(* The context does not depend on the mode. *)
LEMMA SameContext ==
  ASSUME UNCHANGED <<slot, division, bar, arp>>, ed'.bar = ed.bar, ed'.slot = ed.slot,
         ed'.top = ed.top, ed'.selected = ed.selected, ed'.length = ed.length,
         ed'.pending = ed.pending, ed'.question = ed.question, ed'.yes = ed.yes
  PROVE  Context' = Context
<1>1. \A b, i : Column(b, i)' = Column(b, i)
  BY DEF Column
<1>2. \A i : SpanOf(ed, i)' = SpanOf(ed, i)
  BY DEF SpanOf, GridLength, GridMaxLength
<1>3. /\ Column(ed.bar, ed.slot)' = Column(ed.bar, ed.slot)
      /\ \A p : Column(ed.bar, p)' = Column(ed.bar, p)
  BY DEF Column
<1> QED
  BY <1>2, <1>3 DEF Context

LEMMA SleepKeeps ==
  ASSUME ScreenInv, Sleep
  PROVE  ScreenInv'
<1>1. LedgerShape' /\ Now' = Now
  BY DEF ScreenInv, LedgerShape, Sleep, ledgerVars, Now
<1>2. EdShape(ed) /\ CursorPlaced(ed) /\ InEditor /\ ed.slot < Now
  BY InTheEditor DEF Sleep
<1>3. /\ ed'.mode = "asleep" /\ ed'.bar = ed.bar /\ ed'.slot = ed.slot /\ ed'.top = ed.top
      /\ ed'.selected = ed.selected /\ ed'.length = ed.length /\ ed'.pending = ed.pending
      /\ ed'.question = ed.question /\ ed'.yes = ed.yes
  BY <1>2 DEF Sleep, EdShape
<1>4. EdType'
  <2>1. PICK e : e = [ed EXCEPT !.mode = "asleep"] /\ ed' = e
    BY DEF Sleep
  <2>2. EdShape(e) /\ CursorPlaced(e)
    BY <1>2, <1>3, <2>1 DEF EdShape, CursorPlaced
  <2> QED
    BY <1>1, <1>2, <1>3, <2>1, <2>2 DEF EdType
<1>5. ScreenType' /\ EditorInv'
  BY <1>3 DEF ScreenInv, ScreenType, EditorInv, InEditor, Sleep, Painted
<1>6. Context' = Context
  BY <1>3, SameContext DEF Sleep, ledgerVars
<1>7. GivenInv'
  BY <1>2, <1>6 DEF ScreenInv, GivenInv, InEditor, Sleep
<1> QED
  BY <1>1, <1>4, <1>5, <1>7 DEF ScreenInv

LEMMA WakeKeeps ==
  ASSUME ScreenInv, Wake
  PROVE  ScreenInv'
<1>1. /\ LedgerShape /\ LedgerShape' /\ Now' = Now /\ ed.mode = "asleep" /\ EdShape(ed)
      /\ CursorPlaced(ed) /\ ed.slot < Now /\ ScreenType /\ GivenInv
  BY DEF ScreenInv, EdType, LedgerShape, Wake, ledgerVars, Now
<1>2. /\ ed'.mode = "editor" /\ ed'.bar = ed.bar /\ ed'.slot = ed.slot /\ ed'.top = ed.top
      /\ ed'.selected = ed.selected /\ ed'.length = ed.length /\ ed'.pending = ed.pending
      /\ ed'.question = ed.question /\ ed'.yes = ed.yes
  BY <1>1 DEF Wake, EdShape
<1>3. EdType'
  <2>1. PICK e : e = [ed EXCEPT !.mode = "editor"] /\ ed' = e
    BY DEF Wake
  <2>2. EdShape(e) /\ CursorPlaced(e)
    BY <1>1, <1>2, <2>1 DEF EdShape, CursorPlaced
  <2> QED
    BY <1>1, <1>2, <2>1, <2>2 DEF EdType
<1>4. Context' = Context
  BY <1>2, SameContext DEF Wake, ledgerVars
<1>5. PICK r : r = ResetCache(scr)
  OBVIOUS
<1>6. PICK n, c : n = scr.now /\ c = Context
  OBVIOUS
<1>7. /\ r.now = [n EXCEPT !.slots = NoNotes, !.spans = NoSpans]
      /\ r.layout = FALSE /\ r.redraw = TRUE /\ ContextShape(r.now)
      /\ r = [now |-> r.now, last |-> r.last, dirty |-> r.dirty, before |-> r.before,
              layout |-> r.layout, redraw |-> r.redraw]
  BY <1>1, <1>5, <1>6, CacheReset DEF ScreenType
<1>8. ContextOK(n)
  BY <1>1, <1>6, GivenFields
<1>9. PICK m : m = r.now
  OBVIOUS
<1>10. ContextShape(m) /\ m = [n EXCEPT !.slots = NoNotes, !.spans = NoSpans]
  BY <1>7, <1>9
<1>11. ContextOK(m)
  <2>1. /\ m.count = n.count /\ m.slot = n.slot /\ m.top = n.top /\ m.length = n.length
        /\ m.slots = NoNotes /\ m.spans = NoSpans
    BY <1>8, <1>10 DEF ContextOK, ContextShape
  <2>2. \A p \in Places : NoNotes[p] = {} /\ NoSpans[p] = 0
    BY DEF NoNotes, NoSpans
  <2> QED
    BY <1>8, <1>10, <2>1, <2>2 DEF ContextOK
<1>12. PICK t : t = AfterDraw(r)
  OBVIOUS
<1>13. /\ t.now = m /\ t.last = m /\ t.dirty = {} /\ t.layout = TRUE /\ t.redraw = FALSE
       /\ t = [now |-> t.now, last |-> t.last, dirty |-> t.dirty, before |-> t.before,
               layout |-> t.layout, redraw |-> t.redraw]
  BY <1>7, <1>9, <1>12, DrawnOnce
<1>14. scr' = t
  BY <1>5, <1>12 DEF Wake
<1>15. PICK d : d = disp' /\ d = Drawn(disp, r)
  BY <1>5 DEF Wake
<1>16. /\ disp = [rows |-> disp.rows, header |-> disp.header, covered |-> disp.covered,
                  box |-> disp.box]
       /\ disp.covered \subseteq UnderDialog
  BY <1>1 DEF ScreenType
<1>17. /\ Shows(d, m) /\ d.covered \subseteq UnderDialog
       /\ d = [rows |-> d.rows, header |-> d.header, covered |-> d.covered, box |-> d.box]
  BY <1>7, <1>9, <1>15, <1>16, DrawsAnew
<1>18. ScreenType'
  <2>1. pass' = pass
    BY DEF Wake
  <2> QED
    BY <1>1, <1>10, <1>13, <1>14, <1>15, <1>17, <2>1 DEF ScreenType
<1>19. GivenInv'
  <2>1. ContextShape(c)
    BY <1>6, ContextFields
  <2>2. PICK a, b : n = [c EXCEPT !.slots = a, !.spans = b]
    BY <1>1, <1>6 DEF GivenInv
  <2>3. m = [c EXCEPT !.slots = NoNotes, !.spans = NoSpans]
    <3>1. PICK x, y : x = NoNotes /\ y = NoSpans
      OBVIOUS
    <3>2. n.slots = a /\ n.spans = b
      BY <2>1, <2>2 DEF ContextShape
    <3>3. PICK k : k = [c EXCEPT !.slots = x, !.spans = y]
      OBVIOUS
    <3>4. ContextShape(k) /\ k.slots = x /\ k.spans = y
      BY <2>1, <3>3 DEF ContextShape
    <3>5. m.slots = x /\ m.spans = y
      BY <1>8, <1>10, <3>1 DEF ContextOK, ContextShape
    <3>6. /\ n.step = c.step /\ n.top = c.top /\ n.selected = c.selected /\ n.slot = c.slot
          /\ n.count = c.count /\ n.division = c.division /\ n.cv = c.cv /\ n.length = c.length
          /\ n.pending = c.pending /\ n.question = c.question /\ n.yes = c.yes /\ n.skip = c.skip
      BY <2>1, <2>2 DEF ContextShape
    <3>7. /\ k.step = c.step /\ k.top = c.top /\ k.selected = c.selected /\ k.slot = c.slot
          /\ k.count = c.count /\ k.division = c.division /\ k.cv = c.cv /\ k.length = c.length
          /\ k.pending = c.pending /\ k.question = c.question /\ k.yes = c.yes /\ k.skip = c.skip
      BY <2>1, <3>3 DEF ContextShape
    <3>8. /\ m.step = n.step /\ m.top = n.top /\ m.selected = n.selected /\ m.slot = n.slot
          /\ m.count = n.count /\ m.division = n.division /\ m.cv = n.cv /\ m.length = n.length
          /\ m.pending = n.pending /\ m.question = n.question /\ m.yes = n.yes /\ m.skip = n.skip
      BY <1>8, <1>10 DEF ContextOK, ContextShape
    <3>9. m = k
      BY <1>10, <3>4, <3>5, <3>6, <3>7, <3>8, Zenon DEF ContextShape
    <3> QED
      BY <3>1, <3>3, <3>9
  <2>4. m.slots = NoNotes /\ m.spans = NoSpans
    BY <1>8, <1>10 DEF ContextOK, ContextShape
  <2> QED
    BY <1>4, <1>6, <1>13, <1>14, <2>3, <2>4 DEF GivenInv
<1> QED
  BY <1>1, <1>3, <1>11, <1>13, <1>14, <1>15, <1>17, <1>18, <1>19, AtOnceKeeps

(* The end of a pass draws what the inputs of the pass flagged. *)
LEMMA EndOfPassKeeps ==
  ASSUME ScreenInv, EndOfPass
  PROVE  ScreenInv'
<1>1. /\ LedgerShape /\ EdType /\ ScreenType /\ GivenInv /\ EditorInv
      /\ UNCHANGED ledgerVars /\ ed' = ed /\ arp' = arp
      /\ pass' = [stage |-> 0, inputs |-> 0]
  BY DEF ScreenInv, EndOfPass
<1>2. LedgerShape' /\ Now' = Now /\ EdType'
  BY <1>1 DEF LedgerShape, ledgerVars, EdType, Now
<1>3. Context' = Context
  BY <1>1, SameContext DEF ledgerVars
<1>4. pass' = [stage |-> pass'.stage, inputs |-> pass'.inputs] /\ pass'.stage = 0
  BY <1>1
<1>5. CASE ~InEditor
  <2>1. UNCHANGED <<scr, disp>>
    BY <1>5 DEF EndOfPass
  <2>2. ScreenType' /\ EditorInv'
    BY <1>1, <1>4, <1>5, <2>1 DEF ScreenType, EditorInv, InEditor
  <2>3. GivenInv'
    BY <1>1, <1>3, <2>1 DEF GivenInv
  <2> QED
    BY <1>2, <2>2, <2>3 DEF ScreenInv
<1>6. CASE InEditor /\ ~scr.redraw
  <2>1. UNCHANGED <<scr, disp>>
    BY <1>6 DEF EndOfPass, AfterDraw, Drawn
  <2>2. /\ scr.now = scr.last /\ scr.dirty = {} /\ scr.layout /\ Shows(disp, scr.last)
        /\ ContextOK(scr.now)
    BY <1>1, <1>6 DEF EditorInv
  <2>3. ScreenType'
    BY <1>1, <1>4, <2>1 DEF ScreenType
  <2>4. GivenInv'
    BY <1>1, <1>3, <2>1 DEF GivenInv
  <2> QED
    BY <1>2, <1>6, <2>1, <2>2, <2>3, <2>4, AtOnceKeeps
<1>7. CASE InEditor /\ scr.redraw
  <2>1. PICK s : s = scr
    OBVIOUS
  <2>2. /\ s = [now |-> s.now, last |-> s.last, dirty |-> s.dirty, before |-> s.before,
                layout |-> s.layout, redraw |-> s.redraw]
        /\ ContextShape(s.now) /\ s.redraw /\ s.layout /\ ContextOK(s.last)
        /\ Shows(disp, s.last) /\ s.now.step = s.last.step /\ s.now.count = s.last.count
        /\ HeaderFlagged(s) /\ RowsFlagged(s, pass.stage)
    BY <1>1, <1>7, <2>1 DEF EditorInv, ScreenType
  <2>3. ContextOK(s.now)
    BY <1>7, <2>1, GivenFields DEF InEditor
  <2>4. PICK t : t = AfterDraw(s)
    OBVIOUS
  <2>5. /\ t.now = s.now /\ t.last = s.now /\ t.dirty = {} /\ t.layout = TRUE /\ t.redraw = FALSE
        /\ t = [now |-> t.now, last |-> t.last, dirty |-> t.dirty, before |-> t.before,
                layout |-> t.layout, redraw |-> t.redraw]
    BY <2>2, <2>4, DrawnOnce
  <2>6. PICK d, e, stage : d = disp /\ e = Drawn(d, s) /\ stage = pass.stage
    OBVIOUS
  <2>7. scr' = t /\ disp' = e
    BY <1>7, <2>1, <2>4, <2>6 DEF EndOfPass
  <2>8. /\ d = [rows |-> d.rows, header |-> d.header, covered |-> d.covered, box |-> d.box]
        /\ d.covered \subseteq UnderDialog
    BY <1>1, <2>6 DEF ScreenType
  <2>9. /\ Shows(d, s.last) /\ RowsFlagged(s, stage)
    BY <2>2, <2>6
  <2>10. /\ Shows(Drawn(d, s), s.now)
         /\ Drawn(d, s).covered \subseteq UnderDialog
         /\ Drawn(d, s) = [rows |-> Drawn(d, s).rows, header |-> Drawn(d, s).header,
                           covered |-> Drawn(d, s).covered, box |-> Drawn(d, s).box]
    BY <2>2, <2>3, <2>8, <2>9, DrawsChanges
  <2>11. /\ Shows(e, s.now) /\ e.covered \subseteq UnderDialog
         /\ e = [rows |-> e.rows, header |-> e.header, covered |-> e.covered, box |-> e.box]
    BY <2>6, <2>10
  <2>12. ScreenType'
    <3>1. /\ scr'.redraw = FALSE /\ ContextShape(scr'.now)
          /\ scr' = [now |-> scr'.now, last |-> scr'.last, dirty |-> scr'.dirty,
                     before |-> scr'.before, layout |-> scr'.layout, redraw |-> scr'.redraw]
      BY <2>2, <2>5, <2>7, Zenon
    <3>2. /\ disp' = [rows |-> disp'.rows, header |-> disp'.header,
                      covered |-> disp'.covered, box |-> disp'.box]
          /\ disp'.covered \subseteq UnderDialog
      BY <2>7, <2>11, Zenon
    <3>3. scr'.redraw \in BOOLEAN
      BY <3>1, Zenon
    <3>4. pass'.stage \in 0 .. 3
      BY <1>4
    <3> QED
      BY <1>4, <3>1, <3>2, <3>3, <3>4, Zenon DEF ScreenType
  <2>13. GivenInv'
    BY <1>1, <1>3, <2>1, <2>5, <2>7 DEF GivenInv
  <2> QED
    BY <1>2, <2>3, <2>5, <2>7, <2>11, <2>12, <2>13, AtOnceKeeps
<1> QED
  BY <1>5, <1>6, <1>7

(* The three facts of an inductive invariant. *)
LEMMA FirstScreen ==
  ASSUME Init
  PROVE  ScreenInv
<1>1. LedgerShape
  <2>1. slot \in [Bars -> Slot] /\ division \in Divisions /\ bar \in BarLengths
        /\ Steps(bar, division) # 0
    BY LedgerAssumption DEF Init, LedgerInit, LedgerAssumption
  <2>2. ASSUME NEW b \in Bars PROVE BarShape(slot[b])
    <3>1. slot[b] \in Slot
      BY <2>1
    <3>2. /\ slot[b].ledger \in [Positions -> LedgerSlot]
          /\ slot[b].length \in [Positions -> 1 .. LedgerMax]
          /\ slot[b] = [ledger |-> slot[b].ledger, length |-> slot[b].length,
                        lane |-> slot[b].lane, explicit |-> slot[b].explicit,
                        skip |-> slot[b].skip, mask |-> slot[b].mask, type |-> slot[b].type]
      BY <3>1 DEF Slot
    <3>3. LedgerSlot \subseteq SUBSET Nat /\ 1 .. LedgerMax \subseteq Nat
      BY LedgerAssumption DEF LedgerSlot, LedgerAssumption
    <3>4. slot[b].ledger \in [Positions -> SUBSET Nat] /\ slot[b].length \in [Positions -> Nat]
      BY <3>2, <3>3
    <3> QED
      BY <3>2, <3>4 DEF BarShape
  <2> QED
    BY <2>1, <2>2 DEF LedgerShape
<1>2. EdType /\ GivenInv /\ EditorInv
  BY ClosedShape DEF Init, EdType, GivenInv, EditorInv, InEditor
<1>3. ContextShape(Never)
  BY DEF Never, ContextShape
<1>4. ScreenType
  BY <1>3 DEF Init, ScreenType, Painted
<1> QED
  BY <1>1, <1>2, <1>4 DEF ScreenInv

LEMMA ScreenKeeps ==
  ScreenInv /\ [Next]_vars => ScreenInv'
<1> SUFFICES ASSUME ScreenInv, [Next]_vars PROVE ScreenInv'
  OBVIOUS
<1>1. ASSUME UNCHANGED vars PROVE ScreenInv'
  <2>1. UNCHANGED <<slot, division, bar, arp, ed, scr, disp, pass>>
    BY <1>1 DEF vars, ledgerVars
  <2>2. Context' = Context
    BY <2>1, SameContext
  <2>3. LedgerShape' /\ EdType' /\ ScreenType' /\ EditorInv'
    BY <2>1 DEF ScreenInv, LedgerShape, EdType, ScreenType, EditorInv, InEditor, Now
  <2>4. GivenInv'
    BY <2>1, <2>2 DEF ScreenInv, GivenInv
  <2> QED
    BY <2>3, <2>4 DEF ScreenInv
<1>2. ASSUME NEW b \in Bars, Enter(b) PROVE ScreenInv'
  BY <1>2, EnterKeeps
<1>3. ASSUME NEW turn \in {-1, 1}, MovePitch(turn) \/ ChangeLength(turn) \/ ShiftOctave(turn)
      PROVE  ScreenInv'
  BY <1>3, MovePitchKeeps, ChangeLengthKeeps, ShiftOctaveKeeps
<1>4. ASSUME NEW question \in {"CLEAR", "LEAVE"}, NEW stage \in {1, 2}, Ask(question, stage)
      PROVE  ScreenInv'
  BY <1>4, AskKeeps
<1>5. ASSUME \/ Leave \/ ChooseAnswer \/ NextPosition \/ ToggleBarSkip \/ ToggleNote
             \/ BeginLength \/ EndLength
      PROVE  ScreenInv'
  BY <1>5, LeaveKeeps, ChooseAnswerKeeps, NextPositionKeeps, ToggleBarSkipKeeps,
     ToggleNoteKeeps, BeginLengthKeeps, EndLengthKeeps
<1>6. ASSUME \/ AnswerNo \/ ClearBar \/ LeaveOnYes \/ OpenMenu \/ Return \/ Sleep \/ Wake
             \/ EndOfPass
      PROVE  ScreenInv'
  BY <1>6, AnswerNoKeeps, ClearBarKeeps, LeaveKeeps, OpenMenuKeeps, ReturnKeeps, SleepKeeps,
     WakeKeeps, EndOfPassKeeps
<1> QED
  BY <1>1, <1>2, <1>3, <1>4, <1>5, <1>6 DEF Next

LEMMA ScreenIsShown ==
  ScreenInv => EditorScreenIsTrue
<1> SUFFICES ASSUME ScreenInv, AtRest PROVE EditorScreenIsTrue
  BY DEF EditorScreenIsTrue, RowsShowNotes, HeaderShowsEditor
<1>1. /\ scr.now = scr.last /\ Shows(disp, scr.now)
  BY DEF AtRest, ScreenInv, EditorInv
<1>2. RowsShowNotes
  <2>1. ASSUME NEW r \in Rows \ disp.covered
        PROVE  [disp.rows[r] EXCEPT !.lit = FALSE] = [Row(scr.now, r) EXCEPT !.lit = FALSE]
    <3>1. PICK c : c = scr.now
      OBVIOUS
    <3>2. PICK lit \in BOOLEAN : disp.rows[r] = RowLit(c, r, lit)
      BY <1>1, <3>1 DEF Shows
    <3>3. PICK other \in BOOLEAN : Row(c, r) = RowLit(c, r, other)
      BY RowIsLit
    <3>4. PICK row : row = RowLit(c, r, FALSE)
      OBVIOUS
    <3>5. \A z : [RowLit(c, r, z) EXCEPT !.lit = FALSE] = row
      <4>1. PICK a, b, x, y : /\ a = c.top - r /\ b = (c.top - r) % Octave /\ x = c.slot
                              /\ y = [i \in 0 .. c.count - 1 |-> Cell(c, i, c.top - r)]
        OBVIOUS
      <4>2. \A z : RowLit(c, r, z) = [label |-> a, lane |-> b, cursor |-> x, lit |-> z, cells |-> y]
        BY <4>1, Zenon DEF RowLit
      <4>3. PICK dark : dark = FALSE
        OBVIOUS
      <4>4. row = [label |-> a, lane |-> b, cursor |-> x, lit |-> dark, cells |-> y]
        BY <3>4, <4>2, <4>3, Zenon
      <4>5. ASSUME NEW z PROVE [RowLit(c, r, z) EXCEPT !.lit = FALSE] = row
        <5>1. PICK u : u = RowLit(c, r, z)
          OBVIOUS
        <5>2. u = [label |-> a, lane |-> b, cursor |-> x, lit |-> z, cells |-> y]
          BY <4>2, <5>1, Zenon
        <5>3. [u EXCEPT !.lit = dark]
              = [label |-> a, lane |-> b, cursor |-> x, lit |-> dark, cells |-> y]
          BY <5>2
        <5> QED
          BY <4>3, <4>4, <5>1, <5>3, Zenon
      <4> QED
        BY <4>5
    <3> QED
      BY <3>1, <3>2, <3>3, <3>5, Zenon
  <2> QED
    BY <2>1 DEF RowsShowNotes
<1>3. HeaderShowsEditor
  <2>1. /\ scr.now.selected = ed.selected /\ scr.now.top = ClampTop(ed.top, BodyRows)
        /\ scr.now.question = ed.question /\ scr.now.yes = ed.yes
    BY GivenFields DEF AtRest, InEditor
  <2>2. CursorPlaced(ed)
    BY InTheEditor DEF AtRest
  <2>3. RowOf(scr.now, ed.selected) # {}
    BY <2>1, <2>2, Views DEF RowOf, If, CursorPlaced
  <2> QED
    BY <1>1, <2>1, <2>3 DEF HeaderShowsEditor, Shows
<1> QED
  BY <1>2, <1>3 DEF EditorScreenIsTrue

(* What the bar editor shows after a pass is what a drawing from nothing would show
   (DrawStepPianoRollScreen with the flags of SetContext), for any bar, any number of
   inputs and every place of the view. *)
THEOREM EditorStaysTrue == Spec => []EditorScreenIsTrue
<1>1. Init => ScreenInv
  BY FirstScreen
<1>2. ScreenInv /\ [Next]_vars => ScreenInv'
  BY ScreenKeeps
<1>3. ScreenInv => EditorScreenIsTrue
  BY ScreenIsShown
<1> QED
  BY <1>1, <1>2, <1>3, PTL DEF Spec

-----------------------------------------------------------------------------
(* Edits and their screen *)

(* The drawing of every edit is due when its handler ends, or done. *)
EditReached ==
  /\ scr'.now.slots = Context'.slots /\ scr'.now.spans = Context'.spans
  /\ scr'.redraw \/ scr'.last = scr'.now

(* A handler that sets the context, and one that draws at once. *)
LEMMA SetReaches ==
  ASSUME ScreenInv, NEW e, Set(e)
  PROVE  EditReached
<1>1. PICK c : c = Context' /\ scr' = SetContext(scr, c)
  BY DEF Set
<1>2. PICK s : s = scr
  OBVIOUS
<1>3. s = [now |-> s.now, last |-> s.last, dirty |-> s.dirty, before |-> s.before,
           layout |-> s.layout, redraw |-> s.redraw]
  BY <1>2 DEF ScreenInv, ScreenType
<1>4. PICK t : t = SetContext(s, c)
  OBVIOUS
<1>5. t.now = c /\ t.redraw = TRUE
  BY <1>3, <1>4, ContextSet
<1>6. scr' = t
  BY <1>1, <1>2, <1>4
<1> QED
  BY <1>1, <1>5, <1>6 DEF EditReached

LEMMA DrawAnewReaches ==
  ASSUME ScreenInv, NEW e, DrawAnew(e)
  PROVE  EditReached
<1>1. PICK c : c = Context' /\ scr' = AfterDraw(SetContext(ResetCache(scr), c))
  BY DEF DrawAnew
<1>2. PICK s : s = scr
  OBVIOUS
<1>3. /\ s = [now |-> s.now, last |-> s.last, dirty |-> s.dirty, before |-> s.before,
              layout |-> s.layout, redraw |-> s.redraw]
      /\ ContextShape(s.now)
  BY <1>2 DEF ScreenInv, ScreenType
<1>4. PICK r : r = ResetCache(s)
  OBVIOUS
<1>5. r = [now |-> r.now, last |-> r.last, dirty |-> r.dirty, before |-> r.before,
           layout |-> r.layout, redraw |-> r.redraw]
  BY <1>3, <1>4, CacheReset
<1>6. PICK t : t = SetContext(r, c)
  OBVIOUS
<1>7. /\ t.now = c /\ t.redraw
      /\ t = [now |-> t.now, last |-> t.last, dirty |-> t.dirty, before |-> t.before,
              layout |-> t.layout, redraw |-> t.redraw]
  BY <1>5, <1>6, ContextSet
<1>8. PICK u : u = AfterDraw(t)
  OBVIOUS
<1>9. u.now = c /\ u.last = c
  BY <1>7, <1>8, DrawnOnce
<1>10. scr' = u
  BY <1>1, <1>2, <1>4, <1>6, <1>8
<1> QED
  BY <1>1, <1>9, <1>10 DEF EditReached

LEMMA EditReaches ==
  ASSUME ScreenInv, Next, slot' # slot
  PROVE  EditReached
<1>1. ASSUME NEW b \in Bars, Enter(b) PROVE FALSE
  BY <1>1 DEF Enter, See, ledgerVars
<1>2. ASSUME NEW turn, MovePitch(turn) \/ ChangeLength(turn) \/ ShiftOctave(turn) PROVE FALSE
  BY <1>2 DEF MovePitch, ChangeLength, ShiftOctave, See, ledgerVars
<1>3. ASSUME NEW question, NEW stage, Ask(question, stage) PROVE FALSE
  BY <1>3 DEF Ask, See, ledgerVars
<1>4. ASSUME \/ Leave \/ ChooseAnswer \/ NextPosition \/ BeginLength \/ AnswerNo
             \/ LeaveOnYes \/ OpenMenu
      PROVE  FALSE
  BY <1>4 DEF Leave, ChooseAnswer, NextPosition, BeginLength, AnswerNo, LeaveOnYes, OpenMenu,
     See, ledgerVars
<1>5. ASSUME Sleep \/ Wake \/ EndOfPass PROVE FALSE
  BY <1>5 DEF Sleep, Wake, EndOfPass, ledgerVars
<1>6. ASSUME ToggleBarSkip \/ ToggleNote PROVE EditReached
  <2>1. Set(ed)
    BY <1>6 DEF ToggleBarSkip, ToggleNote
  <2>2. PICK e : e = ed
    OBVIOUS
  <2>3. Set(e)
    BY <2>1, <2>2
  <2> QED
    BY <2>3, SetReaches
<1>7. ASSUME EndLength PROVE EditReached
  <2>1. PICK e : e = [ed EXCEPT !.length = FALSE]
    OBVIOUS
  <2>2. Set(e)
    BY <1>7, <2>1 DEF EndLength
  <2> QED
    BY <2>2, SetReaches
<1>8. ASSUME ClearBar PROVE EditReached
  <2>1. PICK e : e = [ed EXCEPT !.question = "none", !.yes = FALSE, !.slot = 0]
    OBVIOUS
  <2>2. Set(e)
    BY <1>8, <2>1 DEF ClearBar
  <2> QED
    BY <2>2, SetReaches
<1>9. ASSUME Return PROVE EditReached
  <2>1. PICK e : e = [ed EXCEPT !.mode = "editor"]
    OBVIOUS
  <2>2. DrawAnew(e)
    BY <1>9, <2>1 DEF Return
  <2> QED
    BY <2>2, DrawAnewReaches
<1> QED
  BY <1>1, <1>2, <1>3, <1>4, <1>5, <1>6, <1>7, <1>8, <1>9 DEF Next

(* Every edit of the bar, from the editor or from a menu over it, is in the copies that
   the editor's screen draws from when its handler ends, and their drawing is done or
   still to come in the same pass: SetContext, whatever flags it sets. *)
THEOREM EditsReachScreen == Spec => EditReachesScreen
<1>1. Init => ScreenInv
  BY FirstScreen
<1>2. ScreenInv /\ [Next]_vars => ScreenInv'
  BY ScreenKeeps
<1>3. ScreenInv /\ [Next]_vars =>
        [slot' # slot => /\ scr'.now.slots = Context'.slots /\ scr'.now.spans = Context'.spans
                         /\ scr'.redraw \/ scr'.last = scr'.now]_vars
  <2>1. SUFFICES ASSUME ScreenInv, Next, slot' # slot PROVE EditReached
    BY DEF EditReached, vars, ledgerVars
  <2> QED
    BY <2>1, EditReaches
<1> QED
  BY <1>1, <1>2, <1>3, PTL DEF Spec, EditReachesScreen

-----------------------------------------------------------------------------
(* The main grid *)

EngineType ==
  eng \in [playing : BOOLEAN, bar : SongBars, step : 1 .. LastStep, ms : Nat, pattern : Patterns]

GridHeaders == [state : {"stop", "play", "record"}, rec : BOOLEAN]

GridUiType ==
  /\ gridUi = [mode |-> gridUi.mode, asleep |-> gridUi.asleep, selected |-> gridUi.selected,
               active |-> gridUi.active, last |-> gridUi.last, cached |-> gridUi.cached,
               main |-> gridUi.main, state |-> gridUi.state, rec |-> gridUi.rec,
               flash |-> gridUi.flash, seen |-> gridUi.seen]
  /\ gridUi.mode \in {"grid", "away"} /\ gridUi.asleep \in BOOLEAN
  /\ GridHeader(gridUi) \in GridHeaders

GridDispType ==
  /\ gridDisp = [boxes |-> gridDisp.boxes, from |-> gridDisp.from, of |-> gridDisp.of,
                 header |-> gridDisp.header, mode |-> gridDisp.mode, text |-> gridDisp.text,
                 side |-> gridDisp.side]
  /\ gridDisp.from \in {"context", "variables"}
  /\ gridDisp.text \in [bar : Nat, step : Nat, total : Nat, ms : Nat]

GridCacheType ==
  /\ gridCache = [header |-> gridCache.header, pattern |-> gridCache.pattern,
                  position |-> gridCache.position, bar |-> gridCache.bar,
                  step |-> gridCache.step, mode |-> gridCache.mode, force |-> gridCache.force,
                  side |-> gridCache.side, digits |-> gridCache.digits]
  /\ gridCache.digits \in [bar : Nat, step : Nat, ms : Nat]

PassType ==
  /\ gridPass \in [stage : {"rest", "tap", "transport", "matrix", "encoder", "boxes", "row"},
                   drawn : BOOLEAN, done : {"nothing", "boxes", "row"}]
  /\ used \in [inputs : Nat, away : Nat, sleeps : Nat, late : BOOLEAN]
  /\ gridPass.stage = "rest" => ~gridPass.drawn
  /\ gridUi.asleep => gridPass.stage = "rest" /\ used.sleeps > 0

GridType == EngineType /\ GridUiType /\ GridDispType /\ GridCacheType /\ PassType

(* What every drawing keeps up to date, on the grid and off it. *)
HeaderInv ==
  /\ gridDisp.header = GridHeader(gridUi) /\ gridCache.header = GridHeader(gridUi)
  /\ gridDisp.mode = gridUi.main /\ gridDisp.text.total = gridCache.pattern

(* Only one pattern is chosen in a pass, and the next pass takes it up. *)
Early == {"tap", "transport", "matrix"}
TakenUp == gridUi.cached = eng.pattern

PatternInv ==
  /\ gridPass.stage \in Early => TakenUp
  /\ OnMainGrid /\ TakenUp =>
       ctx.of = eng.pattern /\ gridDisp.of = eng.pattern /\ gridDisp.side = eng.pattern

(* What the boxes were drawn from has not changed since, but for the flashing. *)
BoxesInv ==
  OnMainGrid /\ gridDisp.from = "variables" =>
    /\ gridUi.active = gridUi.last
    /\ TakenUp => gridDisp.boxes = Boxes(Live(gridUi), gridUi.flash)

(* The caches of the status row say what digits it wrote last. *)
DigitsInv ==
  /\ gridCache.digits.bar = gridCache.position
  /\ gridCache.step # NoBar => gridCache.digits.step = gridCache.step
  /\ gridUi.seen # <<>> =>
       /\ gridCache.pattern = eng.pattern /\ gridCache.digits.ms = eng.ms
       /\ \/ gridUi.seen = Position
          \/ eng.bar = 1 /\ eng.step = 1
  /\ gridUi.seen = Position =>
       gridCache.digits.bar = eng.bar /\ gridCache.digits.step = eng.step

(* The bar that was drawn last is the one that plays, after the boxes and until a key
   starts or stops the transport. *)
LastInv ==
  /\ gridPass.stage \in {"rest", "tap", "transport", "row"} /\ OnMainGrid /\ eng.playing
       => gridUi.last # NoBar
  /\ gridPass.stage = "row" /\ OnMainGrid /\ ~eng.playing => gridUi.last = NoBar

(* The numbers on the display: those of the engine after a drawing of everything in this
   pass, and otherwise the digits that were written last. *)
TextInv ==
  OnMainGrid /\ used.sleeps = 0 /\ ~used.late =>
    /\ \A f \in {"bar", "step"} :
         IF gridPass.drawn THEN gridDisp.text[f] = Text[f]
         ELSE gridCache.digits[f] \in {gridDisp.text[f], NoBar}
    /\ ~eng.playing /\ gridUi.last = NoBar =>
         gridDisp.text.ms = IF gridPass.drawn THEN eng.ms ELSE gridCache.digits.ms

GridInv ==
  /\ GridType /\ HeaderInv /\ PatternInv /\ BoxesInv /\ DigitsInv /\ LastInv /\ TextInv
  /\ GridAtRest => StatusShowsPosition

(* The stages of a pass come in the order of the keys. *)
LEMMA StageOrder ==
  /\ Reached("tap") => gridPass.stage = "tap"
  /\ Reached("transport") => gridPass.stage \in {"tap", "transport"}
  /\ Reached("matrix") => gridPass.stage \in Early
  /\ Reached("encoder") => gridPass.stage \in Early \cup {"encoder"}
  /\ After("tap") = "transport" /\ After("transport") = "matrix"
  /\ After("matrix") = "encoder" /\ After("encoder") = "boxes"
<1>1. /\ Order[1] = "tap" /\ Order[2] = "transport" /\ Order[3] = "matrix"
      /\ Order[4] = "encoder" /\ Order[5] = "boxes"
  BY DEF Order
<1>2. \A i \in 1 .. 4 : i = 1 \/ i = 2 \/ i = 3 \/ i = 4
  OBVIOUS
<1>3. {Order[i] : i \in 2 .. 5} = {"transport", "matrix", "encoder", "boxes"}
  <2>1. \A i \in 2 .. 5 : i = 2 \/ i = 3 \/ i = 4 \/ i = 5
    OBVIOUS
  <2>2. 2 \in 2 .. 5 /\ 3 \in 2 .. 5 /\ 4 \in 2 .. 5 /\ 5 \in 2 .. 5
    OBVIOUS
  <2> QED
    BY <1>1, <2>1, <2>2
<1>4. ASSUME NEW i \in 1 .. 4, NEW s, \A j \in 1 .. 4 : Order[i] = Order[j] => j = i,
             s = Order[i + 1]
      PROVE  After(Order[i]) = s
  <2>1. s \in {Order[j] : j \in 2 .. 5}
    BY <1>4
  <2>2. \A t : (\E j \in 1 .. 4 : Order[i] = Order[j] /\ t = Order[j + 1]) <=> t = s
    BY <1>4
  <2> QED
    BY <2>1, <2>2 DEF After
<1>5. /\ \A j \in 1 .. 4 : Order[1] = Order[j] => j = 1
      /\ \A j \in 1 .. 4 : Order[2] = Order[j] => j = 2
      /\ \A j \in 1 .. 4 : Order[3] = Order[j] => j = 3
      /\ \A j \in 1 .. 4 : Order[4] = Order[j] => j = 4
  BY <1>1, <1>2
<1>6. After(Order[1]) = Order[2] /\ After(Order[2]) = Order[3]
  BY <1>4, <1>5
<1>7. After(Order[3]) = Order[4] /\ After(Order[4]) = Order[5]
  BY <1>4, <1>5
<1>8. /\ Reached("tap") => gridPass.stage = "tap"
      /\ Reached("transport") => gridPass.stage \in {"tap", "transport"}
      /\ Reached("matrix") => gridPass.stage \in Early
      /\ Reached("encoder") => gridPass.stage \in Early \cup {"encoder"}
  BY <1>1, <1>2 DEF Reached, Early
<1> QED
  BY <1>1, <1>6, <1>7, <1>8

(* What is known of the numbers of the status row. *)
LEMMA TextShape ==
  ASSUME GridInv
  PROVE  /\ Text = [bar |-> eng.bar, step |-> eng.step, total |-> eng.pattern, ms |-> eng.ms]
         /\ Text \in [bar : Nat, step : Nat, total : Nat, ms : Nat]
         /\ DOMAIN Text = {"bar", "step", "total", "ms"}
         /\ eng.bar # NoBar /\ eng.step # NoBar /\ eng.bar \in Nat /\ eng.step \in Nat
         /\ eng.ms \in Nat /\ eng.pattern \in Nat
<1>1. eng.bar \in Nat \ {0} /\ eng.step \in Nat \ {0} /\ eng.ms \in Nat /\ eng.pattern \in Nat
  <2>1. LastBar \in Nat /\ LastStep \in Nat /\ Patterns \subseteq Nat
    BY GridAssumption DEF GridAssumption
  <2>2. /\ eng.bar \in SongBars /\ eng.step \in 1 .. LastStep /\ eng.ms \in Nat
        /\ eng.pattern \in Patterns
    BY DEF GridInv, GridType, EngineType
  <2>3. SongBars \subseteq Nat \ {0} /\ 1 .. LastStep \subseteq Nat \ {0} /\ 0 \notin Patterns
    BY <2>1, GridAssumption DEF SongBars, GridAssumption
  <2> QED
    BY <2>1, <2>2, <2>3
<1> QED
  BY <1>1 DEF Text, NoBar

(* After the status row has been drawn on the grid its digits are those of the engine,
   whichever of them were written. *)
LEMMA RowDrawn ==
  ASSUME GridInv, OnMainGrid, NEW u, u.main # gridUi.main => WholeRow(u),
         WholeRow(u) \/ DrawStatusRow(u)
  PROVE  /\ GridDispType' /\ GridCacheType'
         /\ gridDisp'.boxes = gridDisp.boxes /\ gridDisp'.from = gridDisp.from
         /\ gridDisp'.of = gridDisp.of /\ gridDisp'.header = gridDisp.header
         /\ gridDisp'.mode = u.main /\ gridDisp'.side = eng.pattern
         /\ gridCache'.header = gridCache.header
         /\ gridCache'.pattern = eng.pattern /\ gridDisp'.text.total = eng.pattern
         /\ gridCache'.digits = [bar |-> eng.bar, step |-> eng.step, ms |-> eng.ms]
         /\ gridCache'.position = eng.bar /\ gridCache'.step = eng.step
         /\ used.sleeps = 0 /\ ~used.late =>
              /\ gridDisp'.text.bar = eng.bar /\ gridDisp'.text.step = eng.step
              /\ ~eng.playing /\ gridUi.last = NoBar => gridDisp'.text.ms = eng.ms
<1>1. CASE WholeRow(u)
  <2> USE TextShape
  <2>1. /\ gridDisp' = [gridDisp EXCEPT !.side = eng.pattern, !.mode = u.main, !.text = Text]
        /\ gridDisp'.text = Text /\ gridDisp'.boxes = gridDisp.boxes
        /\ gridDisp'.from = gridDisp.from /\ gridDisp'.of = gridDisp.of
        /\ gridDisp'.header = gridDisp.header /\ gridDisp'.mode = u.main
        /\ gridDisp'.side = eng.pattern
    BY <1>1 DEF WholeRow, GridInv, GridType, GridDispType
  <2>2. /\ gridCache'.digits = [bar |-> eng.bar, step |-> eng.step, ms |-> eng.ms]
        /\ gridCache'.position = eng.bar /\ gridCache'.step = eng.step
        /\ gridCache'.header = gridCache.header /\ gridCache'.pattern = eng.pattern
        /\ GridCacheType'
    BY <1>1 DEF WholeRow, GridInv, GridType, GridCacheType
  <2>3. GridDispType'
    BY <2>1 DEF GridInv, GridType, GridDispType
  <2> QED
    BY <2>1, <2>2, <2>3
<1>2. CASE ~WholeRow(u)
  <2> USE TextShape
  <2>1. ChangedDigits /\ gridCache.pattern = eng.pattern /\ u.main = gridUi.main
    BY <1>2 DEF DrawStatusRow
  <2> DEFINE looked == FieldIf("bar", gridCache.position # eng.bar)
                       \cup FieldIf("step", gridCache.bar # eng.bar \/ gridCache.step # eng.step)
                       \cup {"ms"}
             written == {f \in looked : gridCache.digits[f] # Text[f]}
             shown == [f \in DOMAIN Text |-> IF f \in written THEN Text[f] ELSE gridDisp.text[f]]
             kept == [f \in DOMAIN gridCache.digits |->
                        IF f \in looked THEN Text[f] ELSE gridCache.digits[f]]
  <2>2. /\ gridDisp' = [gridDisp EXCEPT !.side = eng.pattern, !.text = shown]
        /\ gridCache' = [gridCache EXCEPT !.side = eng.pattern, !.position = eng.bar,
                           !.bar = eng.bar, !.step = eng.step, !.digits = kept]
    BY <2>1 DEF ChangedDigits
  <2>3. /\ "bar" \in looked <=> gridCache.position # eng.bar
        /\ "step" \in looked <=> gridCache.bar # eng.bar \/ gridCache.step # eng.step
        /\ "ms" \in looked /\ "total" \notin looked
    BY DEF FieldIf
  <2>4. gridCache.digits.bar = gridCache.position
        /\ (gridCache.step # NoBar => gridCache.digits.step = gridCache.step)
    BY DEF GridInv, DigitsInv
  <2>5. /\ DOMAIN gridCache.digits = {"bar", "step", "ms"}
        /\ gridCache.digits \in [bar : Nat, step : Nat, ms : Nat]
    BY DEF GridInv, GridType, GridCacheType
  <2>6. kept = [bar |-> eng.bar, step |-> eng.step, ms |-> eng.ms]
    <3>1. kept["bar"] = eng.bar /\ kept["step"] = eng.step /\ kept["ms"] = eng.ms
      BY <2>3, <2>4, <2>5
    <3> HIDE DEF looked
    <3> QED
      BY <2>5, <3>1
  <2>7. shown["total"] = gridDisp.text["total"]
    BY <2>3
  <2>8. gridDisp.text.total = gridCache.pattern /\ gridDisp.mode = gridUi.main
    BY DEF GridInv, HeaderInv
  <2>9. shown \in [bar : Nat, step : Nat, total : Nat, ms : Nat]
    <3>1. gridDisp.text \in [bar : Nat, step : Nat, total : Nat, ms : Nat]
      BY DEF GridInv, GridType, GridDispType
    <3> DEFINE F == {"bar", "step", "total", "ms"}
    <3>2. \A f \in F : gridDisp.text[f] \in Nat /\ Text[f] \in Nat
      BY <3>1
    <3>3. \A f \in F : shown[f] \in Nat
      BY <3>2
    <3>4. shown = [bar |-> shown["bar"], step |-> shown["step"], total |-> shown["total"],
                   ms |-> shown["ms"]]
      BY DEF Text
    <3> HIDE DEF shown
    <3> QED
      BY <3>3, <3>4
  <2>10. ASSUME used.sleeps = 0, ~used.late
         PROVE  /\ shown["bar"] = eng.bar /\ shown["step"] = eng.step
                /\ ~eng.playing /\ gridUi.last = NoBar => shown["ms"] = eng.ms
    <3>1. /\ \A f \in {"bar", "step"} :
               IF gridPass.drawn THEN gridDisp.text[f] = Text[f]
               ELSE gridCache.digits[f] \in {gridDisp.text[f], NoBar}
          /\ ~eng.playing /\ gridUi.last = NoBar =>
               gridDisp.text.ms = IF gridPass.drawn THEN eng.ms ELSE gridCache.digits.ms
      BY <2>10 DEF GridInv, TextInv
    <3>2. shown["bar"] = eng.bar
      <4>1. Text["bar"] = eng.bar /\ eng.bar # NoBar
        OBVIOUS
      <4>2. CASE "bar" \in written
        BY <4>1, <4>2
      <4>3. CASE "bar" \notin written
        <5>1. shown["bar"] = gridDisp.text["bar"] /\ gridCache.digits["bar"] = eng.bar
          BY <4>1, <4>3, <2>3, <2>4
        <5> QED
          BY <5>1, <4>1, <3>1
      <4> QED
        BY <4>2, <4>3
    <3>3. shown["step"] = eng.step
      <4>1. Text["step"] = eng.step /\ eng.step # NoBar
        OBVIOUS
      <4>2. CASE "step" \in written
        BY <4>1, <4>2
      <4>3. CASE "step" \notin written
        <5>1. shown["step"] = gridDisp.text["step"] /\ gridCache.digits["step"] = eng.step
          BY <4>1, <4>3, <2>3, <2>4
        <5> QED
          BY <5>1, <4>1, <3>1
      <4> QED
        BY <4>2, <4>3
    <3>4. ~eng.playing /\ gridUi.last = NoBar => shown["ms"] = eng.ms
      BY <3>1, <2>3
    <3> QED
      BY <3>2, <3>3, <3>4
  <2> HIDE DEF shown, kept
  <2>11. /\ GridDispType' /\ gridDisp'.text = shown
         /\ gridDisp'.boxes = gridDisp.boxes /\ gridDisp'.from = gridDisp.from
         /\ gridDisp'.of = gridDisp.of /\ gridDisp'.header = gridDisp.header
         /\ gridDisp'.mode = u.main /\ gridDisp'.side = eng.pattern
    <3>1. gridDisp = [boxes |-> gridDisp.boxes, from |-> gridDisp.from, of |-> gridDisp.of,
                 header |-> gridDisp.header, mode |-> gridDisp.mode, text |-> gridDisp.text,
                 side |-> gridDisp.side] /\ gridDisp.from \in {"context", "variables"}
      BY DEF GridInv, GridType, GridDispType
    <3>2. gridDisp' = [boxes |-> gridDisp.boxes, from |-> gridDisp.from, of |-> gridDisp.of,
                 header |-> gridDisp.header, mode |-> u.main, text |-> shown,
                 side |-> eng.pattern]
      BY <2>1, <2>2, <2>8, <3>1
    <3>4. gridDisp'.text = shown /\ gridDisp'.from = gridDisp.from
          /\ gridDisp' = [boxes |-> gridDisp'.boxes, from |-> gridDisp'.from, of |-> gridDisp'.of,
                 header |-> gridDisp'.header, mode |-> gridDisp'.mode, text |-> gridDisp'.text,
                 side |-> gridDisp'.side]
      BY <3>2
    <3>5. gridDisp'.text \in [bar : Nat, step : Nat, total : Nat, ms : Nat]
          /\ gridDisp'.from \in {"context", "variables"}
      BY <2>9, <3>1, <3>4
    <3>6. GridDispType'
      BY <3>4, <3>5 DEF GridDispType
    <3> QED
      BY <3>2, <3>6
  <2>12. GridCacheType' /\ gridCache'.digits = kept
    BY <2>2, <2>6 DEF GridInv, GridType, GridCacheType
  <2>13. /\ gridCache'.position = eng.bar /\ gridCache'.step = eng.step
         /\ gridCache'.header = gridCache.header /\ gridCache'.pattern = gridCache.pattern
    BY <2>2 DEF GridInv, GridType, GridCacheType
  <2>14. gridCache'.pattern = eng.pattern /\ gridDisp'.text.total = eng.pattern
    BY <2>1, <2>7, <2>8, <2>11, <2>13
  <2>15. used.sleeps = 0 /\ ~used.late =>
              /\ gridDisp'.text.bar = eng.bar /\ gridDisp'.text.step = eng.step
              /\ ~eng.playing /\ gridUi.last = NoBar => gridDisp'.text.ms = eng.ms
    BY <2>10, <2>11
  <2> HIDE TextShape
  <2>16. gridCache'.digits = [bar |-> eng.bar, step |-> eng.step, ms |-> eng.ms]
    BY <2>6, <2>12
  <2> QED
    BY <2>11, <2>12, <2>13, <2>14, <2>15, <2>16
<1> QED
  BY <1>1, <1>2

(* A drawing of everything leaves the digits of the status row as they were noted. *)
LEMMA GridDrawn ==
  ASSUME GridInv, NEW c, NEW u, NEW from \in {"context", "variables"},
         NEW step \in {NoBar, gridCache.step},
         DrawComposed(c, u, from, [gridCache EXCEPT !.step = step])
  PROVE  /\ GridDispType' /\ GridCacheType'
         /\ gridDisp'.boxes = Boxes(c, u.flash) /\ gridDisp'.from = from /\ gridDisp'.of = c.of
         /\ gridDisp'.header = GridHeader(u) /\ gridDisp'.mode = u.main
         /\ gridDisp'.text = Text /\ gridDisp'.side = eng.pattern
         /\ gridCache'.header = GridHeader(u) /\ gridCache'.pattern = eng.pattern
         /\ gridCache'.digits = gridCache.digits /\ gridCache'.position = gridCache.position
         /\ gridCache'.step = step
<1>1. gridDisp' = [boxes |-> Boxes(c, u.flash), from |-> from, of |-> c.of,
                   header |-> GridHeader(u), mode |-> u.main, text |-> Text,
                   side |-> eng.pattern]
  BY DEF DrawComposed
<1>2. Text \in [bar : Nat, step : Nat, total : Nat, ms : Nat]
  BY TextShape
<1>3. GridDispType'
  BY <1>1, <1>2 DEF GridDispType
<1>4. gridCache' = [header |-> GridHeader(u), pattern |-> eng.pattern,
                    position |-> gridCache.position, bar |-> eng.bar, step |-> step,
                    mode |-> u.main, force |-> FALSE, side |-> eng.pattern,
                    digits |-> gridCache.digits]
  BY DEF DrawComposed, GridInv, GridType, GridCacheType
<1>5. GridCacheType'
  BY <1>4 DEF GridInv, GridType, GridCacheType
<1> QED
  BY <1>1, <1>3, <1>4, <1>5

(* The grid's own on_draw forgets the step. *)
LEMMA OnDrawDraws ==
  ASSUME GridInv, OnDraw(gridUi')
  PROVE  /\ GridDispType' /\ GridCacheType'
         /\ gridDisp'.from = "context" /\ gridDisp'.of = ctx'.of
         /\ gridDisp'.header = GridHeader(gridUi') /\ gridDisp'.mode = gridUi'.main
         /\ gridDisp'.text = Text /\ gridDisp'.side = eng.pattern
         /\ gridCache'.header = GridHeader(gridUi') /\ gridCache'.pattern = eng.pattern
         /\ gridCache'.digits = gridCache.digits /\ gridCache'.position = gridCache.position
         /\ gridCache'.step = NoBar
<1>1. PICK u : u = gridUi'
  OBVIOUS
<1>2. PICK c : c = ctx'
  OBVIOUS
<1>3. DrawComposed(c, u, "context", [gridCache EXCEPT !.step = NoBar])
  BY <1>1, <1>2 DEF OnDraw
<1>4. "context" \in {"context", "variables"} /\ NoBar \in {NoBar, gridCache.step}
  OBVIOUS
<1> QED
  BY <1>1, <1>2, <1>3, <1>4, GridDrawn

(* The header is drawn where it differs from its cache, which says what it shows. *)
LEMMA HeaderDrawn ==
  ASSUME GridInv, DrawGridHeader(gridUi')
  PROVE  /\ GridDispType' /\ GridCacheType'
         /\ gridDisp'.header = GridHeader(gridUi') /\ gridCache'.header = GridHeader(gridUi')
         /\ gridDisp'.boxes = gridDisp.boxes /\ gridDisp'.from = gridDisp.from
         /\ gridDisp'.of = gridDisp.of /\ gridDisp'.mode = gridDisp.mode
         /\ gridDisp'.text = gridDisp.text /\ gridDisp'.side = gridDisp.side
         /\ gridCache'.pattern = gridCache.pattern /\ gridCache'.digits = gridCache.digits
         /\ gridCache'.position = gridCache.position /\ gridCache'.step = gridCache.step
<1>1. PICK h : h = GridHeader(gridUi')
  OBVIOUS
<1>2. h = [state |-> h.state, rec |-> h.rec] /\ h.state = gridUi'.state /\ h.rec = gridUi'.rec
  BY <1>1 DEF GridHeader
<1>3. gridDisp.header = gridCache.header
      /\ gridDisp.header = [state |-> gridDisp.header.state, rec |-> gridDisp.header.rec]
  BY DEF GridInv, HeaderInv, GridHeader
<1>4. gridDisp' = [gridDisp EXCEPT !.header =
        [gridDisp.header EXCEPT !.state = h.state, !.rec = h.rec]]
  <2>1. gridDisp' = [gridDisp EXCEPT
          !.header.state = IF h.state # gridCache.header.state THEN h.state ELSE @,
          !.header.rec   = IF h.rec # gridCache.header.rec THEN h.rec ELSE @]
    BY <1>2 DEF DrawGridHeader
  <2>2. (IF h.state # gridCache.header.state THEN h.state ELSE gridDisp.header.state) = h.state
        /\ (IF h.rec # gridCache.header.rec THEN h.rec ELSE gridDisp.header.rec) = h.rec
    BY <1>3
  <2> QED
    BY <2>1, <2>2, <1>3 DEF GridInv, GridType, GridDispType
<1>5. [gridDisp.header EXCEPT !.state = h.state, !.rec = h.rec] = h
  BY <1>2, <1>3
<1>6. gridDisp' = [gridDisp EXCEPT !.header = h] /\ gridCache' = [gridCache EXCEPT !.header = h]
  BY <1>1, <1>4, <1>5 DEF DrawGridHeader
<1>7. gridDisp = [boxes |-> gridDisp.boxes, from |-> gridDisp.from, of |-> gridDisp.of,
                 header |-> gridDisp.header, mode |-> gridDisp.mode, text |-> gridDisp.text,
                 side |-> gridDisp.side]
      /\ gridCache = [header |-> gridCache.header, pattern |-> gridCache.pattern,
                  position |-> gridCache.position, bar |-> gridCache.bar,
                  step |-> gridCache.step, mode |-> gridCache.mode, force |-> gridCache.force,
                  side |-> gridCache.side, digits |-> gridCache.digits]
  BY DEF GridInv, GridType, GridDispType, GridCacheType
<1>8. gridDisp' = [boxes |-> gridDisp.boxes, from |-> gridDisp.from, of |-> gridDisp.of,
                 header |-> h, mode |-> gridDisp.mode, text |-> gridDisp.text,
                 side |-> gridDisp.side]
  BY <1>6, <1>7
<1>9. gridCache' = [header |-> h, pattern |-> gridCache.pattern,
                  position |-> gridCache.position, bar |-> gridCache.bar,
                  step |-> gridCache.step, mode |-> gridCache.mode, force |-> gridCache.force,
                  side |-> gridCache.side, digits |-> gridCache.digits]
  BY <1>6, <1>7
<1>10. GridDispType' /\ GridCacheType'
  BY <1>8, <1>9 DEF GridInv, GridType, GridDispType, GridCacheType
<1>11. gridDisp'.header = h /\ gridCache'.header = h
  BY <1>8, <1>9
<1> QED
  BY <1>1, <1>6, <1>8, <1>9, <1>10, <1>11

(* What every key does to the pass. *)
LEMMA KeyTaken ==
  ASSUME GridInv, NEW stage \in {"tap", "transport", "matrix", "encoder"},
         NEW rewinds \in BOOLEAN, Key(stage, rewinds), gridUi'.asleep = gridUi.asleep
  PROVE  /\ PassType' /\ OnMainGrid /\ UNCHANGED <<notes, typed, loops, ctx>>
         /\ ~gridUi.asleep /\ gridPass.stage # "rest"
         /\ gridPass'.drawn = gridPass.drawn /\ gridPass'.stage = After(stage)
         /\ used'.sleeps = used.sleeps
         /\ used'.late = (used.late \/ (rewinds /\ gridPass.drawn))
         /\ After(stage) \in {"transport", "matrix", "encoder", "boxes"}
<1>1. After(stage) \in {"transport", "matrix", "encoder", "boxes"} /\ gridPass.stage # "rest"
  BY StageOrder DEF Key, Early
<1>2. gridPass' = [gridPass EXCEPT !.stage = After(stage)]
      /\ used' = [used EXCEPT !.inputs = @ + 1, !.late = @ \/ (rewinds /\ gridPass.drawn)]
      /\ OnMainGrid /\ UNCHANGED <<notes, typed, loops, ctx>>
  BY DEF Key, gridSong
<1>3. PassType
  BY DEF GridInv, GridType
<1>4. gridPass' \in [stage : {"rest", "tap", "transport", "matrix", "encoder", "boxes", "row"},
                     drawn : BOOLEAN, done : {"nothing", "boxes", "row"}]
      /\ gridPass'.stage = After(stage) /\ gridPass'.drawn = gridPass.drawn
  BY <1>1, <1>2, <1>3 DEF PassType
<1>5. used' \in [inputs : Nat, away : Nat, sleeps : Nat, late : BOOLEAN]
      /\ used'.sleeps = used.sleeps
      /\ used'.late = (used.late \/ (rewinds /\ gridPass.drawn))
  <2>1. PICK l : l = (used.late \/ (rewinds /\ gridPass.drawn))
    OBVIOUS
  <2>2. l \in BOOLEAN
    BY <2>1
  <2>3. used' = [used EXCEPT !.inputs = used.inputs + 1, !.late = l]
    BY <1>2, <2>1
  <2>4. used' \in [inputs : Nat, away : Nat, sleeps : Nat, late : BOOLEAN]
        /\ used'.sleeps = used.sleeps /\ used'.late = l
    <3>1. used = [inputs |-> used.inputs, away |-> used.away, sleeps |-> used.sleeps,
                  late |-> used.late] /\ used.inputs \in Nat /\ used.away \in Nat
          /\ used.sleeps \in Nat
      BY <1>3 DEF PassType
    <3>2. used' = [inputs |-> used.inputs + 1, away |-> used.away, sleeps |-> used.sleeps,
                   late |-> l]
      BY <2>3, <3>1
    <3> QED
      BY <2>2, <3>1, <3>2
  <2> QED
    BY <2>1, <2>4
<1>6. ~gridUi.asleep
  BY <1>1, <1>3 DEF PassType
<1>7. PassType'
  BY <1>1, <1>4, <1>5, <1>6 DEF PassType
<1> QED
  BY <1>1, <1>2, <1>4, <1>5, <1>6, <1>7

-----------------------------------------------------------------------------
(* The steps of the main grid *)

LEMMA FirstPattern ==
  ASSUME NEW first, first = CHOOSE p \in Patterns : \A q \in Patterns : p <= q
  PROVE  first \in Patterns
<1>1. Patterns \subseteq Nat /\ Patterns # {}
  BY GridAssumption DEF GridAssumption
<1>2. PICK p \in Patterns : \A q \in Patterns : ~ (<<q, p>> \in OpToRel(<, Nat))
  BY <1>1, NatLessThanWellFounded, WFMin
<1>3. \A q \in Patterns : p <= q
  <2>1. \A q \in Patterns : ~ (q < p)
    BY <1>1, <1>2 DEF OpToRel
  <2> QED
    BY <1>1, <2>1
<1> QED
  BY <1>3

LEMMA GridStarts == GridInit => GridInv
<1> SUFFICES ASSUME GridInit PROVE GridInv
  OBVIOUS
<1>1. LastBar \in Nat \ {0} /\ LastStep \in Nat \ {0} /\ Patterns \subseteq Nat
  BY GridAssumption DEF GridAssumption
<1>2. eng.pattern \in Patterns
  BY FirstPattern DEF GridInit
<1>3. EngineType
  BY <1>1, <1>2 DEF GridInit, EngineType, SongBars
<1>4. GridUiType
  BY DEF GridInit, GridUiType, GridHeader, GridHeaders
<1>5. Text \in [bar : Nat, step : Nat, total : Nat, ms : Nat]
      /\ Text = [bar |-> 1, step |-> 1, total |-> eng.pattern, ms |-> 0]
  BY <1>1, <1>2 DEF GridInit, Text
<1>6. GridDispType
  BY <1>5 DEF GridInit, GridDispType
<1>7. GridCacheType
  BY DEF GridInit, GridCacheType, NoBar
<1>8. PassType
  BY DEF GridInit, PassType
<1>9. HeaderInv
  BY <1>5 DEF GridInit, HeaderInv, GridHeader
<1>10. PatternInv
  BY DEF GridInit, PatternInv, Early
<1>11. BoxesInv
  BY DEF GridInit, BoxesInv
<1>12. DigitsInv
  <2>1. Position # <<>>
    BY DEF Position
  <2>2. gridUi.seen = <<>>
    BY DEF GridInit
  <2>3. gridCache.step = NoBar /\ gridCache.digits.bar = gridCache.position
    BY DEF GridInit
  <2> QED
    BY <2>1, <2>2, <2>3 DEF DigitsInv
<1>13. LastInv
  BY DEF GridInit, LastInv
<1>14. TextInv
  <2>1. gridDisp.text = Text /\ gridPass.drawn = FALSE
        /\ gridCache.digits = [bar |-> NoBar, step |-> NoBar, ms |-> NoBar]
    BY DEF GridInit
  <2> QED
    BY <2>1, <1>5 DEF TextInv, NoBar
<1>15. ~GridAtRest
  BY DEF GridInit, GridAtRest
<1> QED
  BY <1>3, <1>4, <1>6, <1>7, <1>8, <1>9, <1>10, <1>11, <1>12, <1>13, <1>14, <1>15
     DEF GridInv, GridType

LEMMA StepKeeps == GridInv /\ Step => GridInv'
<1> SUFFICES ASSUME GridInv, Step PROVE GridInv'
  OBVIOUS
<1> USE DEF GridInv, GridType
<1>1. UNCHANGED <<notes, typed, loops, ctx, gridDisp, gridCache, used>>
      /\ gridPass.stage = "rest" /\ eng.playing /\ gridPass' = [gridPass EXCEPT !.done = "nothing"]
      /\ gridUi' = [gridUi EXCEPT !.seen = <<>>]
  BY DEF Step, gridSong
<1>2. EngineType' /\ eng'.pattern = eng.pattern
  <2>1. PICK ms \in 0 .. Digits - 1 :
       \/ eng.step < LastStep /\ eng' = [eng EXCEPT !.step = @ + 1, !.ms = ms]
       \/ \E b \in SongBars : eng' = [eng EXCEPT !.step = 1, !.bar = b, !.ms = ms]
       \/ eng' = [eng EXCEPT !.playing = FALSE, !.ms = ms]
    BY DEF Step
  <2>2. LastStep \in Nat \ {0} /\ Digits \in Nat \ {0} /\ ms \in Nat
    BY GridAssumption DEF GridAssumption
  <2>3. eng.step < LastStep => eng.step + 1 \in 1 .. LastStep
    BY <2>2 DEF EngineType
  <2>4. 1 \in 1 .. LastStep
    BY <2>2
  <2> QED
    BY <2>1, <2>2, <2>3, <2>4 DEF EngineType
<1>3. gridPass'.stage = "rest" /\ gridPass'.drawn = FALSE /\ gridPass'.done = "nothing"
      /\ gridPass' \in [stage : {"rest", "tap", "transport", "matrix", "encoder", "boxes", "row"},
                   drawn : BOOLEAN, done : {"nothing", "boxes", "row"}] /\ gridPass.drawn = FALSE
  BY <1>1 DEF PassType
<1>4. GridUiType' /\ gridUi' = [mode |-> gridUi.mode, asleep |-> gridUi.asleep,
               selected |-> gridUi.selected,
               active |-> gridUi.active, last |-> gridUi.last, cached |-> gridUi.cached,
               main |-> gridUi.main, state |-> gridUi.state, rec |-> gridUi.rec,
               flash |-> gridUi.flash, seen |-> <<>>]
  BY <1>1 DEF GridUiType, GridHeader
<1>5. PassType'
  BY <1>1, <1>3, <1>4 DEF PassType
<1>6. GridDispType' /\ GridCacheType'
  BY <1>1 DEF GridDispType, GridCacheType
<1>7. HeaderInv'
  BY <1>1, <1>4 DEF HeaderInv, GridHeader
<1>8. PatternInv'
  BY <1>1, <1>2, <1>3, <1>4 DEF PatternInv, TakenUp, OnMainGrid, Early
<1>9. BoxesInv'
  BY <1>1, <1>2, <1>4 DEF BoxesInv, TakenUp, OnMainGrid, Live, HasNotes
<1>10. DigitsInv'
  BY <1>1, <1>4 DEF DigitsInv, Position
<1>11. LastInv'
  BY <1>1, <1>3, <1>4 DEF LastInv, OnMainGrid
<1>12. TextInv'
  <2>1. OnMainGrid => gridUi.last # NoBar
    BY <1>1 DEF LastInv
  <2>2. \A f \in {"bar", "step"} : gridCache.digits[f] \in {gridDisp.text[f], NoBar}
        \/ ~(OnMainGrid /\ used.sleeps = 0 /\ ~used.late)
    BY <1>3 DEF TextInv
  <2> QED
    BY <2>1, <2>2, <1>1, <1>3, <1>4 DEF TextInv, OnMainGrid
<1>13. ~GridAtRest'
  BY <1>3 DEF GridAtRest
<1> QED
  BY <1>2, <1>4, <1>5, <1>6, <1>7, <1>8, <1>9, <1>10, <1>11, <1>12, <1>13

LEMMA TickKeeps == GridInv /\ Tick => GridInv'
<1> SUFFICES ASSUME GridInv, Tick PROVE GridInv'
  OBVIOUS
<1> USE DEF GridInv, GridType
<1>1. UNCHANGED <<notes, typed, loops, ctx, gridDisp, gridCache, gridPass, used>>
      /\ eng.playing /\ gridUi' = [gridUi EXCEPT !.seen = <<>>]
  BY DEF Tick, gridSong
<1>2. EngineType' /\ eng'.pattern = eng.pattern /\ eng'.playing = eng.playing
      /\ eng'.bar = eng.bar /\ eng'.step = eng.step
  <2>1. eng' = [eng EXCEPT !.ms = (@ + 1) % Digits]
    BY DEF Tick
  <2>2. (eng.ms + 1) % Digits \in Nat
    BY GridAssumption DEF GridAssumption, EngineType
  <2> QED
    BY <2>1, <2>2 DEF EngineType
<1>4. GridUiType' /\ gridUi' = [mode |-> gridUi.mode, asleep |-> gridUi.asleep,
               selected |-> gridUi.selected,
               active |-> gridUi.active, last |-> gridUi.last, cached |-> gridUi.cached,
               main |-> gridUi.main, state |-> gridUi.state, rec |-> gridUi.rec,
               flash |-> gridUi.flash, seen |-> <<>>]
  BY <1>1 DEF GridUiType, GridHeader
<1>5. PassType'
  BY <1>1, <1>4 DEF PassType
<1>6. GridDispType' /\ GridCacheType'
  BY <1>1 DEF GridDispType, GridCacheType
<1>7. HeaderInv'
  BY <1>1, <1>4 DEF HeaderInv, GridHeader
<1>8. PatternInv'
  BY <1>1, <1>2, <1>4 DEF PatternInv, TakenUp, OnMainGrid
<1>9. BoxesInv'
  BY <1>1, <1>2, <1>4 DEF BoxesInv, TakenUp, OnMainGrid, Live, HasNotes
<1>10. DigitsInv'
  BY <1>1, <1>4 DEF DigitsInv, Position
<1>11. LastInv'
  BY <1>1, <1>2, <1>4 DEF LastInv, OnMainGrid
<1>12. TextInv'
  BY <1>1, <1>2, <1>4 DEF TextInv, OnMainGrid, Text
<1>13. GridAtRest' => StatusShowsPosition'
  <2>1. GridAtRest' => GridAtRest
    BY <1>1, <1>4 DEF GridAtRest, OnMainGrid
  <2> QED
    BY <2>1, <1>1, <1>2, <1>4 DEF StatusShowsPosition, FieldIf, Text
<1> QED
  BY <1>2, <1>4, <1>5, <1>6, <1>7, <1>8, <1>9, <1>10, <1>11, <1>12, <1>13

LEMMA BeginPassKeeps == GridInv /\ BeginPass => GridInv'
<1> SUFFICES ASSUME GridInv, BeginPass PROVE GridInv'
  OBVIOUS
<1> USE DEF GridInv, GridType
<1>1. /\ UNCHANGED <<eng, notes, typed, loops, used>>
      /\ gridPass.stage = "rest" /\ gridUi.asleep = FALSE
      /\ gridUi' = [gridUi EXCEPT !.cached = eng.pattern]
      /\ PatternTakenUp(gridUi')
      /\ gridPass' = [stage |-> "tap", drawn |-> gridDisp' # gridDisp, done |-> "nothing"]
  BY DEF BeginPass, gridSong, GridUiType
<1>2. EngineType'
  BY <1>1 DEF EngineType
<1>3. gridPass'.stage = "tap" /\ (gridPass'.drawn <=> gridDisp' # gridDisp) /\ ~gridPass.drawn
  BY <1>1 DEF PassType
<1>4. GridUiType' /\ gridUi' = [mode |-> gridUi.mode, asleep |-> gridUi.asleep,
               selected |-> gridUi.selected,
               active |-> gridUi.active, last |-> gridUi.last, cached |-> eng.pattern,
               main |-> gridUi.main, state |-> gridUi.state, rec |-> gridUi.rec,
               flash |-> gridUi.flash, seen |-> gridUi.seen]
  BY <1>1 DEF GridUiType, GridHeader
<1>5. PassType'
  <2>1. PICK d : d = (gridDisp' # gridDisp)
    OBVIOUS
  <2>2. d \in BOOLEAN /\ gridPass' = [stage |-> "tap", drawn |-> d, done |-> "nothing"]
    BY <2>1, <1>1
  <2> QED
    BY <2>2, <1>1, <1>4 DEF PassType
<1>6. GridHeader(gridUi') = GridHeader(gridUi) /\ Text' = Text /\ Position' = Position
      /\ (OnMainGrid' <=> OnMainGrid) /\ eng'.pattern = eng.pattern
  BY <1>1, <1>4 DEF GridHeader, Text, Position, OnMainGrid
<1>7. CASE OnMainGrid /\ eng.pattern # gridUi.cached
  <2>1. ctx' = [selected |-> gridUi'.selected, active |-> gridUi'.active, of |-> eng.pattern,
                has |-> NotesOf(eng.pattern)] /\ OnDraw(gridUi')
    BY <1>1, <1>4, <1>7 DEF PatternTakenUp, SetGridContext
  <2>2. /\ GridDispType' /\ GridCacheType'
        /\ gridDisp'.from = "context" /\ gridDisp'.of = ctx'.of
        /\ gridDisp'.header = GridHeader(gridUi') /\ gridDisp'.mode = gridUi'.main
        /\ gridDisp'.text = Text /\ gridDisp'.side = eng.pattern
        /\ gridCache'.header = GridHeader(gridUi') /\ gridCache'.pattern = eng.pattern
        /\ gridCache'.digits = gridCache.digits /\ gridCache'.position = gridCache.position
        /\ gridCache'.step = NoBar
    BY <2>1, OnDrawDraws
  <2>3. HeaderInv'
    BY <2>2, TextShape DEF HeaderInv
  <2>4. PatternInv'
    BY <1>1, <1>3, <1>4, <2>1, <2>2 DEF PatternInv, TakenUp
  <2>5. BoxesInv'
    BY <2>2 DEF BoxesInv
  <2>6. DigitsInv'
    <3>1. gridUi'.seen = gridUi.seen /\ eng' = eng
      BY <1>1, <1>4
    <3> QED
      BY <3>1, <1>6, <2>2 DEF DigitsInv
  <2>7. LastInv'
    BY <1>1, <1>3, <1>4 DEF LastInv, OnMainGrid
  <2>8. TextInv'
    <3>1. CASE gridPass'.drawn
      BY <3>1, <1>6, <2>2, TextShape, <1>1 DEF TextInv
    <3>2. CASE ~gridPass'.drawn
      <4>1. gridDisp' = gridDisp
        BY <3>2, <1>3
      <4> QED
        BY <4>1, <3>2, <1>1, <1>3, <1>4, <1>6, <2>2 DEF TextInv
    <3> QED
      BY <3>1, <3>2
  <2>9. ~GridAtRest'
    BY <1>3 DEF GridAtRest
  <2> QED
    BY <1>2, <1>4, <1>5, <2>2, <2>3, <2>4, <2>5, <2>6, <2>7, <2>8, <2>9
<1>8. CASE ~OnMainGrid \/ eng.pattern = gridUi.cached
  <2>1. UNCHANGED <<ctx, gridDisp, gridCache>>
    BY <1>1, <1>4, <1>8 DEF PatternTakenUp
  <2>2. GridDispType' /\ GridCacheType'
    BY <2>1 DEF GridDispType, GridCacheType
  <2>3. HeaderInv'
    BY <1>4, <1>6, <2>1 DEF HeaderInv
  <2>4. PatternInv'
    BY <1>1, <1>3, <1>4, <1>6, <1>8, <2>1 DEF PatternInv, TakenUp
  <2>5. BoxesInv'
    <3>1. CASE OnMainGrid
      <4>1. gridUi' = gridUi
        BY <1>4, <1>8, <3>1 DEF GridUiType
      <4> QED
        BY <4>1, <1>1, <2>1 DEF BoxesInv, TakenUp, OnMainGrid, Live, HasNotes
    <3>2. CASE ~OnMainGrid
      BY <3>2, <1>6 DEF BoxesInv
    <3> QED
      BY <3>1, <3>2
  <2>6. DigitsInv'
    BY <1>1, <1>4, <1>6, <2>1 DEF DigitsInv
  <2>7. LastInv'
    BY <1>1, <1>3, <1>4 DEF LastInv, OnMainGrid
  <2>8. TextInv'
    <3>1. ~gridPass'.drawn
      BY <2>1, <1>3
    <3> QED
      BY <3>1, <1>1, <1>3, <1>4, <1>6, <2>1 DEF TextInv
  <2>9. ~GridAtRest'
    BY <1>3 DEF GridAtRest
  <2> QED
    BY <1>2, <1>4, <1>5, <2>2, <2>3, <2>4, <2>5, <2>6, <2>7, <2>8, <2>9
<1> QED
  BY <1>7, <1>8

LEMMA GridSleepKeeps == GridInv /\ GridSleep => GridInv'
<1> SUFFICES ASSUME GridInv, GridSleep PROVE GridInv'
  OBVIOUS
<1> USE DEF GridInv, GridType
<1>1. /\ UNCHANGED <<eng, notes, typed, loops, ctx, gridDisp, gridCache, gridPass>>
      /\ gridPass.stage = "rest" /\ gridUi' = [gridUi EXCEPT !.asleep = TRUE]
      /\ used' = [used EXCEPT !.sleeps = @ + 1, !.inputs = @ + 1]
  BY DEF GridSleep, gridSong
<1>2. used' \in [inputs : Nat, away : Nat, sleeps : Nat, late : BOOLEAN] /\ used'.sleeps > 0
  <2>1. used = [inputs |-> used.inputs, away |-> used.away, sleeps |-> used.sleeps,
                late |-> used.late] /\ used.inputs \in Nat /\ used.away \in Nat
        /\ used.sleeps \in Nat /\ used.late \in BOOLEAN
    BY DEF PassType
  <2>2. used' = [inputs |-> used.inputs + 1, away |-> used.away, sleeps |-> used.sleeps + 1,
                 late |-> used.late]
    BY <1>1, <2>1
  <2> QED
    BY <2>1, <2>2
<1>3. GridUiType' /\ gridUi' = [mode |-> gridUi.mode, asleep |-> TRUE,
               selected |-> gridUi.selected,
               active |-> gridUi.active, last |-> gridUi.last, cached |-> gridUi.cached,
               main |-> gridUi.main, state |-> gridUi.state, rec |-> gridUi.rec,
               flash |-> gridUi.flash, seen |-> gridUi.seen]
  BY <1>1 DEF GridUiType, GridHeader
<1>4. PassType'
  BY <1>1, <1>2, <1>3 DEF PassType
<1>5. EngineType' /\ GridDispType' /\ GridCacheType'
  BY <1>1 DEF EngineType, GridDispType, GridCacheType
<1>6. HeaderInv'
  BY <1>1, <1>3 DEF HeaderInv, GridHeader
<1>7. PatternInv' /\ BoxesInv'
  BY <1>1, <1>3 DEF PatternInv, BoxesInv, TakenUp, OnMainGrid, Live, HasNotes
<1>8. DigitsInv' /\ LastInv'
  BY <1>1, <1>3 DEF DigitsInv, LastInv, OnMainGrid, Position
<1>9. TextInv'
  BY <1>2 DEF TextInv
<1>10. ~GridAtRest'
  BY <1>3 DEF GridAtRest
<1> QED
  BY <1>3, <1>4, <1>5, <1>6, <1>7, <1>8, <1>9, <1>10

LEMMA GridWakeKeeps == GridInv /\ GridWake => GridInv'
<1> SUFFICES ASSUME GridInv, GridWake PROVE GridInv'
  OBVIOUS
<1> USE DEF GridInv, GridType
<1>1. /\ UNCHANGED <<eng, notes, typed, loops, used, ctx>>
      /\ gridPass.stage = "rest" /\ gridUi.asleep
      /\ gridUi' = [gridUi EXCEPT !.asleep = FALSE]
      /\ gridPass' = [gridPass EXCEPT !.done = "nothing"]
      /\ IF OnMainGrid THEN OnDraw(gridUi') ELSE UNCHANGED <<gridDisp, gridCache>>
  BY DEF GridWake, gridSong
<1>2. used'.sleeps # 0
  BY <1>1 DEF PassType
<1>3. GridUiType' /\ gridUi' = [mode |-> gridUi.mode, asleep |-> FALSE,
               selected |-> gridUi.selected,
               active |-> gridUi.active, last |-> gridUi.last, cached |-> gridUi.cached,
               main |-> gridUi.main, state |-> gridUi.state, rec |-> gridUi.rec,
               flash |-> gridUi.flash, seen |-> gridUi.seen]
  BY <1>1 DEF GridUiType, GridHeader
<1>4. PassType' /\ gridPass'.stage = "rest" /\ gridPass'.done = "nothing"
  BY <1>1, <1>3 DEF PassType
<1>5. EngineType'
  BY <1>1 DEF EngineType
<1>6. GridHeader(gridUi') = GridHeader(gridUi) /\ Text' = Text /\ Position' = Position
      /\ (OnMainGrid' <=> OnMainGrid) /\ eng'.pattern = eng.pattern /\ (TakenUp' <=> TakenUp)
  BY <1>1, <1>3 DEF GridHeader, Text, Position, OnMainGrid, TakenUp
<1>7. LastInv'
  BY <1>1, <1>3, <1>4 DEF LastInv, OnMainGrid
<1>8. TextInv' /\ ~GridAtRest'
  BY <1>2, <1>4 DEF TextInv, GridAtRest
<1>9. CASE OnMainGrid
  <2>1. /\ GridDispType' /\ GridCacheType'
        /\ gridDisp'.from = "context" /\ gridDisp'.of = ctx'.of
        /\ gridDisp'.header = GridHeader(gridUi') /\ gridDisp'.mode = gridUi'.main
        /\ gridDisp'.text = Text /\ gridDisp'.side = eng.pattern
        /\ gridCache'.header = GridHeader(gridUi') /\ gridCache'.pattern = eng.pattern
        /\ gridCache'.digits = gridCache.digits /\ gridCache'.position = gridCache.position
        /\ gridCache'.step = NoBar
    BY <1>1, <1>9, OnDrawDraws
  <2>2. HeaderInv'
    BY <2>1, TextShape DEF HeaderInv
  <2>3. PatternInv'
    BY <1>1, <1>4, <1>6, <1>9, <2>1 DEF PatternInv, Early
  <2>4. BoxesInv'
    BY <2>1 DEF BoxesInv
  <2>5. DigitsInv'
    <3>1. gridUi'.seen = gridUi.seen /\ eng' = eng
      BY <1>1, <1>3
    <3> QED
      BY <3>1, <1>6, <2>1 DEF DigitsInv
  <2> QED
    BY <1>3, <1>4, <1>5, <1>7, <1>8, <2>1, <2>2, <2>3, <2>4, <2>5
<1>10. CASE ~OnMainGrid
  <2>1. UNCHANGED <<gridDisp, gridCache>>
    BY <1>1, <1>10
  <2>2. GridDispType' /\ GridCacheType'
    BY <2>1 DEF GridDispType, GridCacheType
  <2>3. HeaderInv'
    BY <1>3, <1>6, <2>1 DEF HeaderInv
  <2>4. PatternInv' /\ BoxesInv'
    BY <1>4, <1>6, <1>10 DEF PatternInv, BoxesInv, Early
  <2>5. DigitsInv'
    BY <1>1, <1>3, <1>6, <2>1 DEF DigitsInv
  <2> QED
    BY <1>3, <1>4, <1>5, <1>7, <1>8, <2>2, <2>3, <2>4, <2>5
<1> QED
  BY <1>9, <1>10

LEMMA ShiftTapKeeps == GridInv /\ ShiftTap => GridInv'
<1> SUFFICES ASSUME GridInv, ShiftTap PROVE GridInv'
  OBVIOUS
<1> USE DEF GridInv, GridType
<1>1. Key("tap", FALSE) /\ eng' = eng /\ gridUi' = [gridUi EXCEPT !.main = (@ + 1) % MainModes]
  BY DEF ShiftTap
<1>2. GridUiType' /\ gridUi' = [mode |-> gridUi.mode, asleep |-> gridUi.asleep,
               selected |-> gridUi.selected,
               active |-> gridUi.active, last |-> gridUi.last, cached |-> gridUi.cached,
               main |-> gridUi'.main, state |-> gridUi.state, rec |-> gridUi.rec,
               flash |-> gridUi.flash, seen |-> gridUi.seen]
  BY <1>1 DEF GridUiType, GridHeader
<1>3. /\ PassType' /\ OnMainGrid /\ UNCHANGED <<notes, typed, loops, ctx>>
      /\ ~gridUi.asleep /\ gridPass.stage = "tap"
      /\ gridPass'.drawn = gridPass.drawn /\ gridPass'.stage = "transport"
      /\ used'.sleeps = used.sleeps /\ (used'.late <=> used.late)
  <2>1. "tap" \in {"tap", "transport", "matrix", "encoder"} /\ FALSE \in BOOLEAN
        /\ gridUi'.asleep = gridUi.asleep
    BY <1>2
  <2>2. Reached("tap")
    BY <1>1 DEF Key
  <2> QED
    BY <1>1, <2>1, <2>2, KeyTaken, StageOrder
<1>4. PICK u : u = gridUi'
  OBVIOUS
<1>5. /\ GridDispType' /\ GridCacheType'
      /\ gridDisp'.boxes = gridDisp.boxes /\ gridDisp'.from = gridDisp.from
      /\ gridDisp'.of = gridDisp.of /\ gridDisp'.header = gridDisp.header
      /\ gridDisp'.mode = u.main /\ gridDisp'.side = eng.pattern
      /\ gridCache'.header = gridCache.header
      /\ gridCache'.pattern = eng.pattern /\ gridDisp'.text.total = eng.pattern
      /\ gridCache'.digits = [bar |-> eng.bar, step |-> eng.step, ms |-> eng.ms]
      /\ gridCache'.position = eng.bar /\ gridCache'.step = eng.step
      /\ used.sleeps = 0 /\ ~used.late =>
           /\ gridDisp'.text.bar = eng.bar /\ gridDisp'.text.step = eng.step
           /\ ~eng.playing /\ gridUi.last = NoBar => gridDisp'.text.ms = eng.ms
  <2>1. (u.main # gridUi.main => WholeRow(u)) /\ (WholeRow(u) \/ DrawStatusRow(u))
    BY <1>4 DEF ShiftTap
  <2> QED
    BY <2>1, <1>3, RowDrawn
<1>6. EngineType' /\ Text' = Text /\ Position' = Position /\ eng'.pattern = eng.pattern
      /\ (OnMainGrid' <=> OnMainGrid)
  BY <1>1, <1>2 DEF EngineType, Text, Position, OnMainGrid
<1>7. HeaderInv'
  BY <1>2, <1>4, <1>5, <1>6 DEF HeaderInv, GridHeader
<1>8. PatternInv'
  BY <1>1, <1>2, <1>3, <1>5, <1>6 DEF PatternInv, TakenUp, Early
<1>9. BoxesInv'
  BY <1>1, <1>2, <1>3, <1>5, <1>6 DEF BoxesInv, TakenUp, Live, HasNotes
<1>10. DigitsInv'
  <2>1. gridUi'.seen = gridUi.seen
    BY <1>2
  <2>2. gridUi.seen # <<>> => gridUi.seen = Position \/ (eng.bar = 1 /\ eng.step = 1)
    BY DEF DigitsInv
  <2> QED
    BY <2>1, <2>2, <1>1, <1>5, <1>6 DEF DigitsInv
<1>11. LastInv'
  BY <1>1, <1>2, <1>3 DEF LastInv
<1>12. TextInv'
  <2>1. eng.bar # NoBar /\ eng.step # NoBar
        /\ Text = [bar |-> eng.bar, step |-> eng.step, total |-> eng.pattern, ms |-> eng.ms]
    BY TextShape
  <2>2. gridUi'.last = gridUi.last
    BY <1>2
  <2> QED
    BY <2>1, <2>2, <1>1, <1>3, <1>5, <1>6 DEF TextInv
<1>13. ~GridAtRest'
  BY <1>3 DEF GridAtRest
<1> QED
  BY <1>2, <1>3, <1>5, <1>6, <1>7, <1>8, <1>9, <1>10, <1>11, <1>12, <1>13

(* What the keys of the transport have in common: the header is drawn, the engine changes
   its position only back to the beginning, and not before a status row that knows. *)
LEMMA TransportKeeps ==
  ASSUME GridInv, NEW rewinds \in BOOLEAN, Key("transport", rewinds), DrawGridHeader(gridUi'),
         EngineType', GridUiType', eng'.pattern = eng.pattern,
         \A f \in {"mode", "asleep", "selected", "active", "last", "cached", "main", "flash"} :
           gridUi'[f] = gridUi[f],
         gridUi'.seen \in {gridUi.seen, <<>>},
         eng'.ms = eng.ms \/ (rewinds /\ gridUi'.seen = <<>>),
         \/ eng'.bar = eng.bar /\ eng'.step = eng.step
         \/ rewinds /\ eng'.bar = 1 /\ eng'.step = 1
  PROVE  GridInv'
<1> USE DEF GridInv, GridType
<1>2. /\ gridUi'.mode = gridUi.mode /\ gridUi'.asleep = gridUi.asleep
      /\ gridUi'.selected = gridUi.selected /\ gridUi'.active = gridUi.active
      /\ gridUi'.last = gridUi.last /\ gridUi'.cached = gridUi.cached
      /\ gridUi'.main = gridUi.main /\ gridUi'.flash = gridUi.flash
  OBVIOUS
<1>3. /\ PassType' /\ OnMainGrid /\ UNCHANGED <<notes, typed, loops, ctx>>
      /\ ~gridUi.asleep /\ gridPass.stage \in {"tap", "transport"}
      /\ gridPass'.drawn = gridPass.drawn /\ gridPass'.stage = "matrix"
      /\ used'.sleeps = used.sleeps /\ (used'.late <=> used.late \/ (rewinds /\ gridPass.drawn))
  <2>1. "transport" \in {"tap", "transport", "matrix", "encoder"}
    OBVIOUS
  <2>2. Reached("transport")
    BY DEF Key
  <2> QED
    BY <1>2, <2>1, <2>2, KeyTaken, StageOrder
<1>4. /\ GridDispType' /\ GridCacheType'
      /\ gridDisp'.header = GridHeader(gridUi') /\ gridCache'.header = GridHeader(gridUi')
      /\ gridDisp'.boxes = gridDisp.boxes /\ gridDisp'.from = gridDisp.from
      /\ gridDisp'.of = gridDisp.of /\ gridDisp'.mode = gridDisp.mode
      /\ gridDisp'.text = gridDisp.text /\ gridDisp'.side = gridDisp.side
      /\ gridCache'.pattern = gridCache.pattern /\ gridCache'.digits = gridCache.digits
      /\ gridCache'.position = gridCache.position /\ gridCache'.step = gridCache.step
  BY HeaderDrawn
<1>5. HeaderInv'
  BY <1>2, <1>4 DEF HeaderInv
<1>6. PatternInv'
  BY <1>2, <1>3, <1>4 DEF PatternInv, TakenUp, OnMainGrid, Early
<1>7. BoxesInv'
  BY <1>2, <1>3, <1>4 DEF BoxesInv, TakenUp, OnMainGrid, Live, HasNotes
<1>8. DigitsInv'
  <2>1. CASE gridUi'.seen = <<>>
    <3>1. <<>> # Position'
      BY DEF Position
    <3> QED
      BY <2>1, <3>1, <1>4 DEF DigitsInv
  <2>2. CASE gridUi'.seen # <<>>
    <3>1. gridUi'.seen = gridUi.seen /\ gridUi.seen # <<>> /\ eng'.ms = eng.ms
      BY <2>2
    <3>2. \/ Position' = Position /\ eng'.bar = eng.bar /\ eng'.step = eng.step
          \/ eng'.bar = 1 /\ eng'.step = 1
      BY DEF Position
    <3>3. gridUi.seen = Position' =>
            gridUi.seen = Position /\ eng'.bar = eng.bar /\ eng'.step = eng.step
      <4>1. Position = <<eng.pattern, eng.bar, eng.step>>
            /\ Position' = <<eng.pattern, eng'.bar, eng'.step>>
        BY DEF Position
      <4>2. gridUi.seen = Position \/ (eng.bar = 1 /\ eng.step = 1)
        BY <3>1 DEF DigitsInv
      <4> QED
        BY <3>1, <3>2, <4>1, <4>2
    <3>4. gridUi.seen = Position' \/ (eng'.bar = 1 /\ eng'.step = 1)
      BY <3>1, <3>2 DEF DigitsInv, Position
    <3> QED
      BY <3>1, <3>3, <3>4, <1>4 DEF DigitsInv
  <2> QED
    BY <2>1, <2>2
<1>9. LastInv'
  BY <1>3 DEF LastInv
<1>10. TextInv'
  <2>1. SUFFICES ASSUME used'.sleeps = 0, ~used'.late
                 PROVE  TextInv'
    BY DEF TextInv
  <2>2. used.sleeps = 0 /\ ~used.late /\ (gridPass.drawn => ~rewinds)
    BY <1>3, <2>1
  <2>3. gridPass.drawn => Text' = Text
    BY <2>2 DEF Text
  <2>4. ~eng'.playing /\ gridUi'.last = NoBar => ~eng.playing /\ gridUi.last = NoBar
    BY <1>2, <1>3 DEF LastInv
  <2>5. \A f \in {"bar", "step"} :
          IF gridPass'.drawn THEN gridDisp'.text[f] = Text'[f]
          ELSE gridCache'.digits[f] \in {gridDisp'.text[f], NoBar}
    BY <2>2, <2>3, <1>3, <1>4 DEF TextInv
  <2>6. ~eng'.playing /\ gridUi'.last = NoBar =>
         gridDisp'.text.ms = IF gridPass'.drawn THEN eng'.ms ELSE gridCache'.digits.ms
    BY <2>2, <2>4, <1>3, <1>4 DEF TextInv
  <2> QED
    BY <2>5, <2>6 DEF TextInv
<1>11. ~GridAtRest'
  BY <1>3 DEF GridAtRest
<1> QED
  BY <1>3, <1>4, <1>5, <1>6, <1>7, <1>8, <1>9, <1>10, <1>11

LEMMA PlayStopKeeps == GridInv /\ PlayStop => GridInv'
<1> SUFFICES ASSUME GridInv, PlayStop PROVE GridInv'
  OBVIOUS
<1> USE DEF GridInv, GridType
<1>1. PICK r \in BOOLEAN : r <=> gridUi.state = "stop"
  OBVIOUS
<1>2. Key("transport", r) /\ DrawGridHeader(gridUi')
  <2>1. r = (gridUi.state = "stop")
    BY <1>1
  <2> QED
    BY <2>1 DEF PlayStop
<1>3. 1 \in SongBars /\ 1 \in 1 .. LastStep
  BY GridAssumption DEF GridAssumption, SongBars
<1>4. CASE gridUi.state = "stop"
  <2>1. gridUi' = [gridUi EXCEPT !.state = IF gridUi.rec THEN "record" ELSE "play"]
        /\ eng' = IF eng.playing THEN eng
                  ELSE [eng EXCEPT !.playing = TRUE, !.bar = 1, !.step = 1]
    BY <1>4 DEF PlayStop
  <2>2. /\ EngineType' /\ eng'.pattern = eng.pattern /\ eng'.ms = eng.ms
        /\ \/ eng'.bar = eng.bar /\ eng'.step = eng.step
           \/ eng'.bar = 1 /\ eng'.step = 1
    BY <2>1, <1>3 DEF EngineType
  <2>3. GridUiType' /\ gridUi'.seen = gridUi.seen /\ gridUi'.mode = gridUi.mode
        /\ gridUi'.asleep = gridUi.asleep
        /\ gridUi'.selected = gridUi.selected /\ gridUi'.active = gridUi.active
        /\ gridUi'.last = gridUi.last /\ gridUi'.cached = gridUi.cached
        /\ gridUi'.main = gridUi.main /\ gridUi'.flash = gridUi.flash
    BY <2>1 DEF GridUiType, GridHeader, GridHeaders
  <2> QED
    BY <1>1, <1>2, <1>4, <2>2, <2>3, TransportKeeps
<1>5. CASE gridUi.state # "stop"
  <2>1. gridUi' = [gridUi EXCEPT !.state = "stop"] /\ eng' = [eng EXCEPT !.playing = FALSE]
    BY <1>5 DEF PlayStop
  <2>2. /\ EngineType' /\ eng'.pattern = eng.pattern /\ eng'.ms = eng.ms
        /\ eng'.bar = eng.bar /\ eng'.step = eng.step
    BY <2>1 DEF EngineType
  <2>3. GridUiType' /\ gridUi'.seen = gridUi.seen /\ gridUi'.mode = gridUi.mode
        /\ gridUi'.asleep = gridUi.asleep
        /\ gridUi'.selected = gridUi.selected /\ gridUi'.active = gridUi.active
        /\ gridUi'.last = gridUi.last /\ gridUi'.cached = gridUi.cached
        /\ gridUi'.main = gridUi.main /\ gridUi'.flash = gridUi.flash
    BY <2>1 DEF GridUiType, GridHeader, GridHeaders
  <2> QED
    BY <1>2, <2>2, <2>3, TransportKeeps
<1> QED
  BY <1>4, <1>5

LEMMA ResetKeeps == GridInv /\ Reset => GridInv'
<1> SUFFICES ASSUME GridInv, Reset PROVE GridInv'
  OBVIOUS
<1> USE DEF GridInv, GridType
<1>1. Key("transport", TRUE) /\ DrawGridHeader(gridUi')
      /\ gridUi' = [gridUi EXCEPT !.state = "stop", !.rec = FALSE,
                                  !.seen = IF eng.ms = 0 THEN @ ELSE <<>>]
      /\ eng' = [eng EXCEPT !.bar = 1, !.step = 1, !.ms = 0]
  BY DEF Reset
<1>3. 1 \in SongBars /\ 1 \in 1 .. LastStep
  BY GridAssumption DEF GridAssumption, SongBars
<1>4. EngineType' /\ eng'.pattern = eng.pattern /\ eng'.ms = 0 /\ eng'.bar = 1 /\ eng'.step = 1
  BY <1>1, <1>3 DEF EngineType
<1>5. GridUiType' /\ gridUi'.seen = (IF eng.ms = 0 THEN gridUi.seen ELSE <<>>)
      /\ gridUi'.mode = gridUi.mode /\ gridUi'.asleep = gridUi.asleep
      /\ gridUi'.selected = gridUi.selected /\ gridUi'.active = gridUi.active
      /\ gridUi'.last = gridUi.last /\ gridUi'.cached = gridUi.cached
      /\ gridUi'.main = gridUi.main /\ gridUi'.flash = gridUi.flash
  BY <1>1 DEF GridUiType, GridHeader, GridHeaders
<1> QED
  BY <1>1, <1>4, <1>5, TransportKeeps

LEMMA RecordKeeps == GridInv /\ (RecArm \/ RecClear) => GridInv'
<1> SUFFICES ASSUME GridInv, RecArm \/ RecClear PROVE GridInv'
  OBVIOUS
<1> USE DEF GridInv, GridType
<1>1. Key("transport", FALSE) /\ DrawGridHeader(gridUi') /\ eng' = eng
  BY DEF RecArm, RecClear
<1>2. PICK r \in BOOLEAN : gridUi' = [gridUi EXCEPT !.rec = r]
  <2>1. gridUi.rec \in BOOLEAN
    BY DEF GridUiType, GridHeader, GridHeaders
  <2> QED
    BY <2>1 DEF RecArm, RecClear
<1>3. GridUiType' /\ gridUi'.seen = gridUi.seen
      /\ gridUi'.mode = gridUi.mode /\ gridUi'.asleep = gridUi.asleep
      /\ gridUi'.selected = gridUi.selected /\ gridUi'.active = gridUi.active
      /\ gridUi'.last = gridUi.last /\ gridUi'.cached = gridUi.cached
      /\ gridUi'.main = gridUi.main /\ gridUi'.flash = gridUi.flash
  BY <1>2 DEF GridUiType, GridHeader, GridHeaders
<1>4. EngineType'
  BY <1>1 DEF EngineType
<1> QED
  BY <1>1, <1>3, <1>4, TransportKeeps

LEMMA SelectPatternKeeps == GridInv /\ SelectPattern => GridInv'
<1> SUFFICES ASSUME GridInv, SelectPattern PROVE GridInv'
  OBVIOUS
<1> USE DEF GridInv, GridType
<1>1. /\ Key("matrix", FALSE) /\ gridUi' = [gridUi EXCEPT !.seen = <<>>]
      /\ UNCHANGED <<gridDisp, gridCache>>
  BY DEF SelectPattern
<1>2. PICK p \in Patterns \ {eng.pattern} : eng' = [eng EXCEPT !.pattern = p]
  BY DEF SelectPattern
<1>3. /\ EngineType' /\ eng'.pattern # eng.pattern /\ eng'.playing = eng.playing
      /\ eng'.bar = eng.bar /\ eng'.step = eng.step /\ eng'.ms = eng.ms
  BY <1>2 DEF EngineType
<1>4. GridUiType' /\ gridUi' = [mode |-> gridUi.mode, asleep |-> gridUi.asleep,
               selected |-> gridUi.selected,
               active |-> gridUi.active, last |-> gridUi.last, cached |-> gridUi.cached,
               main |-> gridUi.main, state |-> gridUi.state, rec |-> gridUi.rec,
               flash |-> gridUi.flash, seen |-> <<>>]
  BY <1>1 DEF GridUiType, GridHeader
<1>5. /\ PassType' /\ OnMainGrid /\ UNCHANGED <<notes, typed, loops, ctx>>
      /\ gridPass.stage \in Early
      /\ gridPass'.drawn = gridPass.drawn /\ gridPass'.stage = "encoder"
      /\ used'.sleeps = used.sleeps /\ (used'.late <=> used.late)
  <2>1. "matrix" \in {"tap", "transport", "matrix", "encoder"} /\ FALSE \in BOOLEAN
        /\ gridUi'.asleep = gridUi.asleep
    BY <1>4
  <2>2. Reached("matrix")
    BY <1>1 DEF Key
  <2> QED
    BY <1>1, <2>1, <2>2, KeyTaken, StageOrder
<1>6. GridDispType' /\ GridCacheType'
  BY <1>1 DEF GridDispType, GridCacheType
<1>7. ~TakenUp'
  BY <1>3, <1>4, <1>5 DEF PatternInv, TakenUp
<1>8. HeaderInv'
  BY <1>1, <1>4 DEF HeaderInv, GridHeader
<1>9. PatternInv'
  BY <1>5, <1>7 DEF PatternInv, Early
<1>10. BoxesInv'
  BY <1>1, <1>4, <1>7 DEF BoxesInv, OnMainGrid
<1>11. DigitsInv'
  <2>1. <<>> # Position'
    BY DEF Position
  <2> QED
    BY <2>1, <1>1, <1>4 DEF DigitsInv
<1>12. LastInv'
  BY <1>5 DEF LastInv
<1>13. TextInv'
  <2>1. Text'["bar"] = Text["bar"] /\ Text'["step"] = Text["step"]
    BY <1>3 DEF Text
  <2> QED
    BY <2>1, <1>1, <1>3, <1>4, <1>5 DEF TextInv, OnMainGrid
<1>14. ~GridAtRest'
  BY <1>5 DEF GridAtRest
<1> QED
  BY <1>3, <1>4, <1>5, <1>6, <1>8, <1>9, <1>10, <1>11, <1>12, <1>13, <1>14

LEMMA LeaveGridKeeps == GridInv /\ LeaveGrid => GridInv'
<1> SUFFICES ASSUME GridInv, LeaveGrid PROVE GridInv'
  OBVIOUS
<1> USE DEF GridInv, GridType
<1>1. PICK stage \in {"matrix", "encoder"}, b \in SongBars :
        /\ Reached(stage)
        /\ gridUi' = [gridUi EXCEPT !.mode = "away", !.selected = b]
        /\ gridPass' = [gridPass EXCEPT !.stage = After(stage)]
  BY DEF LeaveGrid
<1>2. used' = [used EXCEPT !.away = @ + 1]
      /\ UNCHANGED <<eng, notes, typed, loops, ctx, gridDisp, gridCache>>
  BY DEF LeaveGrid, gridSong
<1>3. GridUiType' /\ gridUi' = [mode |-> "away", asleep |-> gridUi.asleep,
               selected |-> b,
               active |-> gridUi.active, last |-> gridUi.last, cached |-> gridUi.cached,
               main |-> gridUi.main, state |-> gridUi.state, rec |-> gridUi.rec,
               flash |-> gridUi.flash, seen |-> gridUi.seen]
  BY <1>1 DEF GridUiType, GridHeader
<1>4. gridPass'.stage \in {"encoder", "boxes"} /\ gridPass.stage \in Early \cup {"encoder"}
      /\ (gridPass'.stage = "encoder" => gridPass.stage \in Early)
      /\ gridPass' \in [stage : {"rest", "tap", "transport", "matrix", "encoder", "boxes", "row"},
                        drawn : BOOLEAN, done : {"nothing", "boxes", "row"}]
  BY <1>1, StageOrder DEF PassType
<1>5. PassType'
  <2>1. used' \in [inputs : Nat, away : Nat, sleeps : Nat, late : BOOLEAN]
    BY <1>2 DEF PassType
  <2>2. ~gridUi.asleep
    BY <1>4 DEF PassType, Early
  <2> QED
    BY <2>1, <2>2, <1>3, <1>4 DEF PassType
<1>6. EngineType' /\ GridDispType' /\ GridCacheType'
  BY <1>2 DEF EngineType, GridDispType, GridCacheType
<1>7. HeaderInv'
  BY <1>2, <1>3 DEF HeaderInv, GridHeader
<1>8. ~OnMainGrid'
  BY <1>3 DEF OnMainGrid
<1>9. PatternInv' /\ BoxesInv' /\ LastInv' /\ TextInv'
  BY <1>4, <1>8 DEF PatternInv, BoxesInv, LastInv, TextInv, Early
<1>10. DigitsInv'
  BY <1>2, <1>3 DEF DigitsInv, Position
<1>11. ~GridAtRest'
  BY <1>8 DEF GridAtRest
<1> QED
  BY <1>3, <1>5, <1>6, <1>7, <1>9, <1>10, <1>11

LEMMA ReturnToGridKeeps == GridInv /\ ReturnToGrid => GridInv'
<1> SUFFICES ASSUME GridInv, ReturnToGrid PROVE GridInv'
  OBVIOUS
<1> USE DEF GridInv, GridType
<1>1. PICK stage \in {"transport", "matrix", "encoder"} :
        Reached(stage) /\ gridPass' = [gridPass EXCEPT !.stage = After(stage), !.drawn = TRUE]
  BY DEF ReturnToGrid
<1>2. PICK m : gridUi' = [gridUi EXCEPT !.mode = "grid", !.main = m]
  BY DEF ReturnToGrid
<1>3. UNCHANGED <<eng, used>> /\ OnDraw(gridUi') /\ ctx'.of = eng.pattern
  BY DEF ReturnToGrid, SetGridContext
<1>4. GridUiType' /\ gridUi' = [mode |-> "grid", asleep |-> gridUi.asleep,
               selected |-> gridUi.selected,
               active |-> gridUi.active, last |-> gridUi.last, cached |-> gridUi.cached,
               main |-> m, state |-> gridUi.state, rec |-> gridUi.rec,
               flash |-> gridUi.flash, seen |-> gridUi.seen]
  BY <1>2 DEF GridUiType, GridHeader
<1>5. gridPass'.stage \in {"matrix", "encoder", "boxes"} /\ gridPass'.drawn = TRUE
      /\ (gridPass'.stage = "matrix" => gridPass.stage \in Early)
      /\ gridPass.stage # "rest"
      /\ gridPass' \in [stage : {"rest", "tap", "transport", "matrix", "encoder", "boxes", "row"},
                        drawn : BOOLEAN, done : {"nothing", "boxes", "row"}]
  BY <1>1, StageOrder DEF PassType, Early
<1>6. PassType'
  <2>1. ~gridUi.asleep
    BY <1>5 DEF PassType
  <2> QED
    BY <2>1, <1>3, <1>4, <1>5 DEF PassType
<1>7. /\ GridDispType' /\ GridCacheType'
      /\ gridDisp'.from = "context" /\ gridDisp'.of = ctx'.of
      /\ gridDisp'.header = GridHeader(gridUi') /\ gridDisp'.mode = gridUi'.main
      /\ gridDisp'.text = Text /\ gridDisp'.side = eng.pattern
      /\ gridCache'.header = GridHeader(gridUi') /\ gridCache'.pattern = eng.pattern
      /\ gridCache'.digits = gridCache.digits /\ gridCache'.position = gridCache.position
      /\ gridCache'.step = NoBar
  BY <1>3, OnDrawDraws
<1>8. EngineType' /\ Text' = Text /\ Position' = Position /\ eng'.pattern = eng.pattern
  BY <1>3 DEF EngineType, Text, Position
<1>9. HeaderInv'
  BY <1>7, <1>8, TextShape DEF HeaderInv
<1>10. PatternInv'
  BY <1>3, <1>4, <1>5, <1>7, <1>8 DEF PatternInv, TakenUp, Early
<1>11. BoxesInv'
  BY <1>7 DEF BoxesInv
<1>12. DigitsInv'
  <2>1. gridUi'.seen = gridUi.seen /\ eng' = eng
    BY <1>3, <1>4
  <2> QED
    BY <2>1, <1>7, <1>8 DEF DigitsInv
<1>13. LastInv' /\ ~GridAtRest'
  BY <1>5 DEF LastInv, GridAtRest
<1>14. TextInv'
  BY <1>3, <1>5, <1>7, <1>8, TextShape DEF TextInv
<1> QED
  BY <1>4, <1>6, <1>7, <1>8, <1>9, <1>10, <1>11, <1>12, <1>13, <1>14

LEMMA DrawBoxesKeeps == GridInv /\ DrawBoxes => GridInv'
<1> SUFFICES ASSUME GridInv, DrawBoxes PROVE GridInv'
  OBVIOUS
<1> USE DEF GridInv, GridType
<1>1. UNCHANGED <<eng, notes, typed, loops, ctx, used>> /\ gridPass.stage # "rest"
  <2>1. gridPass.stage \in {Order[i] : i \in 1 .. 5}
    BY DEF DrawBoxes
  <2>2. /\ Order[1] = "tap" /\ Order[2] = "transport" /\ Order[3] = "matrix"
        /\ Order[4] = "encoder" /\ Order[5] = "boxes"
    BY DEF Order
  <2>3. \A i \in 1 .. 5 : i = 1 \/ i = 2 \/ i = 3 \/ i = 4 \/ i = 5
    OBVIOUS
  <2> QED
    BY <2>1, <2>2, <2>3 DEF DrawBoxes, gridSong
<1>2. EngineType' /\ Text' = Text /\ Position' = Position /\ eng'.pattern = eng.pattern
      /\ ~gridUi.asleep
  BY <1>1 DEF EngineType, Text, Position, PassType
<1>3. CASE OnMainGrid
  <2>1. PICK due \in BOOLEAN :
          LET repeats == ActiveBar # NoBar /\ <<gridUi.cached, ActiveBar>> \in loops
              u == [gridUi EXCEPT !.active = ActiveBar, !.last = ActiveBar,
                                  !.flash = Flash(repeats, due)]
          IN /\ gridUi' = u
             /\ IF OutOfDate(u) THEN RedrawGridComposed(u)
                                ELSE UNCHANGED <<gridDisp, gridCache>>
             /\ gridPass' = [gridPass EXCEPT !.stage = "row", !.drawn = @ \/ OutOfDate(u),
                                            !.done = "boxes"]
    BY <1>3 DEF DrawBoxes
  <2>2. PICK flash : flash = Flash(ActiveBar # NoBar /\ <<gridUi.cached, ActiveBar>> \in loops, due)
    OBVIOUS
  <2>3. PICK u : u = [gridUi EXCEPT !.active = ActiveBar, !.last = ActiveBar, !.flash = flash]
    OBVIOUS
  <2>4. PICK stale \in BOOLEAN : stale <=> OutOfDate(u)
    OBVIOUS
  <2>5. /\ gridUi' = u
        /\ IF stale THEN RedrawGridComposed(u) ELSE UNCHANGED <<gridDisp, gridCache>>
        /\ gridPass' = [gridPass EXCEPT !.stage = "row", !.drawn = gridPass.drawn \/ stale,
                        !.done = "boxes"]
    <3>1. OutOfDate(u) = stale
      BY <2>4 DEF OutOfDate
    <3> QED
      BY <2>1, <2>2, <2>3, <3>1
  <2>6. u = [mode |-> gridUi.mode, asleep |-> gridUi.asleep,
               selected |-> gridUi.selected,
               active |-> ActiveBar, last |-> ActiveBar, cached |-> gridUi.cached,
               main |-> gridUi.main, state |-> gridUi.state, rec |-> gridUi.rec,
               flash |-> flash, seen |-> gridUi.seen]
    BY <2>3 DEF GridUiType
  <2>7. GridUiType' /\ GridHeader(u) = GridHeader(gridUi) /\ (OnMainGrid' <=> OnMainGrid)
        /\ (TakenUp' <=> TakenUp)
    BY <2>5, <2>6, <1>2 DEF GridUiType, GridHeader, OnMainGrid, TakenUp
  <2>8. gridPass'.stage = "row" /\ (gridPass'.drawn <=> gridPass.drawn \/ stale) /\ PassType'
    <3>1. PICK d \in BOOLEAN : d = (gridPass.drawn \/ stale)
      OBVIOUS
    <3>2. gridPass' = [gridPass EXCEPT !.stage = "row", !.drawn = d, !.done = "boxes"]
      BY <2>5, <3>1
    <3>3. gridPass' \in [stage : {"rest", "tap", "transport", "matrix", "encoder", "boxes", "row"},
                         drawn : BOOLEAN, done : {"nothing", "boxes", "row"}]
          /\ gridPass'.stage = "row" /\ gridPass'.drawn = d
      BY <3>2 DEF PassType
    <3> QED
      BY <3>1, <3>3, <1>1, <1>2, <2>5, <2>6 DEF PassType
  <2>9. ActiveBar' = ActiveBar /\ (ActiveBar = NoBar <=> ~eng.playing)
    BY <1>1, TextShape DEF ActiveBar
  <2>10. LastInv' /\ ~GridAtRest'
    BY <2>5, <2>6, <2>8, <2>9, <1>1 DEF LastInv, GridAtRest
  <2>11. CASE stale
    <3>1. PICK c : c = Live(u)
      OBVIOUS
    <3>2. DrawComposed(c, u, "variables", gridCache)
      BY <2>5, <2>11, <3>1 DEF RedrawGridComposed
    <3>3. gridCache = [gridCache EXCEPT !.step = gridCache.step]
      BY DEF GridCacheType
    <3>4. /\ GridDispType' /\ GridCacheType'
          /\ gridDisp'.boxes = Boxes(c, u.flash) /\ gridDisp'.from = "variables"
          /\ gridDisp'.of = c.of
          /\ gridDisp'.header = GridHeader(u) /\ gridDisp'.mode = u.main
          /\ gridDisp'.text = Text /\ gridDisp'.side = eng.pattern
          /\ gridCache'.header = GridHeader(u) /\ gridCache'.pattern = eng.pattern
          /\ gridCache'.digits = gridCache.digits /\ gridCache'.position = gridCache.position
          /\ gridCache'.step = gridCache.step
      <4>1. "variables" \in {"context", "variables"} /\ gridCache.step \in {NoBar, gridCache.step}
        OBVIOUS
      <4> QED
        BY <3>2, <3>3, <4>1, GridDrawn
    <3>5. HeaderInv'
      BY <3>4, <2>5, TextShape DEF HeaderInv
    <3>6. PatternInv'
      BY <3>1, <3>4, <1>1, <1>2, <1>3, <2>7, <2>8 DEF PatternInv, Early, Live
    <3>7. BoxesInv'
      <4>1. Live(gridUi)' = c
        BY <3>1, <1>1, <2>5, <2>6 DEF Live, HasNotes
      <4> QED
        BY <4>1, <3>4, <2>5, <2>6 DEF BoxesInv
    <3>8. DigitsInv'
      <4>1. gridUi'.seen = gridUi.seen /\ eng' = eng
        BY <1>1, <2>5, <2>6
      <4> QED
        BY <4>1, <1>2, <3>4 DEF DigitsInv
    <3>9. TextInv'
      BY <1>1, <1>2, <2>8, <2>11, <3>4, TextShape DEF TextInv
    <3> QED
      BY <1>2, <2>7, <2>8, <2>10, <3>4, <3>5, <3>6, <3>7, <3>8, <3>9
  <2>12. CASE ~stale
    <3>1. UNCHANGED <<gridDisp, gridCache>> /\ flash = gridUi.flash /\ ActiveBar = gridUi.last
      BY <2>4, <2>5, <2>6, <2>12 DEF OutOfDate
    <3>2. GridDispType' /\ GridCacheType'
      BY <3>1 DEF GridDispType, GridCacheType
    <3>3. HeaderInv'
      BY <3>1, <2>5, <2>6, <2>7 DEF HeaderInv
    <3>4. PatternInv'
      BY <3>1, <1>1, <1>2, <1>3, <2>7, <2>8 DEF PatternInv, Early
    <3>5. BoxesInv'
      <4>1. CASE gridDisp.from = "variables"
        <5>1. gridUi.active = gridUi.last
          BY <4>1, <1>3 DEF BoxesInv
        <5>2. gridUi' = gridUi
          BY <5>1, <3>1, <2>5, <2>6 DEF GridUiType
        <5> QED
          BY <5>2, <3>1, <1>1 DEF BoxesInv, TakenUp, OnMainGrid, Live, HasNotes
      <4>2. CASE gridDisp.from # "variables"
        BY <4>2, <3>1 DEF BoxesInv
      <4> QED
        BY <4>1, <4>2
    <3>6. DigitsInv'
      BY <1>1, <1>2, <2>5, <2>6, <3>1 DEF DigitsInv
    <3>7. TextInv'
      BY <1>1, <1>2, <1>3, <2>5, <2>6, <2>8, <2>12, <3>1 DEF TextInv
    <3> QED
      BY <1>2, <2>7, <2>8, <2>10, <3>2, <3>3, <3>4, <3>5, <3>6, <3>7
  <2> QED
    BY <2>11, <2>12
<1>4. CASE ~OnMainGrid
  <2>1. /\ gridUi' = [gridUi EXCEPT !.active = ActiveBar]
        /\ gridPass' = [gridPass EXCEPT !.stage = "row", !.done = "boxes"]
        /\ UNCHANGED <<gridDisp, gridCache>>
    BY <1>4 DEF DrawBoxes
  <2>2. GridUiType' /\ gridUi' = [mode |-> gridUi.mode, asleep |-> gridUi.asleep,
               selected |-> gridUi.selected,
               active |-> ActiveBar, last |-> gridUi.last, cached |-> gridUi.cached,
               main |-> gridUi.main, state |-> gridUi.state, rec |-> gridUi.rec,
               flash |-> gridUi.flash, seen |-> gridUi.seen]
    BY <2>1 DEF GridUiType, GridHeader
  <2>3. PassType' /\ gridPass'.stage = "row"
    <3>1. gridPass' \in [stage : {"rest", "tap", "transport", "matrix", "encoder", "boxes", "row"},
                         drawn : BOOLEAN, done : {"nothing", "boxes", "row"}]
          /\ gridPass'.stage = "row"
      BY <2>1 DEF PassType
    <3> QED
      BY <3>1, <1>1, <1>2, <2>2 DEF PassType
  <2>4. GridDispType' /\ GridCacheType'
    BY <2>1 DEF GridDispType, GridCacheType
  <2>5. HeaderInv'
    BY <2>1, <2>2 DEF HeaderInv, GridHeader
  <2>6. ~OnMainGrid'
    BY <1>4, <2>2 DEF OnMainGrid
  <2>7. PatternInv' /\ BoxesInv' /\ LastInv' /\ TextInv' /\ ~GridAtRest'
    BY <2>3, <2>6 DEF PatternInv, BoxesInv, LastInv, TextInv, GridAtRest, Early
  <2>8. DigitsInv'
    BY <1>1, <1>2, <2>1, <2>2 DEF DigitsInv
  <2> QED
    BY <1>2, <2>2, <2>3, <2>4, <2>5, <2>7, <2>8
<1> QED
  BY <1>3, <1>4

LEMMA UpdateStatusRowKeeps == GridInv /\ UpdateStatusRow => GridInv'
<1> SUFFICES ASSUME GridInv, UpdateStatusRow PROVE GridInv'
  OBVIOUS
<1> USE DEF GridInv, GridType
<1>1. PICK due \in BOOLEAN :
       /\ gridPass.drawn => due
       /\ IF due /\ OnMainGrid /\ gridUi.seen # Position
          THEN gridUi' = [gridUi EXCEPT !.seen = Position] /\ DrawStatusRow(gridUi')
          ELSE UNCHANGED <<gridUi, gridDisp, gridCache>>
       /\ gridPass' = [stage |-> "rest", drawn |-> FALSE,
                       done |-> IF due /\ OnMainGrid THEN "row" ELSE "boxes"]
  BY DEF UpdateStatusRow
<1>2. UNCHANGED <<eng, notes, typed, loops, ctx, used>> /\ gridPass.stage = "row"
      /\ gridPass'.stage = "rest" /\ gridPass'.drawn = FALSE
      /\ (gridPass'.done = "row" <=> due /\ OnMainGrid)
  BY <1>1 DEF UpdateStatusRow, gridSong
<1>3. EngineType' /\ Text' = Text /\ Position' = Position /\ eng'.pattern = eng.pattern
      /\ ~gridUi.asleep
  BY <1>2 DEF EngineType, Text, Position, PassType
<1>4. ASSUME gridUi'.asleep = gridUi.asleep
      PROVE  PassType'
  BY <1>1, <1>2, <1>3, <1>4 DEF PassType
<1>5. OnMainGrid => (eng.playing <=> gridUi.last # NoBar)
  BY <1>2 DEF LastInv
<1>6. CASE due /\ OnMainGrid /\ gridUi.seen # Position
  <2>1. gridUi' = [gridUi EXCEPT !.seen = Position] /\ DrawStatusRow(gridUi')
    BY <1>1, <1>6
  <2>2. PICK u : u = gridUi'
    OBVIOUS
  <2>3. GridUiType' /\ gridUi' = [mode |-> gridUi.mode, asleep |-> gridUi.asleep,
               selected |-> gridUi.selected,
               active |-> gridUi.active, last |-> gridUi.last, cached |-> gridUi.cached,
               main |-> gridUi.main, state |-> gridUi.state, rec |-> gridUi.rec,
               flash |-> gridUi.flash, seen |-> Position]
    BY <2>1 DEF GridUiType, GridHeader
  <2>4. u.main = gridUi.main /\ u.main = gridUi'.main
    BY <2>2, <2>3
  <2>5. /\ GridDispType' /\ GridCacheType'
        /\ gridDisp'.boxes = gridDisp.boxes /\ gridDisp'.from = gridDisp.from
        /\ gridDisp'.of = gridDisp.of /\ gridDisp'.header = gridDisp.header
        /\ gridDisp'.mode = u.main /\ gridDisp'.side = eng.pattern
        /\ gridCache'.header = gridCache.header
        /\ gridCache'.pattern = eng.pattern /\ gridDisp'.text.total = eng.pattern
        /\ gridCache'.digits = [bar |-> eng.bar, step |-> eng.step, ms |-> eng.ms]
        /\ gridCache'.position = eng.bar /\ gridCache'.step = eng.step
        /\ used.sleeps = 0 /\ ~used.late =>
             /\ gridDisp'.text.bar = eng.bar /\ gridDisp'.text.step = eng.step
             /\ ~eng.playing /\ gridUi.last = NoBar => gridDisp'.text.ms = eng.ms
    <3>1. DrawStatusRow(u)
      BY <2>1, <2>2
    <3> QED
      BY <3>1, <2>4, <1>6, RowDrawn
  <2>6. PassType'
    BY <1>4, <2>3
  <2>7. HeaderInv'
    BY <2>3, <2>4, <2>5, <1>3 DEF HeaderInv, GridHeader
  <2>8. PatternInv'
    BY <1>2, <1>3, <1>6, <2>3, <2>5 DEF PatternInv, TakenUp, Early
  <2>9. BoxesInv'
    BY <1>2, <1>6, <2>3, <2>5 DEF BoxesInv, TakenUp, Live, HasNotes
  <2>10. DigitsInv'
    BY <1>2, <1>3, <2>3, <2>5 DEF DigitsInv
  <2>11. LastInv'
    BY <1>2, <1>5, <1>6, <2>3 DEF LastInv
  <2>12. TextInv'
    BY <1>2, <1>3, <2>3, <2>5 DEF TextInv
  <2>13. GridAtRest' => StatusShowsPosition'
    <3>1. SUFFICES ASSUME used.sleeps = 0, ~used.late
                   PROVE  \A f \in {"bar", "step", "total"} \cup FieldIf("ms", ~eng.playing) :
                            gridDisp'.text[f] = Text[f]
      BY <1>2, <1>3 DEF StatusShowsPosition
    <3> QED
      BY <3>1, <1>5, <1>6, <2>5, TextShape DEF FieldIf
  <2> QED
    BY <1>3, <2>3, <2>5, <2>6, <2>7, <2>8, <2>9, <2>10, <2>11, <2>12, <2>13
<1>7. CASE ~(due /\ OnMainGrid /\ gridUi.seen # Position)
  <2>1. UNCHANGED <<gridUi, gridDisp, gridCache>>
    BY <1>1, <1>7
  <2>2. GridUiType' /\ GridDispType' /\ GridCacheType' /\ PassType'
    BY <2>1, <1>4 DEF GridUiType, GridDispType, GridCacheType, GridHeader
  <2>3. (OnMainGrid' <=> OnMainGrid) /\ (TakenUp' <=> TakenUp)
    BY <2>1, <1>2 DEF OnMainGrid, TakenUp
  <2>4. HeaderInv' /\ DigitsInv'
    BY <2>1, <1>2, <1>3 DEF HeaderInv, DigitsInv, GridHeader
  <2>5. PatternInv' /\ BoxesInv'
    BY <2>1, <2>3, <1>2, <1>3 DEF PatternInv, BoxesInv, Live, HasNotes, Early
  <2>6. LastInv'
    BY <2>1, <2>3, <1>2, <1>5 DEF LastInv
  <2>7. due /\ OnMainGrid =>
          /\ gridCache.pattern = eng.pattern /\ gridCache.digits.ms = eng.ms
          /\ gridCache.digits.bar = eng.bar /\ gridCache.digits.step = eng.step
    <3>1. Position # <<>>
      BY DEF Position
    <3> QED
      BY <3>1, <1>7 DEF DigitsInv
  <2>8. used.sleeps = 0 /\ ~used.late /\ due /\ OnMainGrid =>
          /\ gridDisp.text["bar"] = eng.bar /\ gridDisp.text["step"] = eng.step
          /\ ~eng.playing => gridDisp.text["ms"] = eng.ms
          /\ gridDisp.text["total"] = eng.pattern
    <3>1. Text["bar"] = eng.bar /\ Text["step"] = eng.step
          /\ eng.bar # NoBar /\ eng.step # NoBar
      BY TextShape
    <3>2. gridDisp.text["total"] = gridCache.pattern
      BY DEF HeaderInv
    <3>3. used.sleeps = 0 /\ ~used.late /\ due /\ OnMainGrid =>
          /\ gridDisp.text["bar"] = eng.bar /\ gridDisp.text["step"] = eng.step
      BY <2>7, <3>1 DEF TextInv
    <3>4. used.sleeps = 0 /\ ~used.late /\ due /\ OnMainGrid /\ ~eng.playing
            => gridDisp.text["ms"] = eng.ms
      BY <2>7, <1>5 DEF TextInv
    <3> QED
      BY <2>7, <3>2, <3>3, <3>4
  <2>9. TextInv'
    <3>1. SUFFICES ASSUME OnMainGrid, used.sleeps = 0, ~used.late
                   PROVE  TextInv'
      BY <1>2, <2>3 DEF TextInv
    <3>2. CASE due
      BY <3>1, <3>2, <1>2, <2>1, <2>7, <2>8 DEF TextInv
    <3>3. CASE ~due
      BY <3>1, <3>3, <1>1, <1>2, <2>1 DEF TextInv
    <3> QED
      BY <3>2, <3>3
  <2>10. GridAtRest' => StatusShowsPosition'
    <3>1. SUFFICES ASSUME used.sleeps = 0, ~used.late, due, OnMainGrid
                   PROVE  \A f \in {"bar", "step", "total"} \cup FieldIf("ms", ~eng.playing) :
                            gridDisp'.text[f] = Text[f]
      BY <1>2, <1>3 DEF StatusShowsPosition
    <3> QED
      BY <3>1, <2>1, <2>8, TextShape DEF FieldIf
  <2> QED
    BY <1>3, <2>2, <2>4, <2>5, <2>6, <2>9, <2>10
<1> QED
  BY <1>6, <1>7

LEMMA GridKeeps == GridInv /\ [GridNext]_gridVars => GridInv'
<1> SUFFICES ASSUME GridInv, [GridNext]_gridVars PROVE GridInv'
  OBVIOUS
<1>1. CASE UNCHANGED gridVars
  BY <1>1 DEF gridVars, gridSong, GridInv, GridType, EngineType, GridUiType, GridDispType,
     GridCacheType, PassType, HeaderInv, PatternInv, BoxesInv, DigitsInv, LastInv, TextInv,
     GridAtRest, StatusShowsPosition, GridHeader, TakenUp, OnMainGrid, Live, HasNotes, Position,
     Text
<1>2. CASE GridNext
  BY <1>2, StepKeeps, TickKeeps, BeginPassKeeps, GridSleepKeeps, GridWakeKeeps, ShiftTapKeeps,
     PlayStopKeeps, ResetKeeps, RecordKeeps, SelectPatternKeeps, LeaveGridKeeps,
     ReturnToGridKeeps, DrawBoxesKeeps, UpdateStatusRowKeeps DEF GridNext
<1> QED
  BY <1>1, <1>2

(* However a song plays, and whatever keys come in the passes that draw it, the boxes, the
   status row, the header and the sidebar say what the variables of the grid say: the
   three ways of drawing them leave nothing false behind for one another, but for the
   digits after the screensaver and after a rewinding in a pass that has drawn
   (ui_sequencer.c:4331-4475, ui_display.c:1108-1250). *)
THEOREM GridStaysTrue == GridSpec => []GridIsTrue
<1>1. GridInv => GridIsTrue
  <2> SUFFICES ASSUME GridInv PROVE GridIsTrue
    OBVIOUS
  <2>1. LiveGridIsTrue
    BY DEF GridInv, BoxesInv, LiveGridIsTrue, GridAtRest, TakenUp
  <2>2. StatusShowsPosition
    BY DEF GridInv, StatusShowsPosition
  <2>3. GridShowsPattern
    BY DEF GridInv, PatternInv, HeaderInv, GridShowsPattern, GridAtRest, TakenUp
  <2> QED
    BY <2>1, <2>2, <2>3 DEF GridIsTrue
<1> QED
  BY <1>1, GridStarts, GridKeeps, PTL DEF GridSpec

-----------------------------------------------------------------------------
(* The menus *)

Outside == {"grid", "bars"}

MenuUiType ==
  menuUi \in [screen : Menus \cup Outside, back : Outside, asleep : BOOLEAN, cursor : Nat,
              field : {"source", "target"}, rejected : BOOLEAN,
              question : {"none", "no", "yes"}, blink : BOOLEAN]

SongType == song \in [chain : Seq(Values), playing : BOOLEAN, slot : Nat, repeat : Nat]

(* What MenuShowsDraft says of a row; its sign is part of the caches' business. *)
RowIsTrue(row, r) ==
  /\ row = [label |-> row.label, value |-> row.value, lit |-> row.lit, mark |-> row.mark]
  /\ row.label \in {menuUi.screen, "box", "black"}
  /\ row.mark \notin {"box", "black"} =>
       row.value = MenuRow(r).value /\ row.lit = MenuRow(r).lit

MenuShown ==
  menuUi.screen \in Menus =>
    /\ DOMAIN menuDisp.rows = MenuRows(menuUi.screen)
    /\ \A r \in MenuRows(menuUi.screen) : RowIsTrue(menuDisp.rows[r], r)
    /\ menuDisp = [rows |-> menuDisp.rows, header |-> menuDisp.header]
    /\ menuDisp.header \in {menuCache.header, NoHeader("black")}

(* The caches of a list are the values it is edited with. *)
ListInv ==
  menuUi.screen \in Lists =>
    /\ menuUi.cursor \in MenuRows(menuUi.screen)
    /\ draft \in [MenuRows(menuUi.screen) -> Contents(menuUi.screen)]
    /\ menuCache = [Forgotten(FrameOf(menuUi.screen)) EXCEPT
         !.header = MenuHeader, !.cursor = menuUi.cursor, !.values = draft,
         !.field = menuUi.field, !.unsaved = draft # saved]
    /\ \A r \in MenuRows(menuUi.screen) :
         menuDisp.rows[r].mark \in {"box", "black", MenuRow(r).mark}

(* Those of the song are the chain, but for the place the engine has gone on to; no slot
   is outlined but the one they name. *)
PageShown ==
  [r \in MenuRows("song") |-> IF BaseOf(menuUi.cursor) + r < Len(song.chain)
                              THEN song.chain[BaseOf(menuUi.cursor) + r + 1] ELSE NoCursor]

SongInv ==
  menuUi.screen = "song" =>
    /\ menuUi.cursor < Len(song.chain)
    /\ menuCache = [Forgotten("song") EXCEPT
         !.header = [MenuHeader EXCEPT !.repeat = menuCache.header.repeat],
         !.base = BaseOf(menuUi.cursor), !.cursor = menuUi.cursor, !.length = Len(song.chain),
         !.slot = menuCache.slot, !.blink = menuUi.blink, !.page = PageShown]
    /\ \A r \in MenuRows("song") :
         menuDisp.rows[r].mark \in {"bright", "dim"} => BaseOf(menuUi.cursor) + r = menuCache.slot

(* Off the menus the frame is another one, so that entering a menu draws all of it. *)
MenuInv ==
  /\ MenuUiType /\ SongType /\ MenuShown /\ ListInv /\ SongInv
  /\ menuUi.screen \in Outside =>
       /\ ~menuUi.asleep
       /\ menuCache.frame = IF menuUi.screen = "grid" THEN "none" ELSE "chord"
  /\ menuUi.rejected => menuUi.screen = "timing"
  /\ menuUi.question # "none" => menuUi.screen \in {"timing", "arp"}

(* The rows of a menu never reach the value that stands for no cursor. *)
LEMMA CursorIsNoRow ==
  ASSUME NEW m \in Lists
  PROVE  /\ MenuRows(m) \subseteq Nat /\ NoCursor \notin MenuRows(m) /\ 0 \in MenuRows(m)
         /\ m # "router" => 1 \in MenuRows(m)
<1>1. /\ TimingRows \in Nat /\ TimingRows >= 3 /\ TimingRows <= 255
      /\ RouterRows \in Nat /\ RouterRows >= 1 /\ RouterRows <= 255
  BY MenuAssumption DEF NoCursor
<1>2. CASE m \in {"timing", "quant"}
  BY <1>1, <1>2 DEF MenuRows, NoCursor
<1>3. CASE m = "router"
  BY <1>1, <1>3 DEF MenuRows, NoCursor
<1>4. CASE m = "arp"
  BY <1>4 DEF MenuRows, NoCursor
<1> QED
  BY <1>2, <1>3, <1>4 DEF Lists

(* A list that was not the frame before is drawn from nothing. *)
LEMMA ListDrawnAnew ==
  ASSUME NEW m \in Lists, DrawList(m), menuUi'.screen = m, menuCache.frame # FrameOf(m),
         menuUi'.cursor \in MenuRows(m), draft' \in [MenuRows(m) -> Contents(m)]
  PROVE  MenuShown' /\ ListInv' /\ SongInv'
<1> DEFINE c == Forgotten(FrameOf(m))
<1>1. BeginFrame(FrameOf(m)) = c
  BY DEF BeginFrame
<1>2. c.cursor = NoCursor /\ c.header = NoHeader("none") /\ MenuHeader' # NoHeader("none")
  BY DEF Forgotten, MenuHeader, NoHeader, Lists
<1>3. DrawnHeader(c, MenuHeader') = MenuHeader'
  BY <1>2 DEF DrawnHeader, HeaderOutOfDate
<1>4. menuDisp' = [rows |-> [r \in MenuRows(m) |-> MenuRow(r)'], header |-> MenuHeader']
  BY <1>1, <1>2, <1>3 DEF DrawList
<1>5. menuCache' = [c EXCEPT !.header = MenuHeader', !.cursor = menuUi'.cursor, !.values = draft',
                             !.field = menuUi'.field, !.unsaved = draft' # saved']
  BY <1>1, <1>2 DEF DrawList, Forgotten
<1>6. ASSUME NEW r \in MenuRows(m)
      PROVE  RowIsTrue(menuDisp.rows[r], r)' /\ menuDisp'.rows[r] = MenuRow(r)'
  <2>1. menuDisp'.rows[r] = MenuRow(r)'
    BY <1>4
  <2>2. MenuRow(r)' = ListRow(r)'
    BY DEF MenuRow, Lists
  <2> QED
    BY <2>1, <2>2 DEF RowIsTrue, ListRow
<1>7. menuDisp'.header = menuCache'.header
  BY <1>4, <1>5 DEF Forgotten
<1>8. MenuShown'
  BY <1>4, <1>6, <1>7 DEF MenuShown
<1>9. ListInv'
  BY <1>5, <1>6 DEF ListInv
<1> QED
  BY <1>8, <1>9 DEF SongInv, Lists

(* A list that is drawn again, after the cursor moved or the value under it changed. *)
LEMMA ListDrawnAgain ==
  ASSUME MenuInv, NEW m \in Lists, menuUi.screen = m, DrawList(m), menuUi'.screen = m,
         menuUi'.cursor \in MenuRows(m), draft' \in [MenuRows(m) -> Contents(m)],
         m # "timing" => ~menuUi'.rejected,
         \/ draft' = draft
         \/ /\ menuUi'.cursor = menuUi.cursor
            /\ \A r \in MenuRows(m) \ {menuUi.cursor} : draft'[r] = draft[r]
  PROVE  MenuShown' /\ ListInv' /\ SongInv'
<1> DEFINE c == menuCache
<1>1. BeginFrame(FrameOf(m)) = c /\ c.cursor = menuUi.cursor /\ c.values = draft
      /\ c.field = menuUi.field /\ c.unsaved = (draft # saved) /\ c.header = MenuHeader
      /\ menuUi.cursor \in MenuRows(m) /\ draft \in [MenuRows(m) -> Contents(m)]
  BY DEF MenuInv, ListInv, BeginFrame, Forgotten
<1>2. c.cursor # NoCursor
  BY <1>1, CursorIsNoRow
<1> DEFINE asks == m # "router" \/ c.unsaved # (draft' # saved')
           rows == RowsToDraw(m, c)
<1>3. menuDisp' = [rows |-> [r \in MenuRows(m) |->
                      IF r \in rows THEN Over(menuDisp.rows[r], MenuRow(r)') ELSE menuDisp.rows[r]],
                   header |-> IF asks THEN DrawnHeader(c, MenuHeader') ELSE menuDisp.header]
  BY <1>1, <1>2 DEF DrawList
<1>4. menuCache' = [c EXCEPT !.cursor = menuUi'.cursor, !.values = draft',
                             !.field = menuUi'.field, !.unsaved = draft' # saved',
                             !.header = IF asks THEN MenuHeader' ELSE @]
  BY <1>1, <1>2 DEF DrawList
<1>5. ~asks => MenuHeader' = c.header
  <2>1. SUFFICES ASSUME ~asks PROVE MenuHeader' = MenuHeader
    BY <1>1
  <2>2. m = "router" /\ ~menuUi.rejected /\ ~menuUi'.rejected
    BY <2>1 DEF MenuInv
  <2> QED
    BY <1>1, <2>1, <2>2 DEF MenuHeader
<1>6. menuCache' = [Forgotten(FrameOf(m)) EXCEPT
         !.header = MenuHeader', !.cursor = menuUi'.cursor, !.values = draft',
         !.field = menuUi'.field, !.unsaved = draft' # saved']
  <2>1. c = [Forgotten(FrameOf(m)) EXCEPT
               !.header = c.header, !.cursor = c.cursor, !.values = c.values,
               !.field = c.field, !.unsaved = c.unsaved]
    BY <1>1 DEF MenuInv, ListInv
  <2>2. menuCache' = [c EXCEPT !.cursor = menuUi'.cursor, !.values = draft',
                               !.field = menuUi'.field, !.unsaved = draft' # saved',
                               !.header = MenuHeader']
    BY <1>4, <1>5, <2>1 DEF Forgotten
  <2> HIDE DEF c
  <2> QED
    BY <2>1, <2>2 DEF Forgotten
<1>7. menuDisp'.header \in {MenuHeader', NoHeader("black")}
  <2>1. menuDisp.header \in {c.header, NoHeader("black")}
    BY DEF MenuInv, MenuShown, Menus
  <2> QED
    BY <1>3, <1>5, <2>1 DEF DrawnHeader, HeaderOutOfDate
<1>8. ASSUME NEW r \in MenuRows(m)
      PROVE  /\ RowIsTrue(menuDisp.rows[r], r)'
             /\ menuDisp'.rows[r].mark \in {"box", "black", MenuRow(r)'.mark}
  <2> DEFINE old == menuDisp.rows[r]
  <2>1. /\ old = [label |-> old.label, value |-> old.value, lit |-> old.lit, mark |-> old.mark]
        /\ old.label \in {m, "box", "black"}
        /\ old.mark \notin {"box", "black"} =>
             old.value = ListRow(r).value /\ old.lit = ListRow(r).lit
        /\ old.mark \in {"box", "black", ListRow(r).mark}
    BY DEF MenuInv, MenuShown, ListInv, RowIsTrue, MenuRow, Menus, Lists
  <2>2. MenuRow(r)' = ListRow(r)'
    BY DEF MenuRow, Lists
  <2>3. CASE r \in rows
    <3>1. menuDisp'.rows[r] = Over(old, ListRow(r)')
      BY <1>3, <2>2, <2>3
    <3> QED
      BY <2>1, <2>2, <3>1 DEF RowIsTrue, ListRow, Over
  <2>4. CASE r \notin rows
    <3>1. menuDisp'.rows[r] = old
      BY <1>3, <2>4
    <3>2. ListRow(r)' = ListRow(r)
      <4>1. draft'[r] = draft[r]
        BY <1>1, <2>4 DEF RowsToDraw, Lists
      <4>2. r = menuUi'.cursor <=> r = menuUi.cursor
        BY <1>1, <2>4 DEF RowsToDraw, Lists
      <4>3. m = "router" /\ r = menuUi.cursor => menuUi'.field = menuUi.field
        BY <1>1, <2>4, <4>2 DEF RowsToDraw
      <4> QED
        BY <4>1, <4>2, <4>3 DEF ListRow
    <3> QED
      BY <2>1, <2>2, <3>1, <3>2 DEF RowIsTrue
  <2> QED
    BY <2>3, <2>4
<1>9. MenuShown'
  BY <1>3, <1>6, <1>7, <1>8 DEF MenuShown, Forgotten
<1>10. ListInv'
  BY <1>6, <1>8 DEF ListInv
<1> QED
  BY <1>9, <1>10 DEF SongInv, Lists

(* A drawing of the song chain, from nothing or over the one before.  What it outlines is
   the slot that plays, and its caches name it. *)
LEMMA SongDrawn ==
  ASSUME MenuInv, DrawSong, menuUi'.screen = "song", menuUi'.cursor < Len(song'.chain),
         menuUi.screen = "song" \/ (menuUi.screen \in Outside /\ Len(song'.chain) # 0)
  PROVE  MenuShown' /\ ListInv' /\ SongInv' /\ menuCache'.slot = PlayingSlot'
<1>0. PICK base : base = BaseOf(menuUi'.cursor)
  OBVIOUS
<1> DEFINE c == BeginFrame("song")
           full == c.base # base \/ c.length # Len(song'.chain)
           moved == IF c.cursor # menuUi'.cursor
                    THEN On(base, c.cursor) \cup On(base, menuUi'.cursor) ELSE {}
           rows == moved \cup OutlineRows(c, base)
                         \cup {r \in MenuRows("song") : c.page[r] # PageShown'[r]}
<1>1. /\ menuDisp' = [rows |-> [r \in MenuRows("song") |->
                        IF full \/ r \in rows THEN MenuRow(r)' ELSE menuDisp.rows[r]],
                      header |-> DrawnHeader(c, MenuHeader')]
      /\ menuCache' = [c EXCEPT !.base = base, !.cursor = menuUi'.cursor,
                                !.length = Len(song'.chain), !.slot = PlayingSlot',
                                !.blink = menuUi'.blink, !.page = PageShown',
                                !.header = MenuHeader']
  BY <1>0 DEF DrawSong, PageShown
<1>2. ASSUME NEW r \in MenuRows("song")
      PROVE  MenuRow(r)' = SlotRow(base + r)'
  BY <1>0 DEF MenuRow, SlotRow
<1>3. /\ c = [Forgotten("song") EXCEPT
               !.header = c.header, !.base = c.base, !.cursor = c.cursor, !.length = c.length,
               !.slot = c.slot, !.blink = c.blink, !.page = c.page]
      /\ menuUi.screen = "song" =>
           /\ c = menuCache /\ c.base = BaseOf(menuUi.cursor) /\ c.cursor = menuUi.cursor
           /\ c.length = Len(song.chain) /\ c.page = PageShown
           /\ c.header \in {menuCache.header}
      /\ menuUi.screen # "song" => full /\ c.header = NoHeader("none")
  <2>1. CASE menuUi.screen = "song"
    BY <2>1 DEF MenuInv, SongInv, BeginFrame, Forgotten
  <2>2. CASE menuUi.screen \in Outside
    <3>1. c = Forgotten("song")
      BY <2>2 DEF MenuInv, BeginFrame, Outside
    <3>2. full /\ c.header = NoHeader("none")
      BY <2>2, <3>1 DEF Forgotten, Outside
    <3>3. c = [Forgotten("song") EXCEPT
               !.header = c.header, !.base = c.base, !.cursor = c.cursor, !.length = c.length,
               !.slot = c.slot, !.blink = c.blink, !.page = c.page]
      BY <3>1 DEF Forgotten
    <3> QED
      BY <2>2, <3>2, <3>3 DEF Outside
  <2> QED
    BY <2>1, <2>2
<1> HIDE DEF c
<1>4. menuCache' = [Forgotten("song") EXCEPT
         !.header = MenuHeader', !.base = base, !.cursor = menuUi'.cursor,
         !.length = Len(song'.chain), !.slot = PlayingSlot', !.blink = menuUi'.blink,
         !.page = PageShown']
  BY <1>1, <1>3 DEF Forgotten
<1>5. menuDisp'.header \in {MenuHeader', NoHeader("black")}
  <2>1. menuUi.screen = "song" => menuDisp.header \in {c.header, NoHeader("black")}
    BY <1>3 DEF MenuInv, MenuShown, Menus
  <2>2. MenuHeader' # NoHeader("none")
    BY DEF MenuHeader, NoHeader
  <2> QED
    BY <1>1, <1>3, <2>1, <2>2 DEF DrawnHeader, HeaderOutOfDate
<1>6. ASSUME NEW r \in MenuRows("song")
      PROVE  /\ RowIsTrue(menuDisp.rows[r], r)'
             /\ menuDisp'.rows[r].mark \in {"bright", "dim"} => base + r = PlayingSlot'
  <2> DEFINE old == menuDisp.rows[r]
  <2>1. CASE full \/ r \in rows
    <3>1. menuDisp'.rows[r] = SlotRow(base + r)' /\ MenuRow(r)' = SlotRow(base + r)'
      BY <1>1, <1>2, <2>1
    <3>2. SlotRow(base + r)'.label = "song"
      BY DEF SlotRow
    <3>3. SlotRow(base + r)' = [label |-> SlotRow(base + r)'.label,
                                value |-> SlotRow(base + r)'.value,
                                lit |-> SlotRow(base + r)'.lit, mark |-> SlotRow(base + r)'.mark]
      BY DEF SlotRow
    <3>4. SlotRow(base + r)'.mark \in {"bright", "dim"} => base + r = PlayingSlot'
      BY DEF SlotRow
    <3> QED
      BY <3>1, <3>2, <3>3, <3>4 DEF RowIsTrue
  <2>2. CASE ~(full \/ r \in rows)
    <3>1. menuDisp'.rows[r] = old /\ menuUi.screen = "song" /\ MenuRow(r)' = SlotRow(base + r)'
      BY <1>1, <1>2, <1>3, <2>2
    <3>2. /\ old = [label |-> old.label, value |-> old.value, lit |-> old.lit, mark |-> old.mark]
          /\ old.label \in {"song", "box", "black"}
          /\ old.mark \notin {"box", "black"} =>
               old.value = SlotRow(base + r).value /\ old.lit = SlotRow(base + r).lit
          /\ old.mark \in {"bright", "dim"} => base + r = c.slot
      <4>1. base = BaseOf(menuUi.cursor)
        BY <1>3, <2>2, <3>1
      <4>2. MenuRow(r) = SlotRow(base + r)
        BY <3>1, <4>1 DEF MenuRow, SlotRow
      <4> QED
        BY <1>3, <3>1, <4>1, <4>2 DEF MenuInv, MenuShown, SongInv, RowIsTrue, Menus
    <3>3. SlotRow(base + r)'.value = SlotRow(base + r).value
      <4>1. PageShown'[r] = PageShown[r] /\ Len(song'.chain) = Len(song.chain)
            /\ base = BaseOf(menuUi.cursor)
        BY <1>3, <2>2, <3>1
      <4> QED
        BY <1>0, <4>1 DEF PageShown, SlotRow
    <3>4. SlotRow(base + r)'.lit = SlotRow(base + r).lit
      <4>1. Len(song'.chain) = Len(song.chain)
        BY <1>3, <2>2, <3>1
      <4>2. base + r = menuUi'.cursor <=> base + r = menuUi.cursor
        BY <1>3, <2>2, <3>1 DEF On
      <4> QED
        BY <4>1, <4>2 DEF SlotRow
    <3>5. base + r = c.slot => base + r = PlayingSlot'
      BY <2>2 DEF OutlineRows, On
    <3> QED
      BY <3>1, <3>2, <3>3, <3>4, <3>5 DEF RowIsTrue
  <2> QED
    BY <2>1, <2>2
<1>7. MenuShown'
  BY <1>1, <1>4, <1>5, <1>6 DEF MenuShown, Forgotten
<1>8. SongInv'
  <2>1. MenuHeader' = [MenuHeader' EXCEPT !.repeat = MenuHeader'.repeat]
    BY DEF MenuHeader
  <2>2. menuCache'.header = MenuHeader' /\ menuCache'.slot = PlayingSlot'
    BY <1>4 DEF Forgotten
  <2> QED
    BY <1>0, <1>4, <1>6, <2>1, <2>2 DEF SongInv
<1>9. menuCache'.slot = PlayingSlot'
  BY <1>4 DEF Forgotten
<1> QED
  BY <1>7, <1>8, <1>9 DEF ListInv, Lists

LEMMA MenuInitInv == MenuInit => MenuInv
<1> SUFFICES ASSUME MenuInit PROVE MenuInv
  OBVIOUS
<1>1. menuUi.screen = "grid" /\ menuUi.screen \in Outside
      /\ menuUi.screen \notin Menus /\ menuUi.screen \notin Lists
  BY DEF MenuInit, Outside, Menus, Lists
<1>2. MenuUiType /\ SongType
  BY DEF MenuInit, MenuUiType, SongType, NoSong, Outside
<1> QED
  BY <1>1, <1>2 DEF MenuInit, MenuInv, MenuShown, ListInv, SongInv, Forgotten

(* A drawing of the grid or of the bar editor forgets the menu. *)
LEMMA OutsideDrawn ==
  ASSUME Draw, MenuUiType', SongType', menuUi'.screen \in Outside,
         ~menuUi'.asleep, ~menuUi'.rejected, menuUi'.question = "none"
  PROVE  MenuInv'
<1>1. menuUi'.screen \notin Menus /\ menuUi'.screen \notin Lists /\ menuUi'.screen # "song"
  BY DEF Outside, Menus, Lists
<1>2. menuCache' = IF menuUi'.screen = "grid" THEN Forgotten("none") ELSE BeginFrame("chord")
  BY <1>1 DEF Draw
<1>3. menuCache'.frame = IF menuUi'.screen = "grid" THEN "none" ELSE "chord"
  BY <1>2 DEF BeginFrame, Forgotten
<1> QED
  BY <1>1, <1>3 DEF MenuInv, MenuShown, ListInv, SongInv

LEMMA EnteredList ==
  ASSUME MenuInv, NEW m \in Lists, NEW from \in Outside, NEW cursor \in MenuRows(m),
         EnterList(m, from, cursor)
  PROVE  MenuInv'
<1>1. /\ menuUi' = [menuUi EXCEPT !.screen = m, !.back = from, !.cursor = cursor,
                                  !.field = "source", !.rejected = FALSE]
      /\ menuUi.screen = from /\ ~menuUi.asleep /\ menuUi.question = "none" /\ Draw
      /\ draft' \in [MenuRows(m) -> Contents(m)]
  BY DEF EnterList, Free
<1>2. MenuUiType' /\ menuUi'.screen = m /\ menuUi'.cursor = cursor
      /\ ~menuUi'.asleep /\ ~menuUi'.rejected /\ menuUi'.question = "none"
  <2>1. cursor \in Nat /\ m \in Menus
    BY CursorIsNoRow DEF Menus
  <2> QED
    BY <1>1, <2>1 DEF MenuInv, MenuUiType
<1>3. menuCache.frame # FrameOf(m)
  <2>1. menuCache.frame \in {"none", "chord"}
    BY <1>1 DEF MenuInv
  <2>2. FrameOf(m) \in Lists
    BY DEF FrameOf, Lists
  <2> QED
    BY <2>1, <2>2 DEF Lists
<1>4. DrawList(m)
  <2>1. Draw /\ menuUi'.screen = m
    BY <1>1, <1>2
  <2> QED
    BY <2>1 DEF Draw, Lists
<1>5. MenuShown' /\ ListInv' /\ SongInv'
  BY <1>1, <1>2, <1>3, <1>4, ListDrawnAnew
<1>6. m \notin Outside /\ SongType'
  BY DEF Lists, Outside, MenuInv, SongType, EnterList
<1> QED
  BY <1>2, <1>5, <1>6 DEF MenuInv

(* What the actions that draw a list again have in common. *)
LEMMA ListDrawnKeeps ==
  ASSUME MenuInv, menuUi.screen \in Lists, Draw, MenuUiType', song' = song,
         menuUi'.screen = menuUi.screen,
         menuUi'.cursor \in MenuRows(menuUi.screen),
         draft' \in [MenuRows(menuUi.screen) -> Contents(menuUi.screen)],
         menuUi'.rejected => menuUi.screen = "timing",
         menuUi'.question # "none" => menuUi.screen \in {"timing", "arp"},
         \/ draft' = draft
         \/ /\ menuUi'.cursor = menuUi.cursor
            /\ \A r \in MenuRows(menuUi.screen) \ {menuUi.cursor} : draft'[r] = draft[r]
  PROVE  MenuInv'
<1>1. PICK m \in Lists : m = menuUi.screen
  OBVIOUS
<1>2. DrawList(m) /\ m \notin Outside
  BY <1>1 DEF Draw, Lists, Outside
<1>3. MenuShown' /\ ListInv' /\ SongInv'
  BY <1>1, <1>2, ListDrawnAgain
<1> QED
  BY <1>1, <1>2, <1>3 DEF MenuInv, SongType

LEMMA SongDrawnKeeps ==
  ASSUME MenuInv, Draw, MenuUiType', SongType', menuUi'.screen = "song",
         menuUi'.cursor < Len(song'.chain), ~menuUi'.rejected, menuUi'.question = "none",
         menuUi.screen = "song" \/ (menuUi.screen \in Outside /\ Len(song'.chain) # 0)
  PROVE  MenuInv' /\ menuCache'.slot = PlayingSlot'
<1>1. DrawSong
  BY DEF Draw, Lists
<1>2. MenuShown' /\ ListInv' /\ SongInv' /\ menuCache'.slot = PlayingSlot'
  BY <1>1, SongDrawn
<1> QED
  BY <1>2 DEF MenuInv, Outside

LEMMA ExitKeeps ==
  ASSUME MenuInv, menuUi.screen \in Menus, ~menuUi.asleep, NEW commit \in BOOLEAN, Exit(commit)
  PROVE  MenuInv'
<1>1. CASE commit /\ menuUi.screen = "timing" /\ Refused(draft)
  <2>1. menuUi' = [menuUi EXCEPT !.rejected = TRUE, !.question = "none"]
        /\ draft' = draft /\ song' = song /\ Draw
    BY <1>1 DEF Exit
  <2>2. MenuUiType' /\ menuUi'.screen = menuUi.screen /\ menuUi'.cursor = menuUi.cursor
        /\ menuUi'.question = "none"
    BY <2>1 DEF MenuInv, MenuUiType
  <2>3. menuUi.screen \in Lists
    BY <1>1 DEF Lists
  <2> QED
    BY <1>1, <2>1, <2>2, <2>3, ListDrawnKeeps DEF MenuInv, ListInv
<1>2. CASE ~(commit /\ menuUi.screen = "timing" /\ Refused(draft))
  <2>1. menuUi' = [menuUi EXCEPT !.screen = menuUi.back, !.back = "grid", !.cursor = 0,
                                 !.field = "source", !.rejected = FALSE, !.question = "none",
                                 !.blink = FALSE] /\ song' = NoSong /\ Draw
    BY <1>2 DEF Exit
  <2>2. MenuUiType' /\ menuUi'.screen \in Outside /\ ~menuUi'.asleep
        /\ ~menuUi'.rejected /\ menuUi'.question = "none"
    BY <2>1 DEF MenuInv, MenuUiType, Outside
  <2>3. SongType'
    BY <2>1 DEF SongType, NoSong
  <2> QED
    BY <2>1, <2>2, <2>3, OutsideDrawn
<1> QED
  BY <1>1, <1>2

LEMMA TurnKeeps == ASSUME MenuInv, Turn PROVE MenuInv'
<1>1. PICK m \in Lists : menuUi.screen = m /\ ~menuUi.asleep /\ menuUi.question = "none"
  BY DEF Turn, Free
<1>2. menuUi' = [menuUi EXCEPT !.rejected = FALSE] /\ song' = song /\ Draw
  BY DEF Turn
<1>3. MenuUiType' /\ menuUi'.screen = m /\ menuUi'.cursor = menuUi.cursor
      /\ menuUi'.question = "none" /\ ~menuUi'.rejected
  BY <1>1, <1>2 DEF MenuInv, MenuUiType
<1>4. PICK v \in Values :
        draft' = [draft EXCEPT ![menuUi.cursor] =
                    IF menuUi.screen # "router" THEN <<v>>
                    ELSE IF menuUi.field = "source" THEN <<v, @[2]>> ELSE <<@[1], v>>]
  BY DEF Turn
<1>5. menuUi.cursor \in MenuRows(m) /\ draft \in [MenuRows(m) -> Contents(m)]
  BY <1>1 DEF MenuInv, ListInv
<1>6. draft' \in [MenuRows(m) -> Contents(m)]
      /\ \A r \in MenuRows(m) \ {menuUi.cursor} : draft'[r] = draft[r]
  <2>1. CASE m # "router"
    BY <1>1, <1>4, <1>5, <2>1 DEF Contents
  <2>2. CASE m = "router"
    <3>1. draft[menuUi.cursor][1] \in Values /\ draft[menuUi.cursor][2] \in Values
      BY <1>5, <2>2 DEF Contents
    <3>2. \A s, t \in Values : <<s, t>> \in Contents(m)
      BY <2>2 DEF Contents
    <3> QED
      BY <1>1, <1>4, <1>5, <2>2, <3>1, <3>2
  <2> QED
    BY <2>1, <2>2
<1> QED
  BY <1>1, <1>2, <1>3, <1>5, <1>6, ListDrawnKeeps

LEMMA PressKeeps == ASSUME MenuInv, Press PROVE MenuInv'
<1>1. PICK m \in Lists : menuUi.screen = m /\ ~menuUi.asleep /\ menuUi.question = "none"
  BY DEF Press, Free
<1>2. draft' = draft /\ song' = song /\ Draw
  BY DEF Press
<1>3. menuUi.cursor \in MenuRows(m) /\ draft \in [MenuRows(m) -> Contents(m)]
  BY <1>1 DEF MenuInv, ListInv
<1>4. MenuUiType' /\ menuUi'.screen = m /\ menuUi'.cursor \in MenuRows(m)
      /\ menuUi'.question = "none" /\ menuUi'.rejected = menuUi.rejected
  <2>1. CASE m = "router"
    <3>1. menuUi' = [menuUi EXCEPT !.field = IF @ = "source" THEN "target" ELSE "source"]
      BY <1>1, <2>1 DEF Press
    <3> QED
      BY <1>1, <1>3, <3>1 DEF MenuInv, MenuUiType
  <2>2. CASE m # "router"
    <3>1. PICK n \in MenuRows(m) : menuUi' = [menuUi EXCEPT !.cursor = n]
      BY <1>1, <2>2, CursorIsNoRow DEF Press
    <3> QED
      BY <1>1, <3>1, CursorIsNoRow DEF MenuInv, MenuUiType
  <2> QED
    BY <2>1, <2>2
<1> QED
  BY <1>1, <1>2, <1>3, <1>4, ListDrawnKeeps DEF MenuInv

(* The keys of the song chain: where the cursor and the chain go. *)
LEMMA SongKeysKeep ==
  ASSUME MenuInv, TurnSlot \/ SelectSlot \/ AddSlot \/ DeleteSlot \/ Blink
  PROVE  MenuInv' /\ menuCache'.slot = PlayingSlot'
<1>1. menuUi.screen = "song" /\ ~menuUi.asleep /\ menuUi.question = "none" /\ Draw
  BY DEF TurnSlot, SelectSlot, AddSlot, DeleteSlot, Blink, Free
<1> DEFINE n == Len(song.chain)
<1>2. /\ ~menuUi.rejected /\ menuUi.cursor \in Nat /\ menuUi.cursor < n
      /\ song.chain \in Seq(Values) /\ n \in Nat
  BY <1>1 DEF MenuInv, SongInv, SongType, MenuUiType
<1>3. SongType' /\ MenuUiType' /\ menuUi'.cursor < Len(song'.chain)
  <2>1. CASE TurnSlot
    <3>1. PICK p \in Values : song' = [song EXCEPT !.chain[menuUi.cursor + 1] = p]
      BY <2>1 DEF TurnSlot
    <3>2. [song.chain EXCEPT ![menuUi.cursor + 1] = p] \in Seq(Values)
          /\ Len([song.chain EXCEPT ![menuUi.cursor + 1] = p]) = n
      BY <1>2
    <3> QED
      BY <1>2, <2>1, <3>1, <3>2 DEF TurnSlot, MenuInv, SongType, MenuUiType
  <2>2. CASE SelectSlot
    <3>1. PICK s \in 0 .. n - 1 : menuUi' = [menuUi EXCEPT !.cursor = s]
      BY <2>2 DEF SelectSlot
    <3> QED
      BY <1>2, <2>2, <3>1 DEF SelectSlot, MenuInv, SongType, MenuUiType
  <2>3. CASE AddSlot
    <3>1. PICK p \in Values : song' = [song EXCEPT !.chain = Append(song.chain, p)]
      <4>1. song.chain[menuUi.cursor + 1] \in Values
        BY <1>2
      <4> QED
        BY <2>3, <4>1 DEF AddSlot
    <3>2. Append(song.chain, p) \in Seq(Values) /\ Len(Append(song.chain, p)) = n + 1
      BY <1>2
    <3>3. menuUi' = [menuUi EXCEPT !.cursor = n]
      BY <2>3 DEF AddSlot
    <3>4. SongType' /\ song'.chain = Append(song.chain, p)
      BY <3>1, <3>2 DEF MenuInv, SongType
    <3>5. MenuUiType' /\ menuUi'.cursor = n
      BY <1>2, <3>3 DEF MenuInv, MenuUiType
    <3> QED
      BY <1>2, <3>2, <3>4, <3>5
  <2>4. CASE DeleteSlot
    <3>1. song' = [song EXCEPT !.chain = SubSeq(song.chain, 1, n - 1)] /\ n > 1
      BY <2>4 DEF DeleteSlot
    <3>2. SubSeq(song.chain, 1, n - 1) \in Seq(Values) /\ Len(SubSeq(song.chain, 1, n - 1)) = n - 1
      <4>1. \A k \in 1 .. n - 1 : song.chain[k] \in Values
        BY <1>2
      <4> QED
        BY <1>2, <3>1, <4>1, SubSeqProperties
    <3>3. song'.chain = SubSeq(song.chain, 1, n - 1) /\ SongType'
      BY <3>1, <3>2 DEF MenuInv, SongType
    <3>4. menuUi' = [menuUi EXCEPT !.cursor =
            IF menuUi.cursor < n - 1 THEN menuUi.cursor ELSE n - 2]
      BY <1>2, <2>4, <3>2, <3>3 DEF DeleteSlot
    <3>5. MenuUiType' /\ menuUi'.cursor < n - 1
      BY <1>2, <3>1, <3>4 DEF MenuInv, MenuUiType
    <3> QED
      BY <1>2, <3>2, <3>3, <3>5
  <2>5. CASE Blink
    BY <1>2, <2>5 DEF Blink, MenuInv, SongType, MenuUiType
  <2> QED
    BY <2>1, <2>2, <2>3, <2>4, <2>5
<1>4. menuUi'.screen = "song" /\ ~menuUi'.rejected /\ menuUi'.question = "none"
  BY <1>1, <1>2 DEF TurnSlot, SelectSlot, AddSlot, DeleteSlot, Blink, MenuInv, MenuUiType
<1> QED
  BY <1>1, <1>3, <1>4, SongDrawnKeeps

LEMMA EnterSongKeeps == ASSUME MenuInv, EnterSong PROVE MenuInv'
<1>1. PICK c \in Chains, on \in BOOLEAN, s \in 0 .. ChainSlots - 1, r \in 0 .. Repeats - 1 :
        s < Len(c) /\ song' = [chain |-> c, playing |-> on, slot |-> s, repeat |-> r]
  BY DEF EnterSong
<1>2. ChainSlots \in Nat /\ Repeats \in Nat
  BY MenuAssumption
<1>3. PICK n \in 1 .. ChainSlots : c \in [1 .. n -> Values]
  BY DEF Chains
<1>4. c \in Seq(Values)
  BY <1>2, <1>3
<1>5. SongType' /\ 0 < Len(song'.chain)
  BY <1>1, <1>2, <1>4 DEF SongType
<1>6. menuUi' = [menuUi EXCEPT !.screen = "song", !.back = "grid", !.cursor = 0, !.blink = TRUE]
      /\ menuUi.screen = "grid" /\ ~menuUi.asleep /\ menuUi.question = "none" /\ Draw
  BY DEF EnterSong, Free
<1>7. MenuUiType' /\ menuUi'.screen = "song" /\ menuUi'.cursor = 0
      /\ ~menuUi'.rejected /\ menuUi'.question = "none"
  BY <1>6 DEF MenuInv, MenuUiType, Menus, Outside
<1> QED
  BY <1>5, <1>6, <1>7, SongDrawnKeeps DEF Outside

(* What is over a menu stays until a row is drawn again. *)
LEMMA BoxKeeps ==
  ASSUME MenuInv, AskInMenu \/ TurnAnswer
  PROVE  MenuInv'
<1>1. PICK q \in {"no", "yes"} : menuUi' = [menuUi EXCEPT !.question = q]
  BY DEF AskInMenu, TurnAnswer
<1>2. DrawBox /\ UNCHANGED <<draft, saved, song, menuCache>>
  BY DEF AskInMenu, TurnAnswer
<1>3. PICK m \in {"timing", "arp"} : menuUi.screen = m
  BY DEF AskInMenu, TurnAnswer, Free, MenuInv
<1>4. m \in Lists /\ m \in Menus /\ m \notin Outside /\ m # "song"
  BY DEF Lists, Menus, Outside
<1>5. MenuUiType' /\ menuUi' = [menuUi EXCEPT !.question = menuUi'.question]
  BY <1>1 DEF MenuInv, MenuUiType
<1>6. /\ menuUi'.screen = m /\ menuUi'.cursor = menuUi.cursor /\ menuUi'.field = menuUi.field
      /\ menuUi'.rejected = menuUi.rejected /\ menuUi'.asleep = menuUi.asleep
  BY <1>1, <1>3 DEF MenuInv, MenuUiType
<1>7. MenuHeader' = MenuHeader /\ \A r : MenuRow(r)' = MenuRow(r)
  BY <1>2, <1>3, <1>4, <1>6 DEF MenuHeader, MenuRow, ListRow
<1>8. /\ DOMAIN menuDisp.rows = MenuRows(m)
      /\ menuDisp.header \in {menuCache.header, NoHeader("black")}
      /\ \A r \in MenuRows(m) : RowIsTrue(menuDisp.rows[r], r)
      /\ menuDisp = [rows |-> menuDisp.rows, header |-> menuDisp.header]
  BY <1>3, <1>4 DEF MenuInv, MenuShown
<1>9. menuDisp' = [rows |-> [r \in MenuRows(m) |->
                              IF r = 0 THEN menuDisp.rows[r] ELSE UnderBox(menuDisp.rows[r])],
                   header |-> menuDisp.header]
  BY <1>2, <1>8 DEF DrawBox
<1>10. ASSUME NEW r \in MenuRows(m)
       PROVE  /\ RowIsTrue(menuDisp.rows[r], r)'
              /\ menuDisp'.rows[r].mark \in {"box", menuDisp.rows[r].mark}
  <2> DEFINE old == menuDisp.rows[r]
  <2>1. RowIsTrue(old, r) /\ menuDisp'.rows[r] = IF r = 0 THEN old ELSE UnderBox(old)
    BY <1>8, <1>9
  <2>2. CASE r = 0
    BY <1>6, <1>3, <1>7, <2>1, <2>2 DEF RowIsTrue
  <2>3. CASE r # 0
    <3>1. menuDisp'.rows[r] = [label |-> "box", value |-> old.value, lit |-> old.lit,
                               mark |-> "box"]
      BY <2>1, <2>3 DEF RowIsTrue, UnderBox
    <3> QED
      BY <3>1 DEF RowIsTrue
  <2> QED
    BY <2>2, <2>3
<1>11. MenuShown'
  BY <1>2, <1>6, <1>8, <1>9, <1>10 DEF MenuShown
<1>12. ListInv'
  <2>1. \A r \in MenuRows(m) : menuDisp'.rows[r].mark \in {"box", "black", MenuRow(r)'.mark}
    BY <1>3, <1>4, <1>7, <1>10 DEF MenuInv, ListInv
  <2> QED
    BY <1>2, <1>3, <1>4, <1>6, <1>7, <2>1 DEF MenuInv, ListInv
<1> QED
  BY <1>2, <1>3, <1>4, <1>5, <1>6, <1>11, <1>12 DEF MenuInv, SongInv, SongType

LEMMA MenuSleepKeeps == ASSUME MenuInv, MenuSleep PROVE MenuInv'
<1>1. menuUi' = [menuUi EXCEPT !.asleep = TRUE] /\ menuUi.screen \in Menus
      /\ menuDisp' = [rows |-> [r \in DOMAIN menuDisp.rows |-> Black], header |-> NoHeader("black")]
      /\ UNCHANGED <<draft, saved, song, menuCache>>
  BY DEF MenuSleep
<1>2. MenuUiType'
  BY <1>1 DEF MenuInv, MenuUiType
<1>3. /\ menuUi'.screen = menuUi.screen /\ menuUi'.cursor = menuUi.cursor
      /\ menuUi'.field = menuUi.field
      /\ menuUi'.rejected = menuUi.rejected /\ menuUi'.blink = menuUi.blink
      /\ menuUi'.question = menuUi.question
  BY <1>1 DEF MenuInv, MenuUiType
<1>4. MenuHeader' = MenuHeader
  BY <1>1, <1>3 DEF MenuHeader, RepeatIndex
<1>5. ASSUME NEW r \in MenuRows(menuUi.screen)
      PROVE  RowIsTrue(menuDisp.rows[r], r)' /\ menuDisp'.rows[r].mark = "black"
  BY <1>1 DEF MenuInv, MenuShown, RowIsTrue, Black
<1>6. MenuShown'
  BY <1>1, <1>3, <1>5 DEF MenuInv, MenuShown
<1>7. ListInv'
  BY <1>1, <1>3, <1>4, <1>5 DEF MenuInv, ListInv
<1>8. SongInv'
  BY <1>1, <1>3, <1>4, <1>5 DEF MenuInv, SongInv, PageShown
<1>9. menuUi.screen \notin Outside
  BY <1>1 DEF Menus, Lists, Outside
<1> QED
  BY <1>1, <1>2, <1>3, <1>6, <1>7, <1>8, <1>9 DEF MenuInv, SongType

LEMMA DrawnOver ==
  ASSUME MenuInv, menuUi.screen \in Menus, Draw, MenuUiType', UNCHANGED <<draft, saved, song>>,
         menuUi'.screen = menuUi.screen, menuUi'.cursor = menuUi.cursor,
         menuUi'.rejected = menuUi.rejected,
         menuUi'.question \in {menuUi.question, "none"}
  PROVE  MenuInv'
<1>1. CASE menuUi.screen \in Lists
  <2>1. menuUi'.cursor \in MenuRows(menuUi.screen)
        /\ draft' \in [MenuRows(menuUi.screen) -> Contents(menuUi.screen)]
    BY <1>1 DEF MenuInv, ListInv
  <2>2. /\ menuUi'.rejected => menuUi.screen = "timing"
        /\ menuUi'.question # "none" => menuUi.screen \in {"timing", "arp"}
    BY DEF MenuInv
  <2> QED
    BY <1>1, <2>1, <2>2, ListDrawnKeeps
<1>2. CASE menuUi.screen = "song"
  <2>1. /\ ~menuUi'.rejected /\ menuUi'.question = "none"
        /\ SongType' /\ menuUi'.cursor < Len(song'.chain)
    BY <1>2 DEF MenuInv, SongInv, SongType
  <2> QED
    BY <1>2, <2>1, SongDrawnKeeps
<1> QED
  BY <1>1, <1>2 DEF Menus

LEMMA AnswerKeeps == ASSUME MenuInv, Answer PROVE MenuInv'
<1>1. menuUi.screen \in Menus /\ ~menuUi.asleep
  BY DEF Answer, MenuInv, Menus, Lists
<1>2. CASE menuUi.question = "yes"
  BY <1>1, <1>2, ExitKeeps DEF Answer
<1>3. CASE menuUi.question # "yes"
  <2>1. menuUi' = [menuUi EXCEPT !.question = "none"] /\ Draw
        /\ UNCHANGED <<draft, saved, song>>
    BY <1>3 DEF Answer
  <2>2. MenuUiType' /\ menuUi'.screen = menuUi.screen /\ menuUi'.cursor = menuUi.cursor
        /\ menuUi'.rejected = menuUi.rejected /\ menuUi'.question = "none"
    BY <2>1 DEF MenuInv, MenuUiType
  <2> QED
    BY <1>1, <2>1, <2>2, DrawnOver
<1> QED
  BY <1>2, <1>3

LEMMA MenuWakeKeeps == ASSUME MenuInv, MenuWake PROVE MenuInv'
<1>1. menuUi' = [menuUi EXCEPT !.asleep = FALSE] /\ Draw /\ UNCHANGED <<draft, saved, song>>
  BY DEF MenuWake
<1>2. menuUi.screen \in Menus
  BY DEF MenuWake, MenuInv, MenuUiType
<1>3. MenuUiType' /\ menuUi'.screen = menuUi.screen /\ menuUi'.cursor = menuUi.cursor
      /\ menuUi'.rejected = menuUi.rejected /\ menuUi'.question = menuUi.question
  BY <1>1 DEF MenuInv, MenuUiType
<1> QED
  BY <1>1, <1>2, <1>3, DrawnOver

LEMMA AdvanceKeeps == ASSUME MenuInv, Advance PROVE MenuInv'
<1>1. menuUi.screen = "song" /\ UNCHANGED <<menuUi, draft, saved, menuDisp, menuCache>>
  BY DEF Advance
<1>2. PICK s \in 0 .. Len(song.chain) - 1, r \in 0 .. Repeats - 1, on \in BOOLEAN :
        song' = [song EXCEPT !.slot = s, !.repeat = r, !.playing = on]
  BY DEF Advance
<1>3. Repeats \in Nat /\ SongType
  BY MenuAssumption DEF MenuInv
<1>4. SongType' /\ song'.chain = song.chain
  <2>1. s \in Nat /\ r \in Nat
    BY <1>3 DEF SongType
  <2> QED
    BY <1>2, <1>3, <2>1 DEF SongType
<1>5. PageShown' = PageShown
  BY <1>1, <1>4 DEF PageShown
<1>6. [MenuHeader' EXCEPT !.repeat = menuCache.header.repeat]
        = [MenuHeader EXCEPT !.repeat = menuCache.header.repeat]
  BY <1>1, <1>4 DEF MenuHeader
<1>7. ASSUME NEW r2 \in MenuRows("song")
      PROVE  MenuRow(r2)'.value = MenuRow(r2).value /\ MenuRow(r2)'.lit = MenuRow(r2).lit
  BY <1>1, <1>4 DEF MenuRow, SlotRow
<1>8. MenuShown'
  BY <1>1, <1>7 DEF MenuInv, MenuShown, RowIsTrue
<1>9. SongInv'
  BY <1>1, <1>4, <1>5, <1>6 DEF MenuInv, SongInv
<1> QED
  BY <1>1, <1>4, <1>8, <1>9 DEF MenuInv, MenuUiType, ListInv, Lists, Outside

LEMMA MenuStepInv == MenuInv /\ [MenuNext]_menuVars => MenuInv'
<1> SUFFICES ASSUME MenuInv, [MenuNext]_menuVars PROVE MenuInv'
  OBVIOUS
<1>1. CASE EnterTiming \/ EnterArp \/ EnterQuant \/ EnterRouter
  <2>1. PICK m \in Lists, from \in Outside :
          \E cursor \in MenuRows(m) : EnterList(m, from, cursor)
    BY <1>1, CursorIsNoRow DEF EnterTiming, EnterArp, EnterQuant, EnterRouter, Lists, Outside
  <2> QED
    BY <2>1, EnteredList
<1>2. CASE EnterSong
  BY <1>2, EnterSongKeeps
<1>3. CASE ToBars \/ ToGrid
  <2>1. PICK screen \in Outside : menuUi' = [menuUi EXCEPT !.screen = screen]
    BY <1>3 DEF ToBars, ToGrid, Outside
  <2>2. Draw /\ song' = song /\ menuUi.screen \in Outside /\ menuUi.question = "none"
    BY <1>3 DEF ToBars, ToGrid, Free, Outside
  <2>3. MenuUiType' /\ menuUi'.screen = screen /\ ~menuUi'.asleep /\ ~menuUi'.rejected
        /\ menuUi'.question = "none"
    BY <2>1, <2>2 DEF MenuInv, MenuUiType, Outside
  <2> QED
    BY <2>2, <2>3, OutsideDrawn DEF MenuInv, SongType
<1>4. CASE LeaveMenu
  BY <1>4, ExitKeeps DEF LeaveMenu, Free
<1>5. CASE Turn
  BY <1>5, TurnKeeps
<1>6. CASE Press
  BY <1>6, PressKeeps
<1>7. CASE TurnSlot \/ SelectSlot \/ AddSlot \/ DeleteSlot \/ Blink
  BY <1>7, SongKeysKeep
<1>8. CASE Advance
  BY <1>8, AdvanceKeeps
<1>9. CASE AskInMenu \/ TurnAnswer
  BY <1>9, BoxKeeps
<1>10. CASE Answer
  BY <1>10, AnswerKeeps
<1>11. CASE MenuSleep
  BY <1>11, MenuSleepKeeps
<1>12. CASE MenuWake
  BY <1>12, MenuWakeKeeps
<1>13. CASE UNCHANGED menuVars
  <2>1. /\ menuUi' = menuUi /\ draft' = draft /\ saved' = saved /\ song' = song
        /\ menuDisp' = menuDisp /\ menuCache' = menuCache
    BY <1>13 DEF menuVars
  <2>2. ASSUME NEW r PROVE MenuRow(r)' = MenuRow(r)
    BY <2>1 DEF MenuRow, SlotRow, ListRow, PlayingSlot
  <2>3. MenuHeader' = MenuHeader /\ PageShown' = PageShown
    BY <2>1 DEF MenuHeader, PageShown, RepeatIndex
  <2>4. MenuUiType' /\ SongType'
    BY <2>1 DEF MenuInv, MenuUiType, SongType
  <2>5. MenuShown'
    BY <2>1, <2>2 DEF MenuInv, MenuShown, RowIsTrue
  <2>6. ListInv'
    BY <2>1, <2>2, <2>3 DEF MenuInv, ListInv
  <2>7. SongInv'
    BY <2>1, <2>3 DEF MenuInv, SongInv
  <2> QED
    BY <2>1, <2>4, <2>5, <2>6, <2>7 DEF MenuInv
<1> QED
  BY <1>1, <1>2, <1>3, <1>4, <1>5, <1>6, <1>7, <1>8, <1>9, <1>10, <1>11, <1>12, <1>13 DEF MenuNext

(* Whatever is entered, left, edited, asked or slept over, in any order and for any
   number of rows and slots: the rows and the header of a menu show the values being
   edited, although each drawing trusts what the one before is believed to have drawn. *)
THEOREM MenusAreTrue == MenuSpec => []MenuIsTrue
<1>1. MenuInv => MenuIsTrue
  <2> SUFFICES ASSUME MenuInv, InMenu PROVE MenuIsTrue
    BY DEF MenuIsTrue, MenuShowsDraft, HeaderTellsState
  <2>1. MenuShowsDraft
    <3> SUFFICES ASSUME NEW r \in MenuRows(menuUi.screen)
                 PROVE  /\ menuDisp.rows[r].label \in {menuUi.screen, "box", "black"}
                        /\ menuDisp.rows[r].mark \notin {"box", "black"} =>
                             /\ menuDisp.rows[r].value = MenuRow(r).value
                             /\ menuDisp.rows[r].lit = MenuRow(r).lit
                             /\ menuUi.screen \in Lists => menuDisp.rows[r].mark = MenuRow(r).mark
      BY DEF MenuShowsDraft
    <3> QED
      BY DEF MenuInv, MenuShown, ListInv, InMenu, RowIsTrue
  <2>2. HeaderTellsState
    <3>1. menuCache.header = [MenuHeader EXCEPT !.repeat = menuCache.header.repeat]
      <4>1. CASE menuUi.screen \in Lists
        <5>1. menuCache.header = MenuHeader
          BY <4>1 DEF MenuInv, ListInv, Forgotten
        <5> QED
          BY <5>1 DEF MenuHeader
      <4>2. CASE menuUi.screen = "song"
        BY <4>2 DEF MenuInv, SongInv, MenuHeader, Forgotten
      <4> QED
        BY <4>1, <4>2 DEF InMenu, Menus
    <3>2. [[MenuHeader EXCEPT !.repeat = menuCache.header.repeat] EXCEPT !.repeat = MenuHeader.repeat]
            = MenuHeader
      BY DEF MenuHeader
    <3>3. menuDisp.header \in {menuCache.header, NoHeader("black")}
      BY DEF MenuInv, MenuShown, InMenu
    <3> QED
      <4>1. SUFFICES ASSUME menuDisp.header.title # "black"
                     PROVE  [menuDisp.header EXCEPT !.repeat = MenuHeader.repeat] = MenuHeader
        BY DEF HeaderTellsState
      <4>2. menuDisp.header = [MenuHeader EXCEPT !.repeat = menuCache.header.repeat]
        BY <3>1, <3>3, <4>1 DEF NoHeader
      <4> QED
        BY <3>2, <4>2
  <2> QED
    BY <2>1, <2>2 DEF MenuIsTrue
<1> QED
  BY MenuInitInv, MenuStepInv, <1>1, PTL DEF MenuSpec

(* For any chain, and wherever the engine and the cursor went since the drawing before: a
   drawing for the blinking leaves the slot that plays outlined and no other. *)
THEOREM OutlinesOneSlot == MenuSpec => OneOutline
<1> DEFINE Outlined ==
      Blink => /\ \A r \in MenuRows("song") :
                    menuDisp'.rows[r].mark \in {"bright", "dim"}
                      <=> BaseOf(menuUi.cursor) + r = PlayingSlot /\ PlayingSlot < Len(song.chain)
               /\ menuDisp'.header.title = "song" => menuDisp'.header.repeat = RepeatIndex
<1>1. MenuInv /\ [MenuNext]_menuVars => [Outlined]_menuVars
  <2> SUFFICES ASSUME MenuInv, Blink PROVE Outlined
    OBVIOUS
  <2>1. menuUi.screen = "song" /\ menuUi' = [menuUi EXCEPT !.blink = ~@] /\ song' = song /\ Draw
    BY DEF Blink, Free
  <2>2. MenuInv' /\ menuCache'.slot = PlayingSlot'
    BY SongKeysKeep
  <2>3. /\ menuUi'.screen = "song" /\ menuUi'.cursor = menuUi.cursor
        /\ menuUi'.blink # menuUi.blink /\ menuUi'.blink \in BOOLEAN
    BY <2>1 DEF MenuInv, MenuUiType
  <2>4. PlayingSlot' = PlayingSlot /\ RepeatIndex' = RepeatIndex
    BY <2>1, <2>3 DEF PlayingSlot, RepeatIndex
  <2> DEFINE base == BaseOf(menuUi.cursor)
  <2>5. DrawSong
    BY <2>1, <2>3 DEF Draw, Lists
  <2>6. BeginFrame("song") = menuCache /\ menuCache.blink = menuUi.blink
    BY <2>1 DEF MenuInv, SongInv, BeginFrame, Forgotten
  <2>7. ASSUME NEW r \in MenuRows("song"), base + r = PlayingSlot
        PROVE  menuDisp'.rows[r] = MenuRow(r)'
    <3>1. r \in OutlineRows(menuCache, base)
      BY <2>3, <2>4, <2>6, <2>7 DEF OutlineRows, On
    <3> QED
      BY <2>3, <2>5, <2>6, <3>1 DEF DrawSong
  <2>8. ASSUME NEW r \in MenuRows("song")
        PROVE  menuDisp'.rows[r].mark \in {"bright", "dim"}
                 <=> base + r = PlayingSlot /\ PlayingSlot < Len(song.chain)
    <3>1. menuDisp'.rows[r].mark \in {"bright", "dim"} => base + r = PlayingSlot
      BY <2>2, <2>3, <2>4 DEF MenuInv, SongInv
    <3>2. CASE base + r = PlayingSlot
      <4>1. menuDisp'.rows[r] = SlotRow(base + r)'
        BY <2>3, <2>7, <3>2 DEF MenuRow, SlotRow
      <4> QED
        BY <2>1, <2>4, <3>2, <4>1 DEF SlotRow
    <3> QED
      BY <3>1, <3>2
  <2>9. menuDisp'.header.title = "song" => menuDisp'.header.repeat = RepeatIndex
    <3>1. DrawnHeader(menuCache, MenuHeader') = menuDisp'.header
      BY <2>5, <2>6 DEF DrawSong
    <3>2. menuDisp.header \in {menuCache.header, NoHeader("black")}
      BY <2>1 DEF MenuInv, MenuShown, Menus
    <3>3. menuDisp'.header \in {MenuHeader', NoHeader("black")}
      BY <3>1, <3>2 DEF DrawnHeader, HeaderOutOfDate
    <3> QED
      BY <2>3, <2>4, <3>3 DEF MenuHeader, NoHeader
  <2> QED
    BY <2>8, <2>9
<1>2. MenuSpec => [][Outlined]_menuVars
  BY MenuInitInv, MenuStepInv, <1>1, PTL DEF MenuSpec
<1> QED
  BY <1>2 DEF OneOutline
=============================================================================
