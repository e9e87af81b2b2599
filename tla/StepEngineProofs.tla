-------------------------- MODULE StepEngineProofs --------------------------
(***************************************************************************)
(* For any bank of patterns, any songs to import and any number of calls:  *)
(* the play position stays inside the pattern and the chain that play, and *)
(* every bar stays divisible into steps, whatever order AdvanceStep, the   *)
(* transport and the edits come in (IInv); bars play in order and none     *)
(* that is skipped does; and AdvanceStep gives up only where there is      *)
(* nothing left to play (PassInv, which counts the way it has come).       *)
(***************************************************************************)
EXTENDS StepEngine, WellFoundedInduction, TLAPS

IInv == TypeOK /\ TimingSupported /\ PositionInRange

-----------------------------------------------------------------------------
(* A non-empty set of natural numbers has a least element. *)
LEMMA MinOfNats ==
  ASSUME NEW S \in SUBSET Nat, S # {}
  PROVE  Min(S) \in S /\ \A y \in S : Min(S) <= y
<1>1. \E x \in S : \A y \in S : ~ (<<y, x>> \in OpToRel(<, Nat))
  BY NatLessThanWellFounded, WFMin
<1>2. ASSUME NEW x \in Nat, NEW y \in Nat, y < x
      PROVE  <<y, x>> \in OpToRel(<, Nat)
  BY <1>2, Zenon DEF OpToRel
<1>3. \E x \in S : \A y \in S : ~ (y < x)
  BY <1>1, <1>2, Zenon
<1>4. \E x \in S : \A y \in S : x <= y
  BY <1>3
<1> QED
  BY <1>4 DEF Min

(* The number of steps in a bar fits the ledger. *)
LEMMA StepsPerBarRange ==
  ASSUME NEW sig \in TimeSigs, NEW division \in Divisions
  PROVE  StepsPerBar(sig, division) \in 0 .. StepLedgerMax
<1> DEFINE n == sig[1]
           d == sig[2]
           steps == (n * 4 * division) \div d
<1>1. n \in Nat /\ d \in Nat \ {0} /\ division \in Nat
  BY EngineAssumption
<1>2. n * 4 * division \in Nat
  BY <1>1
<1>3. steps \in Nat
  <2> DEFINE m == n * 4 * division
  <2>1. \A k \in Nat : k \div d \in Nat
    BY <1>1
  <2> QED
    BY <1>2, <2>1
<1> HIDE DEF n, d, steps
<1>4. StepsPerBar(sig, division) \in {0, steps}
  BY DEF StepsPerBar, n, d, steps
<1>5. StepsPerBar(sig, division) # 0 => steps <= StepLedgerMax
  BY DEF StepsPerBar, n, d, steps
<1> QED
  BY <1>3, <1>4, <1>5 DEF StepLedgerMax

(* A pattern has between one bar and kStepCount of them, whatever step_count
   says. *)
LEMMA CountRange ==
  ASSUME NEW p \in Pattern
  PROVE  Count(p) \in 1 .. StepCount
  BY EngineAssumption DEF Count, Pattern

(* The values a song is made of. *)
LEMMA SongFields ==
  ASSUME TypeOK, TimingSupported, NEW k \in Patterns
  PROVE  /\ song.pattern[k] \in Pattern
         /\ song.pattern[k].division \in Divisions
         /\ song.pattern[k].skipped \in SUBSET Bars
         /\ song.sig \in TimeSigs
         /\ song.chain \in Seq(Patterns) /\ Len(song.chain) \in 1 .. ChainLength
         /\ StepsPerBar(song.sig, song.pattern[k].division) \in 1 .. StepLedgerMax
<1>1. song \in Song /\ Len(song.chain) \in 1 .. ChainLength
  BY DEF TypeOK
<1>2. song.pattern[k] \in Pattern /\ song.sig \in TimeSigs /\ song.chain \in Seq(Patterns)
  BY <1>1 DEF Song
<1>3. song.pattern[k].division \in Divisions /\ song.pattern[k].skipped \in SUBSET Bars
  BY <1>2 DEF Pattern
<1>4. StepsPerBar(song.sig, song.pattern[k].division) \in 0 .. StepLedgerMax
  BY <1>2, <1>3, StepsPerBarRange
<1>5. StepsPerBar(song.sig, song.pattern[k].division) # 0
  BY DEF TimingSupported, Divisible
<1>6. StepsPerBar(song.sig, song.pattern[k].division) \in 1 .. StepLedgerMax
  BY <1>4, <1>5 DEF StepLedgerMax
<1> QED
  BY <1>1, <1>2, <1>3, <1>6

-----------------------------------------------------------------------------
(* The steps of AdvanceStep.  Well: a position playback may be at.  AtBarStart:
   a position at the start of a bar that the pattern may not have. *)
Well(q) == q \in Position /\ InRange(q)
AtBarStart(q) == q \in Position /\ q.step = 0 /\ q.slot < Len(song.chain)

(* Clamping the bar makes the start of a bar a position of the pattern, and
   leaves a position of the pattern alone. *)
LEMMA ClampBarWell ==
  ASSUME TypeOK, TimingSupported, NEW q, AtBarStart(q)
  PROVE  Well(ClampBar(q))
<1>1. q.pattern \in Patterns /\ q.bar \in Nat
  BY DEF AtBarStart, Position, Bars
<1>2. /\ Count(PatternOf(q)) \in 1 .. StepCount
      /\ StepsPerBar(song.sig, PatternOf(q).division) \in 1 .. StepLedgerMax
      /\ Len(song.chain) \in Nat
  BY <1>1, SongFields, CountRange DEF PatternOf
<1>3. CASE q.bar >= Count(PatternOf(q))
  <2>1. ClampBar(q) = [q EXCEPT !.bar = 0]
    BY <1>3 DEF ClampBar
  <2>2. [q EXCEPT !.bar = 0] \in Position
    <3>1. 0 \in Bars
      BY EngineAssumption DEF Bars
    <3> QED
      BY <3>1 DEF AtBarStart, Position
  <2>3. PatternOf([q EXCEPT !.bar = 0]) = PatternOf(q)
    BY DEF AtBarStart, Position, PatternOf
  <2>4. InRange([q EXCEPT !.bar = 0])
    BY <1>2, <2>3 DEF InRange, AtBarStart, Position
  <2> QED
    BY <2>1, <2>2, <2>4 DEF Well
<1>4. CASE ~(q.bar >= Count(PatternOf(q)))
  <2>1. ClampBar(q) = q /\ q.bar < Count(PatternOf(q))
    BY <1>1, <1>2, <1>4 DEF ClampBar
  <2> QED
    BY <1>2, <2>1 DEF Well, InRange, AtBarStart
<1> QED
  BY <1>3, <1>4

(* In range, the clamp at the start of AdvanceStep does nothing. *)
LEMMA ClampBarIdle ==
  ASSUME TypeOK, TimingSupported, NEW q, Well(q)
  PROVE  ClampBar(q) = q
<1>1. q.pattern \in Patterns /\ q.bar \in Nat
  BY DEF Well, Position, Bars
<1>2. Count(PatternOf(q)) \in 1 .. StepCount
  BY <1>1, SongFields, CountRange DEF PatternOf
<1> QED
  BY <1>1, <1>2 DEF Well, InRange, ClampBar

(* The bar after a bar is a bar. *)
LEMMA NextBarAtBarStart ==
  ASSUME TypeOK, TimingSupported, NEW q, Well(q)
  PROVE  AtBarStart(NextBar(q))
<1> DEFINE n == Count(PatternOf(q))
<1>1. /\ q \in Position /\ q.pattern \in Patterns /\ q.bar \in Nat /\ q.bar < n
      /\ q.dir \in {-1, 1} /\ q.slot < Len(song.chain)
  BY DEF Well, InRange, Position, Bars
<1>2. n \in 1 .. StepCount /\ StepCount \in Nat
  BY <1>1, SongFields, CountRange, EngineAssumption DEF PatternOf
<1> HIDE DEF n
<1>3. ASSUME NEW bar \in 0 .. n - 1, NEW dir \in {-1, 1}
      PROVE  AtBarStart(BarAndDirection(q, bar, dir))
  <2>1. bar \in Bars
    BY <1>2 DEF Bars
  <2> DEFINE r == BarAndDirection(q, bar, dir)
  <2>2. [q EXCEPT !.step = 0] \in Position
    BY <1>1 DEF Position, StepLedgerMax
  <2>3. [[q EXCEPT !.step = 0] EXCEPT !.bar = bar, !.dir = dir] \in Position
    BY <2>1, <2>2 DEF Position
  <2>4. r = [[q EXCEPT !.step = 0] EXCEPT !.bar = bar, !.dir = dir]
    BY DEF BarAndDirection
  <2>5. r \in Position /\ r.step = 0 /\ r.slot = q.slot
    BY <1>1, <2>3, <2>4 DEF Position
  <2> QED
    BY <1>1, <2>5 DEF AtBarStart
<1>4. CASE PatternOf(q).mode = "PingPong"
  <2>1. NextBar(q) = Bounce(q)
    BY <1>4 DEF NextBar
  <2>2. CASE q.bar + q.dir >= n
    <3>1. Bounce(q) = BarAndDirection(q, IF n > 1 THEN n - 2 ELSE 0, -1)
      BY <1>1, <1>2, <2>2 DEF Bounce, n
    <3>2. (IF n > 1 THEN n - 2 ELSE 0) \in 0 .. n - 1
      BY <1>2
    <3> QED
      BY <1>3, <2>1, <3>1, <3>2
  <2>3. CASE q.bar + q.dir < 0
    <3>1. Bounce(q) = BarAndDirection(q, IF n > 1 THEN 1 ELSE 0, 1)
      BY <1>1, <1>2, <2>3 DEF Bounce, n
    <3>2. (IF n > 1 THEN 1 ELSE 0) \in 0 .. n - 1
      BY <1>2
    <3> QED
      BY <1>3, <2>1, <3>1, <3>2
  <2>4. CASE ~(q.bar + q.dir >= n) /\ ~(q.bar + q.dir < 0)
    <3>1. Bounce(q) = BarAndDirection(q, q.bar + q.dir, q.dir)
      BY <2>4 DEF Bounce, n
    <3>2. q.bar + q.dir \in 0 .. n - 1
      BY <1>1, <1>2, <2>4
    <3> QED
      BY <1>1, <1>3, <2>1, <3>1, <3>2
  <2> QED
    BY <2>2, <2>3, <2>4
<1>5. CASE PatternOf(q).mode # "PingPong"
  <2>1. NextBar(q) = BarAndDirection(q, IF Completes(q) THEN 0 ELSE q.bar + 1, q.dir)
    BY <1>5 DEF NextBar, Onward
  <2>2. Completes(q) <=> q.bar + 1 >= n
    BY <1>5 DEF Completes, n
  <2>3. (IF Completes(q) THEN 0 ELSE q.bar + 1) \in 0 .. n - 1
    BY <1>1, <1>2, <2>2
  <2> QED
    BY <1>1, <1>3, <2>1, <2>3
<1> QED
  BY <1>4, <1>5

(* Completing a pattern moves to an entry the chain has. *)
LEMMA CompletePatternAtBarStart ==
  ASSUME TypeOK, TimingSupported, NEW q, AtBarStart(q)
  PROVE  AtBarStart(CompletePattern(q))
<1> DEFINE mode == PatternOf(q).mode
           over == [q EXCEPT !.repeat = 0, !.dir = IF mode = "Loop" THEN @ ELSE 1]
<1>1. q \in Position /\ q.step = 0 /\ q.slot \in Nat /\ q.slot < Len(song.chain)
  BY DEF AtBarStart, Position
<1>2. /\ song.chain \in Seq(Patterns) /\ Len(song.chain) \in Nat \ {0}
      /\ Len(song.chain) <= ChainLength /\ ChainLength \in Nat
  BY SongFields, EngineAssumption
<1>3. AtBarStart([q EXCEPT !.repeat = @ + 1])
  BY <1>1 DEF AtBarStart, Position
<1>4. over \in Position /\ over.step = 0 /\ over.slot = q.slot
  BY <1>1 DEF Position
<1>5. AtBarStart(over)
  BY <1>1, <1>4 DEF AtBarStart
<1> HIDE DEF over
<1>6. AtBarStart(ChainAdvance(over))
  <2>1. NextSlot(over) \in 0 .. Len(song.chain) - 1
    BY <1>1, <1>2, <1>4 DEF NextSlot
  <2>2. song.chain[NextSlot(over) + 1] \in Patterns
    BY <1>2, <2>1
  <2>3. NextSlot(over) \in 0 .. ChainLength - 1 /\ NextSlot(over) < Len(song.chain)
    BY <1>2, <2>1
  <2> QED
    BY <1>4, <2>2, <2>3 DEF ChainAdvance, AtBarStart, Position
<1>7. CompletePattern(q) \in {[q EXCEPT !.repeat = @ + 1], ChainAdvance(over), over}
  BY DEF CompletePattern, over
<1> QED
  BY <1>3, <1>5, <1>6, <1>7

(* So leaving a bar leads to a position playback may be at. *)
LEMMA LeftWell ==
  ASSUME TypeOK, TimingSupported, NEW q, Well(q)
  PROVE  Well(Left(q))
  BY NextBarAtBarStart, CompletePatternAtBarStart, ClampBarWell DEF Left

(* The scan for a bar to play ends at a bar that is not skipped. *)
LEMMA SkipToActiveIsActive ==
  ASSUME TypeOK, TimingSupported, NEW q, Well(q), ActiveBars(PatternOf(q)) # {}
  PROVE  /\ SkipToActive(q).bar \in ActiveBars(PatternOf(q))
         /\ SkipToActive(q) = [q EXCEPT !.bar = SkipToActive(q).bar]
         /\ SkipToActive(q).pattern = q.pattern
<1> DEFINE active == ActiveBars(PatternOf(q))
           ahead  == {b \in active : b >= q.bar}
           bar    == IF ahead # {} THEN Min(ahead) ELSE Min(active)
<1>1. q \in Position /\ q.pattern \in Patterns
  BY DEF Well, Position
<1>2. Count(PatternOf(q)) \in 1 .. StepCount /\ StepCount \in Nat
  BY <1>1, SongFields, CountRange, EngineAssumption DEF PatternOf
<1>3. active \in SUBSET Nat /\ ahead \in SUBSET Nat
  BY <1>2 DEF ActiveBars
<1>4. bar \in active
  BY <1>3, MinOfNats
<1>5. SkipToActive(q) = [q EXCEPT !.bar = bar]
  BY DEF SkipToActive
<1> HIDE DEF bar
<1>6. [q EXCEPT !.bar = bar].bar = bar /\ [q EXCEPT !.bar = bar].pattern = q.pattern
  BY <1>1 DEF Position
<1> QED
  BY <1>4, <1>5, <1>6

(* So it ends at a position playback may be at. *)
LEMMA SkipToActiveWell ==
  ASSUME TypeOK, TimingSupported, NEW q, Well(q), ActiveBars(PatternOf(q)) # {}
  PROVE  Well(SkipToActive(q))
<1> DEFINE bar == SkipToActive(q).bar
<1>1. q \in Position /\ q.pattern \in Patterns /\ InRange(q)
  BY DEF Well, Position
<1>2. Count(PatternOf(q)) \in 1 .. StepCount /\ StepCount \in Nat
  BY <1>1, SongFields, CountRange, EngineAssumption DEF PatternOf
<1>4. bar \in ActiveBars(PatternOf(q)) /\ SkipToActive(q) = [q EXCEPT !.bar = bar]
  BY SkipToActiveIsActive
<1>5. bar \in Bars /\ bar < Count(PatternOf(q))
  BY <1>2, <1>4 DEF ActiveBars, Bars
<1> HIDE DEF bar
<1>7. [q EXCEPT !.bar = bar] \in Position
  BY <1>1, <1>5 DEF Position
<1>8. PatternOf([q EXCEPT !.bar = bar]) = PatternOf(q)
  BY <1>1 DEF PatternOf, Position
<1>9. InRange([q EXCEPT !.bar = bar])
  BY <1>1, <1>5, <1>8 DEF InRange, Position
<1> QED
  BY <1>4, <1>7, <1>9 DEF Well
-----------------------------------------------------------------------------
(* Init, the passes of AdvanceStep's loop and the calls. *)

(* Where a pattern begins. *)
LEMMA BeginningWell ==
  ASSUME TypeOK, TimingSupported, NEW p \in Patterns
  PROVE  Well(Beginning(p))
<1>1. Beginning(p) \in Position
  BY EngineAssumption DEF Beginning, Position, Bars, StepLedgerMax
<1>2. PatternOf(Beginning(p)) = song.pattern[p]
  BY DEF Beginning, PatternOf
<1>3. /\ Count(song.pattern[p]) \in 1 .. StepCount
      /\ StepsPerBar(song.sig, song.pattern[p].division) \in 1 .. StepLedgerMax
      /\ Len(song.chain) \in Nat \ {0}
  BY SongFields, CountRange, EngineAssumption
<1>4. InRange(Beginning(p))
  BY <1>2, <1>3 DEF InRange, Beginning
<1> QED
  BY <1>1, <1>4 DEF Well

(* A step has a whole number of ticks. *)
LEMMA StepTicksNat ==
  ASSUME NEW s, NEW p, s.pattern[p].division \in Divisions
  PROVE  StepTicks(s, p) \in Nat
<1>1. s.pattern[p].division \in Nat \ {0}
  BY EngineAssumption
<1> QED
  BY <1>1 DEF StepTicks, TicksPerQuarter

(* The device starts in the invariant. *)
LEMMA InitEstablishes == Init => IInv
<1> SUFFICES ASSUME Init PROVE IInv
  OBVIOUS
<1>1. \A p \in Patterns : BlankSong.pattern[p] \in Pattern /\ BlankSong.pattern[p].division = 4
  <2>1. BlankPattern \in Pattern /\ BlankPattern.division = 4
    BY EngineAssumption DEF BlankPattern, Pattern, Modes
  <2>2. /\ [BlankPattern EXCEPT !.mode = "Loop"] \in Pattern
        /\ [BlankPattern EXCEPT !.mode = "Loop"].division = 4
    BY <2>1 DEF Pattern, Modes
  <2> QED
    BY <2>1, <2>2 DEF BlankSong
<1>2. BlankSong \in Song
  <2>1. BlankSong.pattern \in [Patterns -> Pattern]
    BY <1>1 DEF BlankSong
  <2>2. BlankSong.chain \in Seq(Patterns) /\ BlankSong.sig \in TimeSigs
    BY EngineAssumption DEF BlankSong
  <2> QED
    BY <2>1, <2>2 DEF BlankSong, Song
<1>3. Divisible(BlankSong)
  <2>1. StepsPerBar(<<4, 4>>, 4) = 16
    BY DEF StepsPerBar, StepLedgerMax
  <2>2. BlankSong.sig = <<4, 4>>
    BY DEF BlankSong
  <2> QED
    BY <1>1, <2>1, <2>2 DEF Divisible
<1>4. song = BlankSong /\ Len(song.chain) = 1
  BY DEF Init, BlankSong
<1>5. TimingSupported
  BY <1>3, <1>4 DEF TimingSupported
<1>6. stepTicks \in Nat
  BY <1>1, <1>4, StepTicksNat, EngineAssumption DEF Init
<1>7. at \in Position
  BY EngineAssumption DEF Init, Beginning, Position, Bars, StepLedgerMax
<1>8. exhaustions \in 0 .. ExhaustionFactor * ChainLength /\ calls \in 0 .. MaxCalls
  BY EngineAssumption DEF Init
<1>9. /\ edit \in Patterns /\ source \in Sources /\ playing \in BOOLEAN
      /\ pc \in {"idle", "advance"}
  BY EngineAssumption DEF Init, Sources
<1>10. TypeOK
  BY <1>2, <1>4, <1>6, <1>7, <1>8, <1>9, EngineAssumption DEF TypeOK
<1>11. PositionInRange
  BY <1>5, <1>10, BeginningWell, EngineAssumption DEF Init, Well, PositionInRange
<1> QED
  BY <1>5, <1>10, <1>11 DEF IInv

(* A step that only moves the position keeps the invariant when it moves to a
   position playback may be at. *)
LEMMA MoveKeeps ==
  ASSUME IInv, Well(at'), UNCHANGED <<song, edit, source>>,
         playing' \in BOOLEAN, stepTicks' \in Nat, pc' \in {"idle", "advance"},
         exhaustions' \in 0 .. ExhaustionFactor * ChainLength,
         calls' \in 0 .. MaxCalls
  PROVE  IInv'
<1>1. TypeOK'
  BY DEF IInv, TypeOK, Well
<1>2. TimingSupported'
  BY DEF IInv, TimingSupported
<1>3. PositionInRange'
  BY DEF Well, PositionInRange, InRange, PatternOf
<1> QED
  BY <1>1, <1>2, <1>3 DEF IInv

(* AdvanceStep keeps the invariant, whichever way its loop goes. *)
LEMMA AdvancePreserves == IInv /\ (BeginAdvance \/ AdvanceStep) => IInv'
<1> SUFFICES ASSUME IInv, BeginAdvance \/ AdvanceStep PROVE IInv'
  OBVIOUS
<1> DEFINE q == ClampBar(at)
<1>1. /\ TypeOK /\ TimingSupported /\ Well(at)
      /\ playing \in BOOLEAN /\ stepTicks \in Nat /\ calls \in 0 .. MaxCalls
      /\ exhaustions \in 0 .. ExhaustionFactor * ChainLength
  BY DEF IInv, TypeOK, PositionInRange, Well
<1>2. Well(q) /\ q = at
  BY <1>1, ClampBarIdle
<1>3. q.pattern \in Patterns /\ q \in Position /\ q.step \in Nat
  BY <1>2 DEF Well, Position
<1> HIDE DEF q
<1>4. Well(Left(q))
  BY <1>1, <1>2, LeftWell
<1>5. CASE BeginAdvance
  <2>1. 0 \in 0 .. ExhaustionFactor * ChainLength
    BY EngineAssumption
  <2>2. Well(at') /\ UNCHANGED <<song, edit, source, playing, stepTicks, calls>>
        /\ pc' = "advance" /\ exhaustions' = 0
    BY <1>1, <1>5 DEF BeginAdvance, Well, InRange, PatternOf
  <2> QED
    BY <1>1, <2>1, <2>2, MoveKeeps
<1>6. ASSUME NEW r, Well(r), Land(r) \/ StopAt(r) PROVE IInv'
  <2>1. /\ at' = r /\ UNCHANGED <<song, edit, source, stepTicks, exhaustions, calls>>
        /\ pc' = "idle" /\ playing' \in BOOLEAN
    BY <1>1, <1>6 DEF Land, StopAt
  <2>2. Well(at')
    BY <1>6, <2>1
  <2> QED
    BY <1>1, <2>1, <2>2, MoveKeeps
<1>7. CASE AdvanceWithinBar
  <2>1. MoreStepsInBar(q) /\ Land([q EXCEPT !.step = @ + 1])
    BY <1>7 DEF AdvanceWithinBar, q
  <2>2. StepsPerBar(song.sig, PatternOf(q).division) \in 1 .. StepLedgerMax
    BY <1>1, <1>3, SongFields DEF PatternOf
  <2>3. q.step + 1 < StepsPerBar(song.sig, PatternOf(q).division)
    BY <2>1 DEF MoreStepsInBar
  <2>4. q.step + 1 \in 0 .. StepLedgerMax - 1
    BY <1>3, <2>2, <2>3 DEF StepLedgerMax
  <2>5. [q EXCEPT !.step = @ + 1] \in Position
    BY <1>3, <2>4 DEF Position
  <2>6. PatternOf([q EXCEPT !.step = @ + 1]) = PatternOf(q)
    BY <1>3 DEF PatternOf, Position
  <2>7. InRange([q EXCEPT !.step = @ + 1])
    BY <1>2, <1>3, <2>3, <2>6 DEF Well, InRange, Position
  <2> QED
    BY <1>6, <2>1, <2>5, <2>7 DEF Well
<1>8. CASE AdvanceToBar
  <2>1. ActiveBars(PatternOf(Left(q))) # {} /\ Land(SkipToActive(Left(q)))
    BY <1>8 DEF AdvanceToBar, q
  <2>2. Well(SkipToActive(Left(q)))
    BY <1>1, <1>4, <2>1, SkipToActiveWell
  <2> QED
    BY <1>6, <2>1, <2>2
<1>9. CASE EndOneShot
  <2>1. OneShotEnds(q) /\ StopAt(NextBar(q))
    BY <1>9 DEF EndOneShot, q
  <2>2. Well(NextBar(q))
    <3>1. PatternOf(q).mode = "OneShot" /\ Completes(q)
      BY <2>1 DEF OneShotEnds
    <3>2. NextBar(q) = BarAndDirection(q, 0, q.dir)
      BY <3>1 DEF NextBar, Onward
    <3>3. AtBarStart(NextBar(q))
      BY <1>1, <1>2, NextBarAtBarStart
    <3>4. NextBar(q).bar = 0
      BY <1>3, <3>2 DEF BarAndDirection, Position
    <3>5. NextBar(q).pattern \in Patterns /\ NextBar(q) \in Position
      BY <3>3 DEF AtBarStart, Position
    <3>6. Count(PatternOf(NextBar(q))) \in 1 .. StepCount /\ StepCount \in Nat
      BY <1>1, <3>5, SongFields, CountRange, EngineAssumption DEF PatternOf
    <3>7. ClampBar(NextBar(q)) = NextBar(q)
      BY <3>4, <3>6 DEF ClampBar
    <3> QED
      BY <1>1, <3>3, <3>7, ClampBarWell
  <2> QED
    BY <1>6, <2>1, <2>2
<1>10. CASE PassEmptyPattern
  <2>1. /\ at' = [CompletePattern(Left(q)) EXCEPT !.bar = 0, !.step = 0]
        /\ exhaustions < ExhaustionLimit /\ exhaustions' = exhaustions + 1
        /\ ReachesEmptyPattern(q)
        /\ UNCHANGED <<song, edit, source, playing, stepTicks, pc, calls>>
    BY <1>10 DEF PassEmptyPattern, CountExhaustion, q
  <2>2. AtBarStart(at') /\ at'.bar = 0
    <3>1. PatternOf(Left(q)) = song.pattern[Left(q).pattern] /\ Left(q).step = 0
          /\ Left(q) \in Position /\ Left(q).slot < Len(song.chain)
      <4>1. AtBarStart(NextBar(q))
        BY <1>1, <1>2, NextBarAtBarStart
      <4>2. AtBarStart(CompletePattern(NextBar(q)))
        BY <1>1, <4>1, CompletePatternAtBarStart
      <4>3. ASSUME NEW r, AtBarStart(r) PROVE ClampBar(r).step = 0
        BY <4>3 DEF AtBarStart, ClampBar, Position
      <4> QED
        BY <1>4, <4>1, <4>2, <4>3 DEF Left, PatternOf, Well, InRange
    <3>2. AtBarStart(Left(q))
      BY <3>1 DEF AtBarStart
    <3>3. AtBarStart(CompletePattern(Left(q)))
      BY <1>1, <3>2, CompletePatternAtBarStart
    <3>4. 0 \in Bars /\ 0 \in 0 .. StepLedgerMax - 1
      BY EngineAssumption DEF Bars, StepLedgerMax
    <3> QED
      BY <2>1, <3>3, <3>4 DEF AtBarStart, Position
  <2>3. Well(at')
    <3>1. at'.pattern \in Patterns
      BY <2>2 DEF AtBarStart, Position
    <3>2. Count(PatternOf(at')) \in 1 .. StepCount /\ StepCount \in Nat
      BY <1>1, <3>1, SongFields, CountRange, EngineAssumption DEF PatternOf
    <3>3. ClampBar(at') = at'
      BY <2>2, <3>2 DEF ClampBar
    <3> QED
      BY <1>1, <2>2, <3>3, ClampBarWell
  <2>4. exhaustions' \in 0 .. ExhaustionFactor * ChainLength
    <3>1. ExhaustionFactor \in Nat /\ ChainLength \in Nat /\ Len(song.chain) \in 1 .. ChainLength
      BY <1>1, EngineAssumption DEF TypeOK
    <3>2. ExhaustionFactor * Len(song.chain) <= ExhaustionFactor * ChainLength
      BY <3>1
    <3>3. ExhaustionFactor * Len(song.chain) \in Nat /\ ExhaustionFactor * ChainLength \in Nat
      BY <3>1
    <3> QED
      BY <1>1, <2>1, <3>2, <3>3 DEF ExhaustionLimit
  <2>5. pc' \in {"idle", "advance"}
    BY <1>1, <2>1 DEF TypeOK
  <2> QED
    BY <1>1, <2>1, <2>3, <2>4, <2>5, MoveKeeps
<1>11. CASE GiveUp
  <2>1. StopAt(Left(q))
    BY <1>11 DEF GiveUp, q
  <2> QED
    BY <1>4, <1>6, <2>1
<1> QED
  BY <1>5, <1>7, <1>8, <1>9, <1>10, <1>11 DEF AdvanceStep
-----------------------------------------------------------------------------
(* The calls. *)

(* A call that replaces the song by one that fits, and moves to a position of
   that song, keeps the invariant. *)
LEMMA NewSongKeeps ==
  ASSUME IInv, Call, song' \in Song, Len(song'.chain) \in 1 .. ChainLength,
         Divisible(song'), edit' \in Patterns, source' \in Sources,
         playing' \in BOOLEAN, stepTicks' \in Nat,
         at' \in Position, PositionInRange'
  PROVE  IInv'
<1>1. calls' \in 0 .. MaxCalls
  BY EngineAssumption DEF IInv, TypeOK, Call
<1>2. UNCHANGED <<pc, exhaustions>>
  BY DEF Call
<1>3. TypeOK'
  BY <1>1, <1>2 DEF IInv, TypeOK
<1>4. TimingSupported'
  BY DEF TimingSupported
<1> QED
  BY <1>3, <1>4 DEF IInv

(* An edit of the edit pattern that leaves its timing alone. *)
LEMMA EditKeeps ==
  ASSUME IInv, NEW p \in Pattern, p.division = song.pattern[edit].division, EditTo(p)
  PROVE  /\ song' \in Song /\ song'.chain = song.chain /\ song'.sig = song.sig
         /\ Divisible(song')
         /\ \A k \in Patterns : song'.pattern[k] = IF k = edit THEN p ELSE song.pattern[k]
<1>1. song \in Song /\ edit \in Patterns /\ Divisible(song)
  BY DEF IInv, TypeOK, TimingSupported
<1>2. song' = [song EXCEPT !.pattern = [song.pattern EXCEPT ![edit] = p]]
  BY DEF EditTo
<1>3. song.pattern \in [Patterns -> Pattern]
  BY <1>1 DEF Song
<1>4. /\ song'.chain = song.chain /\ song'.sig = song.sig
      /\ song'.pattern = [song.pattern EXCEPT ![edit] = p]
      /\ song' \in Song
  BY <1>1, <1>2, <1>3 DEF Song
<1>5. \A k \in Patterns : song'.pattern[k] = IF k = edit THEN p ELSE song.pattern[k]
  BY <1>3, <1>4
<1>6. Divisible(song')
  BY <1>1, <1>4, <1>5 DEF Divisible
<1> QED
  BY <1>4, <1>5, <1>6

(* Start and Reset keep the invariant. *)
LEMMA RewindKeeps ==
  ASSUME IInv, Call, Rewind, playing' \in BOOLEAN
  PROVE  IInv'
<1>1. TypeOK /\ TimingSupported
  BY DEF IInv
<1>2. /\ edit \in Patterns /\ at \in Position /\ at.slot < Len(song.chain)
      /\ source \in Sources /\ song \in Song /\ Len(song.chain) \in 1 .. ChainLength
      /\ song.chain \in Seq(Patterns)
  BY <1>1 DEF IInv, TypeOK, PositionInRange, InRange, Song
<1>3. song.chain[1] \in Patterns
  BY <1>2
<1>4. Well(Rewound)
  <2>1. CASE source = "SongChain"
    BY <1>1, <1>3, <2>1, BeginningWell DEF Rewound
  <2>2. CASE source # "SongChain"
    <3>1. Rewound = [Beginning(edit) EXCEPT !.slot = at.slot]
      BY <2>2 DEF Rewound
    <3>2. Well(Beginning(edit))
      BY <1>1, <1>2, BeginningWell
    <3>3. [Beginning(edit) EXCEPT !.slot = at.slot] \in Position
      BY <1>2, <3>2 DEF Well, Position
    <3>4. PatternOf([Beginning(edit) EXCEPT !.slot = at.slot]) = PatternOf(Beginning(edit))
      BY DEF PatternOf, Beginning
    <3>5. InRange([Beginning(edit) EXCEPT !.slot = at.slot])
      BY <1>2, <3>2, <3>4 DEF Well, InRange, Beginning
    <3> QED
      BY <3>1, <3>3, <3>5 DEF Well
  <2> QED
    BY <2>1, <2>2
<1>5. Rewound.pattern \in Patterns
  BY <1>4 DEF Well, Position
<1>6. stepTicks' \in Nat
  BY <1>1, <1>5, SongFields, StepTicksNat DEF Rewind
<1>7. at' = Rewound /\ UNCHANGED <<song, edit, source>>
  BY DEF Rewind
<1>8. at' \in Position /\ PositionInRange'
  BY <1>4, <1>7 DEF Well, PositionInRange, InRange, PatternOf
<1>9. Divisible(song')
  BY <1>1, <1>7 DEF TimingSupported
<1> QED
  BY <1>2, <1>6, <1>7, <1>8, <1>9, NewSongKeeps

(* So does every call of the user. *)
LEMMA CallPreserves == IInv /\ UserCall => IInv'
<1> SUFFICES ASSUME IInv, UserCall PROVE IInv'
  OBVIOUS
<1>1. /\ TypeOK /\ TimingSupported /\ PositionInRange
      /\ song \in Song /\ song.pattern \in [Patterns -> Pattern]
      /\ song.chain \in Seq(Patterns) /\ Len(song.chain) \in 1 .. ChainLength
      /\ song.sig \in TimeSigs
      /\ edit \in Patterns /\ source \in Sources /\ playing \in BOOLEAN
      /\ at \in Position /\ at.pattern \in Patterns /\ stepTicks \in Nat
      /\ Divisible(song)
  BY DEF IInv, TypeOK, Song, Position, TimingSupported
<1>2. song.pattern[edit] \in Pattern
  BY <1>1
<1>3. ASSUME Call, UNCHANGED <<song, at>>, edit' \in Patterns, source' \in Sources,
             playing' \in BOOLEAN, stepTicks' \in Nat
      PROVE  IInv'
  <2>1. PositionInRange'
    BY <1>1, <1>3 DEF PositionInRange, InRange, PatternOf
  <2> QED
    BY <1>1, <1>3, <2>1, NewSongKeeps
<1>4. CASE Start
  BY <1>4, RewindKeeps DEF Start
<1>5. CASE Stop
  BY <1>1, <1>3, <1>5 DEF Stop
<1>6. CASE Reset
  BY <1>1, <1>6, RewindKeeps DEF Reset
<1>7. CASE SetPatternStepCount
  <2>1. PICK n \in 1 .. StepCount :
          /\ EditTo([song.pattern[edit] EXCEPT !.count = n])
          /\ at' = IF at.bar >= n THEN [at EXCEPT !.bar = 0] ELSE at
    BY <1>7 DEF SetPatternStepCount
  <2> DEFINE p == [song.pattern[edit] EXCEPT !.count = n]
  <2>2. n \in Nat \ {0} /\ n <= StepCount /\ StepCount \in Nat
    BY EngineAssumption
  <2>3. p \in Pattern /\ p.division = song.pattern[edit].division /\ p.count = n
    BY <1>2, <2>2 DEF Pattern
  <2>4. Count(p) = n
    BY <2>2, <2>3 DEF Count
  <2> HIDE DEF p
  <2>5. /\ song' \in Song /\ song'.chain = song.chain /\ song'.sig = song.sig
        /\ Divisible(song')
        /\ \A k \in Patterns : song'.pattern[k] = IF k = edit THEN p ELSE song.pattern[k]
    BY <2>1, <2>3, EditKeeps DEF p
  <2>6. at' \in Position /\ at'.pattern = at.pattern /\ at'.step = at.step
        /\ at'.slot = at.slot /\ at'.bar \in {0, at.bar} /\ at'.bar < n
    <3>1. at.bar \in Nat /\ 0 \in Bars
      BY <1>1, EngineAssumption DEF Position, Bars
    <3>2. CASE at.bar >= n
      BY <1>1, <2>1, <2>2, <3>1, <3>2 DEF Position
    <3>3. CASE ~(at.bar >= n)
      BY <1>1, <2>1, <2>2, <3>1, <3>3
    <3> QED
      BY <3>2, <3>3
  <2>7. at'.bar < Count(song'.pattern[at.pattern])
    <3>1. CASE at.pattern = edit
      BY <1>1, <2>4, <2>5, <2>6, <3>1
    <3>2. CASE at.pattern # edit
      <4>1. song'.pattern[at.pattern] = song.pattern[at.pattern]
        BY <1>1, <2>5, <3>2
      <4>2. Count(song.pattern[at.pattern]) \in 1 .. StepCount
        BY <1>1, CountRange
      <4>3. at.bar < Count(song.pattern[at.pattern])
        BY <1>1 DEF PositionInRange, InRange, PatternOf
      <4> QED
        BY <2>6, <4>1, <4>2, <4>3
    <3> QED
      BY <3>1, <3>2
  <2>8. song'.pattern[at.pattern].division = song.pattern[at.pattern].division
    BY <1>1, <2>3, <2>5
  <2>9. PositionInRange'
    BY <1>1, <2>5, <2>6, <2>7, <2>8 DEF PositionInRange, InRange, PatternOf
  <2> QED
    BY <1>1, <1>7, <2>5, <2>6, <2>9, NewSongKeeps DEF SetPatternStepCount
<1>8. CASE SetPatternTiming
  <2>1. PICK division \in Divisions, sig \in TimeSigs :
          LET new == Retimed(division, sig)
              steps == StepsPerBar(sig, new.pattern[at.pattern].division)
          IN /\ Accepted(new)
             /\ song' = new
             /\ at' = IF at.step >= steps THEN [at EXCEPT !.step = steps - 1] ELSE at
             /\ stepTicks' = StepTicks(new, at.pattern)
    BY <1>8 DEF SetPatternTiming
  <2> DEFINE p == [song.pattern[edit] EXCEPT !.division = division]
             steps == StepsPerBar(sig, song'.pattern[at.pattern].division)
  <2>2. song' = [song EXCEPT !.sig = sig, !.pattern = [song.pattern EXCEPT ![edit] = p]]
    BY <2>1 DEF Retimed
  <2>3. p \in Pattern /\ p.count = song.pattern[edit].count
    BY <1>2 DEF Pattern
  <2> HIDE DEF p
  <2>4. /\ song'.chain = song.chain /\ song'.sig = sig
        /\ song'.pattern = [song.pattern EXCEPT ![edit] = p]
        /\ song' \in Song
    BY <1>1, <2>2, <2>3 DEF Song
  <2>5. \A k \in Patterns : song'.pattern[k] = IF k = edit THEN p ELSE song.pattern[k]
    BY <1>1, <2>4
  <2>6. Divisible(song')
    BY <2>1 DEF Accepted
  <2>7. song'.pattern[at.pattern] \in Pattern
    BY <1>1, <2>3, <2>5
  <2>8. song'.pattern[at.pattern].division \in Divisions
    BY <2>7 DEF Pattern
  <2>9. steps \in 1 .. StepLedgerMax
    <3>1. steps \in 0 .. StepLedgerMax
      BY <2>8, StepsPerBarRange
    <3>2. steps # 0
      BY <1>1, <2>4, <2>6 DEF Divisible
    <3> QED
      BY <3>1, <3>2 DEF StepLedgerMax
  <2>10. at' = IF at.step >= steps THEN [at EXCEPT !.step = steps - 1] ELSE at
    BY <2>1
  <2> HIDE DEF steps
  <2>11. at' \in Position /\ at'.pattern = at.pattern /\ at'.bar = at.bar
         /\ at'.slot = at.slot /\ at'.step < steps
    <3>1. at.step \in Nat /\ steps - 1 \in 0 .. StepLedgerMax - 1 /\ steps \in Nat
      <4>1. at.step \in 0 .. StepLedgerMax - 1
        BY <1>1 DEF Position
      <4> QED
        BY <2>9, <4>1 DEF StepLedgerMax
    <3>2. CASE at.step >= steps
      BY <1>1, <2>10, <3>1, <3>2 DEF Position
    <3>3. CASE ~(at.step >= steps)
      BY <1>1, <2>10, <3>1, <3>3
    <3> QED
      BY <3>2, <3>3
  <2>12. at.bar < Count(song'.pattern[at.pattern])
    <3>1. at.bar < Count(song.pattern[at.pattern])
      BY <1>1 DEF PositionInRange, InRange, PatternOf
    <3>2. song'.pattern[at.pattern].count = song.pattern[at.pattern].count
      BY <1>1, <2>3, <2>5
    <3> QED
      BY <3>1, <3>2 DEF Count
  <2>13. PositionInRange'
    BY <1>1, <2>4, <2>11, <2>12 DEF PositionInRange, InRange, PatternOf, steps
  <2>14. stepTicks' \in Nat
    <3>1. stepTicks' = StepTicks(song', at.pattern)
      BY <2>1
    <3> QED
      BY <2>8, <3>1, StepTicksNat
  <2> QED
    BY <1>1, <1>8, <2>4, <2>6, <2>11, <2>13, <2>14, NewSongKeeps DEF SetPatternTiming
<1>9. ASSUME Call, NEW p \in Pattern, p.division = song.pattern[edit].division,
             p.count = song.pattern[edit].count, EditTo(p),
             UNCHANGED <<edit, source, playing, at, stepTicks>>
      PROVE  IInv'
  <2>1. /\ song' \in Song /\ song'.chain = song.chain /\ song'.sig = song.sig
        /\ Divisible(song')
        /\ \A k \in Patterns : song'.pattern[k] = IF k = edit THEN p ELSE song.pattern[k]
    BY <1>9, EditKeeps
  <2>2. /\ song'.pattern[at.pattern].division = song.pattern[at.pattern].division
        /\ Count(song'.pattern[at.pattern]) = Count(song.pattern[at.pattern])
    BY <1>1, <1>9, <2>1 DEF Count
  <2>3. PositionInRange'
    BY <1>1, <1>9, <2>1, <2>2 DEF PositionInRange, InRange, PatternOf
  <2> QED
    BY <1>1, <1>9, <2>1, <2>3, NewSongKeeps
<1>10. CASE SetPatternRepeatCount
  <2>1. PICK n \in 1 .. MaxRepeat : EditTo([song.pattern[edit] EXCEPT !.repeats = n])
    BY <1>10 DEF SetPatternRepeatCount
  <2>2. [song.pattern[edit] EXCEPT !.repeats = n] \in Pattern
    BY <1>2 DEF Pattern
  <2> QED
    BY <1>2, <1>9, <1>10, <2>1, <2>2 DEF SetPatternRepeatCount, Pattern
<1>11. CASE SetStepBarState
  <2>1. PICK b \in Bars, skip \in BOOLEAN :
          EditTo([song.pattern[edit] EXCEPT !.skipped = IF skip THEN @ \cup {b} ELSE @ \ {b}])
    BY <1>11 DEF SetStepBarState
  <2> DEFINE s == song.pattern[edit].skipped
             t == IF skip THEN s \cup {b} ELSE s \ {b}
  <2>2. t \in SUBSET Bars
    BY <1>2 DEF Pattern
  <2>3. [song.pattern[edit] EXCEPT !.skipped = t] \in Pattern
    BY <1>2, <2>2 DEF Pattern
  <2>4. EditTo([song.pattern[edit] EXCEPT !.skipped = t])
    BY <2>1
  <2> HIDE DEF t
  <2> QED
    BY <1>2, <1>9, <1>11, <2>3, <2>4 DEF SetStepBarState, Pattern
<1>12. CASE SetCurrentPatternIndex
  BY <1>1, <1>3, <1>12 DEF SetCurrentPatternIndex
<1>13. CASE SetPlaybackSource
  BY <1>1, <1>3, <1>13 DEF SetPlaybackSource
<1>14. ASSUME Call, NEW chain \in Seq(Patterns), Len(chain) \in 1 .. ChainLength,
              song' = [song EXCEPT !.chain = chain], at'.pattern = at.pattern,
              at'.bar = at.bar, at'.step = at.step, at' \in Position,
              at'.slot < Len(chain), UNCHANGED <<edit, source, playing, stepTicks>>
       PROVE  IInv'
  <2>1. /\ song' \in Song /\ song'.chain = chain /\ song'.sig = song.sig
        /\ song'.pattern = song.pattern
    BY <1>1, <1>14 DEF Song
  <2>2. Divisible(song')
    BY <1>1, <2>1 DEF Divisible
  <2>3. PositionInRange'
    BY <1>1, <1>14, <2>1 DEF PositionInRange, InRange, PatternOf
  <2> QED
    BY <1>1, <1>14, <2>1, <2>2, <2>3, NewSongKeeps
<1>15. CASE SetChainLength
  <2>1. PICK n \in 1 .. ChainLength :
          song' = [song EXCEPT !.chain = Resized(@, n)] /\ at' = SlotClamped(n)
    BY <1>15 DEF SetChainLength
  <2>2. Resized(song.chain, n) \in Seq(Patterns) /\ Len(Resized(song.chain, n)) = n
    <3>1. n \in Nat
      BY EngineAssumption
    <3>2. \A i \in 1 .. n : (IF i <= Len(song.chain) THEN song.chain[i]
                             ELSE song.chain[Len(song.chain)]) \in Patterns
      BY <1>1, <3>1, EngineAssumption
    <3> QED
      BY <3>1, <3>2 DEF Resized
  <2>3. /\ at' \in Position /\ at'.pattern = at.pattern /\ at'.bar = at.bar
        /\ at'.step = at.step /\ at'.slot < n
    <3>1. n \in Nat \ {0} /\ at.slot \in Nat /\ 0 \in 0 .. ChainLength - 1
      BY <1>1, EngineAssumption DEF Position
    <3>2. CASE at.slot >= n
      BY <1>1, <2>1, <3>1, <3>2 DEF SlotClamped, Position
    <3>3. CASE ~(at.slot >= n)
      BY <1>1, <2>1, <3>1, <3>3 DEF SlotClamped
    <3> QED
      BY <3>2, <3>3
  <2>4. song' = [song EXCEPT !.chain = Resized(song.chain, n)]
    BY <2>1
  <2> QED
    BY <1>14, <1>15, <2>2, <2>3, <2>4 DEF SetChainLength
<1>16. CASE SetChainPatternAt
  <2>1. PICK i \in DOMAIN song.chain, p \in Patterns : song' = [song EXCEPT !.chain[i] = p]
    BY <1>16 DEF SetChainPatternAt
  <2> DEFINE chain == [song.chain EXCEPT ![i] = p]
  <2>2. chain \in Seq(Patterns) /\ Len(chain) = Len(song.chain)
    BY <1>1
  <2>3. song' = [song EXCEPT !.chain = chain]
    BY <2>1
  <2>4. at' = at /\ at.slot < Len(song.chain)
    BY <1>1, <1>16 DEF SetChainPatternAt, PositionInRange, InRange
  <2> HIDE DEF chain
  <2> QED
    BY <1>1, <1>14, <1>16, <2>2, <2>3, <2>4 DEF SetChainPatternAt
<1>17. CASE SetBpm
  <2>1. StepTicks(song, at.pattern) \in Nat
    BY <1>1, SongFields, StepTicksNat
  <2> QED
    BY <1>1, <1>3, <1>17, <2>1 DEF SetBpm
<1>18. CASE ImportSong
  <2>1. PICK s \in Songs : song' = Finalized(s) /\ at' = Beginning(song'.chain[1])
    BY <1>18 DEF ImportSong
  <2>2. s \in Song /\ Len(s.chain) <= ChainLength
    BY EngineAssumption
  <2> DEFINE chain == IF s.chain = <<>> THEN <<FirstPattern>> ELSE s.chain
             sig == IF StepsPerBar(s.sig, 4) = 0 THEN <<4, 4>> ELSE s.sig
  <2>3. chain \in Seq(Patterns) /\ Len(chain) \in 1 .. ChainLength
    <3>1. s.chain \in Seq(Patterns)
      BY <2>2 DEF Song
    <3>2. CASE s.chain = <<>>
      BY <3>2, EngineAssumption
    <3>3. CASE s.chain # <<>>
      BY <2>2, <3>1, <3>3, EngineAssumption
    <3> QED
      BY <3>2, <3>3
  <2>4. sig \in TimeSigs
    BY <2>2, EngineAssumption DEF Song
  <2> DEFINE pattern == [p \in Patterns |->
                           [s.pattern[p] EXCEPT !.division = Fitted(@, sig)]]
  <2>5. song'.chain = chain /\ song'.sig = sig /\ song'.pattern = pattern
        /\ song' = [chain |-> chain, sig |-> sig, pattern |-> pattern]
    BY <2>1 DEF Finalized
  <2>11. StepsPerBar(sig, 4) # 0
    BY DEF StepsPerBar, StepLedgerMax
  <2> HIDE DEF sig
  <2>12. ASSUME NEW p \in Patterns
         PROVE  /\ pattern[p] \in Pattern
                /\ StepsPerBar(sig, pattern[p].division) # 0
    <3>1. s.pattern[p] \in Pattern
      BY <2>2 DEF Song
    <3>2. Fitted(s.pattern[p].division, sig) \in Divisions
      BY <3>1, EngineAssumption DEF Fitted, Pattern
    <3>3. pattern[p] = [s.pattern[p] EXCEPT !.division = Fitted(@, sig)]
      OBVIOUS
    <3>4. pattern[p].division = Fitted(s.pattern[p].division, sig)
      BY <3>1, <3>3 DEF Pattern
    <3>5. pattern[p] \in Pattern
      BY <3>1, <3>2, <3>3 DEF Pattern
    <3> QED
      BY <2>11, <3>4, <3>5 DEF Fitted
  <2> HIDE DEF chain, pattern
  <2>6. song' \in Song /\ song'.chain = chain
    <3>1. pattern \in [Patterns -> Pattern]
      BY <2>12 DEF pattern
    <3> QED
      BY <2>3, <2>4, <2>5, <3>1 DEF Song
  <2>7. Divisible(song')
    BY <2>5, <2>12 DEF Divisible
  <2>8. TypeOK' /\ TimingSupported'
    <3>1. chain[1] \in Patterns
      BY <2>3
    <3>2. at' \in Position
      BY <2>1, <2>6, <3>1, EngineAssumption DEF Beginning, Position, Bars, StepLedgerMax
    <3>3. calls' \in 0 .. MaxCalls /\ UNCHANGED <<pc, exhaustions>>
      BY <1>1, <1>18, EngineAssumption DEF ImportSong, Call, TypeOK
    <3> QED
      BY <1>1, <1>18, <2>3, <2>6, <2>7, <3>2, <3>3
         DEF ImportSong, TypeOK, TimingSupported
  <2>9. song'.chain[1] \in Patterns
    BY <2>3, <2>6
  <2>10. PositionInRange'
    <3>1. /\ Count(song'.pattern[song'.chain[1]]) \in 1 .. StepCount
          /\ StepsPerBar(song'.sig, song'.pattern[song'.chain[1]].division) \in 1 .. StepLedgerMax
      <4>1. song'.pattern[song'.chain[1]] \in Pattern /\ song'.sig \in TimeSigs
        BY <2>6, <2>9 DEF Song
      <4>2. song'.pattern[song'.chain[1]].division \in Divisions
        BY <4>1 DEF Pattern
      <4>3. StepsPerBar(song'.sig, song'.pattern[song'.chain[1]].division) \in 0 .. StepLedgerMax
        BY <4>1, <4>2, StepsPerBarRange
      <4>4. StepsPerBar(song'.sig, song'.pattern[song'.chain[1]].division) # 0
        BY <2>7, <2>9 DEF Divisible
      <4> QED
        BY <4>1, <4>3, <4>4, CountRange DEF StepLedgerMax
    <3>2. /\ at'.pattern = song'.chain[1] /\ at'.bar = 0 /\ at'.step = 0 /\ at'.slot = 0
      BY <2>1 DEF Beginning
    <3> QED
      BY <2>3, <2>6, <3>1, <3>2, EngineAssumption DEF PositionInRange, InRange, PatternOf
  <2> QED
    BY <2>8, <2>10 DEF IInv
<1> QED
  BY <1>4, <1>5, <1>6, <1>7, <1>8, <1>10, <1>11, <1>12, <1>13, <1>15, <1>16,
     <1>17, <1>18 DEF UserCall

-----------------------------------------------------------------------------
(* The inductive invariant holds in every state of every behaviour. *)
LEMMA Inductive == Spec => []IInv
<1>1. IInv /\ [Next]_vars => IInv'
  <2> SUFFICES ASSUME IInv, [Next]_vars PROVE IInv'
    OBVIOUS
  <2>1. CASE UNCHANGED vars
    <3>1. TypeOK'
      BY <2>1 DEF IInv, TypeOK, vars
    <3>2. TimingSupported' /\ PositionInRange'
      BY <2>1 DEF IInv, TimingSupported, PositionInRange, InRange, PatternOf, vars
    <3> QED
      BY <3>1, <3>2 DEF IInv
  <2> QED
    BY <2>1, AdvancePreserves, CallPreserves DEF Next
<1> QED
  BY <1>1, InitEstablishes, PTL DEF Spec

(* Every state of the step engine is well formed. *)
THEOREM TypeCorrect == Spec => []TypeOK
  BY Inductive, PTL DEF IInv

(* AdvanceStep, the transport and the edits, in any order, never leave the play
   position outside the pattern and the chain: the array accesses playback makes
   with it stay in bounds. *)
THEOREM PositionStaysInRange == Spec => []PositionInRange
  BY Inductive, PTL DEF IInv

(* No call can give a pattern a timing its bars cannot be divided by. *)
THEOREM TimingStaysSupported == Spec => []TimingSupported
  BY Inductive, PTL DEF IInv

(* The position, the song and the timing stay consistent through every call. *)
THEOREM PlayStateStaysSound == Spec => []PlayStateIsSound
  BY TypeCorrect, PositionStaysInRange, TimingStaysSupported, PTL DEF PlayStateIsSound

(* A bar AdvanceStep lands on is never one that is skipped. *)
THEOREM SkippedNeverPlayed == Spec => NeverPlaysSkipped
<1> DEFINE Safe == Landed => at'.bar \notin PatternOf(at').skipped
<1>1. IInv /\ [Next]_vars => [Safe]_vars
  <2> SUFFICES ASSUME IInv, Next, Landed PROVE at'.bar \notin PatternOf(at').skipped
    OBVIOUS
  <2>1. TypeOK /\ TimingSupported /\ Well(at)
    BY DEF IInv, TypeOK, PositionInRange, Well
  <2>2. ClampBar(at) = at
    BY <2>1, ClampBarIdle
  <2>3. Well(Left(at)) /\ UNCHANGED song
    BY <2>1, LeftWell DEF Next, Landed, BeginAdvance, AdvanceStep, AdvanceWithinBar,
       AdvanceToBar, EndOneShot, PassEmptyPattern, GiveUp, Land, StopAt, UserCall,
       Call, Start, Stop, Reset, Rewind, SetPatternStepCount, SetPatternTiming,
       SetPatternRepeatCount, SetStepBarState, SetCurrentPatternIndex,
       SetPlaybackSource, SetChainLength, SetChainPatternAt, SetBpm, ImportSong
  <2>4. AdvanceWithinBar \/ AdvanceToBar
    BY DEF Next, Landed, BeginAdvance, AdvanceStep, EndOneShot, PassEmptyPattern,
       GiveUp, StopAt, UserCall, Call, Start, Stop, Reset, SetPatternStepCount,
       SetPatternTiming, SetPatternRepeatCount, SetStepBarState,
       SetCurrentPatternIndex, SetPlaybackSource, SetChainLength,
       SetChainPatternAt, SetBpm, ImportSong
  <2>5. CASE AdvanceWithinBar
    <3>1. MoreStepsInBar(at) /\ at' = [at EXCEPT !.step = @ + 1]
      BY <2>2, <2>5 DEF AdvanceWithinBar, Land
    <3>2. at'.bar = at.bar /\ at'.pattern = at.pattern
      BY <2>1, <3>1 DEF Well, Position
    <3> QED
      BY <2>3, <3>1, <3>2 DEF MoreStepsInBar, PatternOf
  <2>6. CASE AdvanceToBar
    <3>1. ActiveBars(PatternOf(Left(at))) # {} /\ at' = SkipToActive(Left(at))
      BY <2>2, <2>6 DEF AdvanceToBar, Land
    <3>2. at'.bar \in ActiveBars(PatternOf(Left(at))) /\ at'.pattern = Left(at).pattern
      BY <2>1, <2>3, <3>1, SkipToActiveIsActive
    <3> QED
      BY <2>3, <3>2 DEF ActiveBars, PatternOf
  <2> QED
    BY <2>4, <2>5, <2>6
<1> QED
  BY <1>1, Inductive, PTL DEF Spec, NeverPlaysSkipped

-----------------------------------------------------------------------------
(* What the moves of AdvanceStep keep and change of a position. *)

SameEntry(r, q) == r.pattern = q.pattern /\ r.slot = q.slot /\ r.repeat = q.repeat

(* Moving to the start of a bar keeps the entry of the chain and the repeat. *)
LEMMA BarAndDirectionIs ==
  ASSUME NEW q \in Position, NEW bar, NEW dir
  PROVE  /\ SameEntry(BarAndDirection(q, bar, dir), q)
         /\ BarAndDirection(q, bar, dir).bar = bar /\ BarAndDirection(q, bar, dir).dir = dir
         /\ BarAndDirection(q, bar, dir).step = 0
<1> DEFINE r == [[[q EXCEPT !.step = 0] EXCEPT !.bar = bar] EXCEPT !.dir = dir]
<1>1. r = BarAndDirection(q, bar, dir)
  BY DEF BarAndDirection
<1>2. q = [pattern |-> q.pattern, bar |-> q.bar, step |-> q.step, dir |-> q.dir,
           repeat |-> q.repeat, slot |-> q.slot]
  BY DEF Position
<1>3. /\ r.pattern = q.pattern /\ r.slot = q.slot /\ r.repeat = q.repeat
      /\ r.bar = bar /\ r.dir = dir /\ r.step = 0
  BY <1>2
<1> HIDE DEF r
<1> QED
  BY <1>1, <1>3 DEF SameEntry

(* The next bar: same entry of the chain, and the direction unless in PingPong. *)
LEMMA NextBarIs ==
  ASSUME NEW q \in Position
  PROVE  /\ SameEntry(NextBar(q), q)
         /\ PatternOf(q).mode # "PingPong" =>
              /\ NextBar(q).dir = q.dir
              /\ NextBar(q).bar = IF Completes(q) THEN 0 ELSE q.bar + 1
<1>1. CASE PatternOf(q).mode = "PingPong"
  <2>1. \E bar, dir : NextBar(q) = BarAndDirection(q, bar, dir)
    <3> DEFINE n == Count(PatternOf(q))
    <3>1. CASE q.bar + q.dir >= n
      BY <1>1, <3>1 DEF NextBar, Bounce
    <3>2. CASE ~ (q.bar + q.dir >= n) /\ q.bar + q.dir < 0
      BY <1>1, <3>2 DEF NextBar, Bounce
    <3>3. CASE ~ (q.bar + q.dir >= n) /\ ~ (q.bar + q.dir < 0)
      BY <1>1, <3>3 DEF NextBar, Bounce
    <3> QED
      BY <3>1, <3>2, <3>3
  <2> QED
    BY <1>1, <2>1, BarAndDirectionIs
<1>2. CASE PatternOf(q).mode # "PingPong"
  <2>1. NextBar(q) = BarAndDirection(q, IF Completes(q) THEN 0 ELSE q.bar + 1, q.dir)
    BY <1>2 DEF NextBar, Onward
  <2> QED
    BY <2>1, BarAndDirectionIs
<1> QED
  BY <1>1, <1>2

(* ClampBar changes the bar alone. *)
LEMMA ClampBarIs ==
  ASSUME NEW q \in Position
  PROVE  /\ SameEntry(ClampBar(q), q) /\ ClampBar(q).dir = q.dir
         /\ PatternOf(ClampBar(q)) = PatternOf(q)
         /\ ClampBar(q).bar = IF q.bar >= Count(PatternOf(q)) THEN 0 ELSE q.bar
<1>1. CASE q.bar >= Count(PatternOf(q))
  BY <1>1 DEF ClampBar, SameEntry, Position, PatternOf
<1>2. CASE ~ (q.bar >= Count(PatternOf(q)))
  BY <1>2 DEF ClampBar, SameEntry, Position, PatternOf
<1> QED
  BY <1>1, <1>2

(* Completing a pattern repeats it, or goes on in the chain, or begins it anew. *)
Repeats(r, q) ==
  /\ r.pattern = q.pattern /\ r.slot = q.slot /\ r.repeat = q.repeat + 1 /\ r.dir = q.dir
  /\ q.repeat + 1 < PatternOf(q).repeats

GoesOn(r, q) ==
  /\ source = "SongChain" /\ ~ (q.repeat + 1 < PatternOf(q).repeats)
  /\ r.slot = NextSlot(q) /\ r.pattern = song.chain[NextSlot(q) + 1]
  /\ r.repeat = 0 /\ r.dir = IF PatternOf(q).mode = "Loop" THEN q.dir ELSE 1

BeginsAnew(r, q) ==
  /\ source # "SongChain" /\ ~ (q.repeat + 1 < PatternOf(q).repeats)
  /\ r.pattern = q.pattern /\ r.slot = q.slot
  /\ r.repeat = 0 /\ r.dir = IF PatternOf(q).mode = "Loop" THEN q.dir ELSE 1

(* These are all the ways, and none moves the bar or the step. *)
LEMMA CompletePatternIs ==
  ASSUME NEW q \in Position
  PROVE  LET r == CompletePattern(q) IN
         /\ Repeats(r, q) \/ GoesOn(r, q) \/ BeginsAnew(r, q)
         /\ r.bar = q.bar /\ r.step = q.step
<1> DEFINE dir == IF PatternOf(q).mode = "Loop" THEN q.dir ELSE 1
           over == [q EXCEPT !.repeat = 0, !.dir = IF PatternOf(q).mode = "Loop" THEN @ ELSE 1]
<1>1. /\ over.pattern = q.pattern /\ over.bar = q.bar /\ over.step = q.step
      /\ over.dir = dir /\ over.repeat = 0 /\ over.slot = q.slot
      /\ DOMAIN over = DOMAIN q
      /\ DOMAIN q = {"pattern", "bar", "step", "dir", "repeat", "slot"}
  BY DEF Position
<1>2. CASE q.repeat + 1 < PatternOf(q).repeats
  <2>1. CompletePattern(q) = [q EXCEPT !.repeat = @ + 1]
    BY <1>2 DEF CompletePattern
  <2>2. CompletePattern(q) = [pattern |-> q.pattern, bar |-> q.bar, step |-> q.step, dir |-> q.dir,
                              repeat |-> q.repeat + 1, slot |-> q.slot]
    BY <2>1 DEF Position
  <2> QED
    BY <1>2, <2>2 DEF Repeats
<1>3. CASE ~ (q.repeat + 1 < PatternOf(q).repeats) /\ source = "SongChain"
  <2>1. CompletePattern(q) = ChainAdvance(over)
    BY <1>3 DEF CompletePattern
  <2>2. NextSlot(over) = NextSlot(q)
    BY <1>1 DEF NextSlot
  <2>3. CompletePattern(q) = [over EXCEPT !.slot = NextSlot(q),
                                          !.pattern = song.chain[NextSlot(q) + 1]]
    BY <2>1, <2>2 DEF ChainAdvance
  <2> HIDE DEF over
  <2>4. /\ CompletePattern(q).slot = NextSlot(q)
        /\ CompletePattern(q).pattern = song.chain[NextSlot(q) + 1]
        /\ CompletePattern(q).repeat = 0
        /\ CompletePattern(q).dir = (IF PatternOf(q).mode = "Loop" THEN q.dir ELSE 1)
        /\ CompletePattern(q).bar = q.bar /\ CompletePattern(q).step = q.step
    BY <1>1, <2>3
  <2> QED
    BY <1>3, <2>4 DEF GoesOn
<1>4. CASE ~ (q.repeat + 1 < PatternOf(q).repeats) /\ source # "SongChain"
  <2>1. CompletePattern(q) = over
    BY <1>4 DEF CompletePattern
  <2> QED
    BY <1>1, <1>4, <2>1 DEF BeginsAnew
<1> QED
  BY <1>2, <1>3, <1>4

-----------------------------------------------------------------------------
(* How AdvanceStep passes patterns without a bar to play: when it gives up, it has been
   through every entry of the chain. *)

(* Playback goes through such a pattern without landing in it. *)
Passable(p) == ActiveBars(p) = {} \/ PassedUnheard(p)

(* The pattern of chain entry k, counted from 0, and the entry d before that of q. *)
EntryAt(k) == song.pattern[song.chain[k + 1]]
SlotBehind(q, d) == IF d <= q.slot THEN q.slot - d ELSE q.slot - d + Len(song.chain)

(* In n passes playback entered a chain entries to get to q, and went through those
   behind it; a pattern is repeated fewer than MaxRepeat times. *)
Entered(q, n, a) ==
  /\ n <= MaxRepeat * a + q.repeat
  /\ a > 0 => q.pattern = song.chain[q.slot + 1]
  /\ \A d \in 1 .. a - 1 : d < Len(song.chain) => Passable(EntryAt(SlotBehind(q, d)))

(* Only PingPong goes backwards. *)
DirectionOK(q) == PatternOf(q).mode # "PingPong" => q.dir = 1

(* Behind an empty pattern playback is at the beginning of the one it entered. *)
FreshlyEntered(q) ==
  /\ q.bar = 0 /\ q.step = 0
  /\ ActiveBars(PatternOf(q)) # {} => q.repeat = 0 /\ q.dir = 1

(* AdvanceStep never loses count of the way it has come: as many passes as it has made
   through empty patterns, so many entries of the chain lie behind it, all passed. *)
PassInv ==
  /\ at.repeat < MaxRepeat
  /\ DirectionOK(at)
  /\ pc = "advance" =>
       /\ playing
       /\ exhaustions > 0 => FreshlyEntered(at)
       /\ source = "SongChain" => \E a \in Nat : Entered(at, exhaustions, a)

(* What Entered says depends on the entry alone. *)
LEMMA EnteredOfEntry ==
  ASSUME NEW q, NEW r, SameEntry(r, q), NEW n, NEW a, Entered(q, n, a)
  PROVE  Entered(r, n, a)
<1>1. \A d : SlotBehind(r, d) = SlotBehind(q, d)
  BY DEF SlotBehind, SameEntry
<1> QED
  BY <1>1 DEF Entered, SameEntry

(* Completing a pattern that is passed counts as a pass. *)
LEMMA CompletePatternEnters ==
  ASSUME TypeOK, TimingSupported, source = "SongChain",
         NEW q, AtBarStart(q), q.repeat < MaxRepeat,
         NEW n \in Nat, NEW a \in Nat, Entered(q, n, a), a > 0 => Passable(PatternOf(q))
  PROVE  \E b \in Nat : Entered(CompletePattern(q), n + 1, b)
<1> DEFINE r == CompletePattern(q)
           len == Len(song.chain)
<1>1. /\ q \in Position /\ q.slot \in Nat /\ q.slot < len /\ q.repeat \in Nat
      /\ len \in Nat \ {0} /\ MaxRepeat \in Nat \ {0}
  BY SongFields, EngineAssumption DEF AtBarStart, Position
<1>2. Repeats(r, q) \/ GoesOn(r, q)
  BY <1>1, CompletePatternIs DEF BeginsAnew
<1>3. MaxRepeat * a \in Nat
  BY <1>1
<1>4. n <= MaxRepeat * a + q.repeat
  BY DEF Entered
<1> HIDE DEF r, len
<1>5. CASE Repeats(r, q)
  <2>1. \A d : SlotBehind(r, d) = SlotBehind(q, d)
    BY <1>5 DEF SlotBehind, Repeats
  <2>2. n + 1 <= MaxRepeat * a + r.repeat
    BY <1>1, <1>3, <1>4, <1>5 DEF Repeats
  <2>3. Entered(r, n + 1, a)
    BY <1>5, <2>1, <2>2 DEF Entered, Repeats
  <2> QED
    BY <2>3 DEF r
<1>6. CASE GoesOn(r, q)
  <2>1. r.slot = (q.slot + 1) % len /\ r.pattern = song.chain[r.slot + 1] /\ r.repeat = 0
    BY <1>6 DEF GoesOn, NextSlot, len
  <2>2. r.slot = IF q.slot + 1 = len THEN 0 ELSE q.slot + 1
    BY <1>1, <2>1
  <2>3. n + 1 <= MaxRepeat * (a + 1) + r.repeat
    <3>1. MaxRepeat * (a + 1) = MaxRepeat * a + MaxRepeat
      BY <1>1
    <3> QED
      BY <1>1, <1>3, <1>4, <2>1, <3>1
  <2>4. ASSUME NEW d \in 1 .. (a + 1) - 1, d < len
        PROVE  Passable(EntryAt(SlotBehind(r, d)))
    <3>1. CASE d = 1
      <4>1. SlotBehind(r, d) = q.slot
        BY <1>1, <2>2, <2>4, <3>1 DEF SlotBehind, len
      <4>2. a > 0
        BY <2>4, <3>1
      <4>3. PatternOf(q) = EntryAt(q.slot)
        BY <4>2 DEF Entered, PatternOf, EntryAt
      <4> QED
        BY <4>1, <4>2, <4>3
    <3>2. CASE d # 1
      <4>1. SlotBehind(r, d) = SlotBehind(q, d - 1)
        BY <1>1, <2>2, <2>4, <3>2 DEF SlotBehind, len
      <4>2. d - 1 \in 1 .. a - 1 /\ d - 1 < len
        BY <1>1, <2>4, <3>2
      <4>3. Passable(EntryAt(SlotBehind(q, d - 1)))
        BY <4>2 DEF Entered, len
      <4> QED
        BY <4>1, <4>3
    <3> QED
      BY <3>1, <3>2
  <2>5. Entered(r, n + 1, a + 1)
    BY <2>1, <2>3, <2>4 DEF Entered, len
  <2> QED
    BY <2>5 DEF r
<1> QED
  BY <1>2, <1>5, <1>6

(* One pass fewer than there were. *)
LEMMA EnteredFewer ==
  ASSUME NEW q, q.repeat \in Nat, NEW n \in Nat, NEW a \in Nat, Entered(q, n + 1, a)
  PROVE  Entered(q, n, a)
<1>1. MaxRepeat * a \in Nat
  BY EngineAssumption
<1>2. n <= MaxRepeat * a + q.repeat
  BY <1>1 DEF Entered
<1> QED
  BY <1>2 DEF Entered

(* The patterns and the directions that leaving a bar leads to. *)
LEMMA CompletePatternKeeps ==
  ASSUME TypeOK, TimingSupported, NEW q, AtBarStart(q), q.repeat < MaxRepeat, DirectionOK(q)
  PROVE  CompletePattern(q).repeat < MaxRepeat /\ DirectionOK(CompletePattern(q))
<1> DEFINE r == CompletePattern(q)
<1>1. q \in Position /\ q.pattern \in Patterns /\ q.repeat \in Nat /\ MaxRepeat \in Nat \ {0}
  BY EngineAssumption DEF AtBarStart, Position
<1>2. Repeats(r, q) \/ GoesOn(r, q) \/ BeginsAnew(r, q)
  BY <1>1, CompletePatternIs
<1>3. PatternOf(q).repeats \in 1 .. MaxRepeat
  BY <1>1, SongFields DEF PatternOf, Pattern
<1> HIDE DEF r
<1>4. r.repeat < MaxRepeat
  BY <1>1, <1>2, <1>3 DEF Repeats, GoesOn, BeginsAnew
<1>5. DirectionOK(r)
  BY <1>2 DEF Repeats, GoesOn, BeginsAnew, DirectionOK, PatternOf
<1> QED
  BY <1>4, <1>5 DEF r

(* The next bar is of the same pattern, still in a direction its mode has. *)
LEMMA NextBarKeeps ==
  ASSUME NEW q \in Position, q.repeat < MaxRepeat, DirectionOK(q)
  PROVE  NextBar(q).repeat < MaxRepeat /\ DirectionOK(NextBar(q))
         /\ PatternOf(NextBar(q)) = PatternOf(q)
BY NextBarIs DEF SameEntry, DirectionOK, PatternOf

(* So is the bar that leaving one leads to, unless that completes the pattern. *)
LEMMA LeftKeeps ==
  ASSUME TypeOK, TimingSupported, NEW q, Well(q), q.repeat < MaxRepeat, DirectionOK(q)
  PROVE  /\ Left(q).repeat < MaxRepeat /\ DirectionOK(Left(q))
         /\ ~ Completes(q) => SameEntry(Left(q), q)
         /\ Completes(q) => SameEntry(Left(q), CompletePattern(NextBar(q)))
<1> DEFINE m == IF Completes(q) THEN CompletePattern(NextBar(q)) ELSE NextBar(q)
<1>1. q \in Position
  BY DEF Well
<1>2. AtBarStart(NextBar(q)) /\ SameEntry(NextBar(q), q)
  BY <1>1, NextBarAtBarStart, NextBarIs
<1>3. NextBar(q).repeat < MaxRepeat /\ DirectionOK(NextBar(q))
  BY <1>1, NextBarKeeps
<1>4. AtBarStart(m) /\ m.repeat < MaxRepeat /\ DirectionOK(m)
  BY <1>2, <1>3, CompletePatternAtBarStart, CompletePatternKeeps
<1>5. SameEntry(ClampBar(m), m) /\ ClampBar(m).dir = m.dir /\ PatternOf(ClampBar(m)) = PatternOf(m)
  BY <1>4, ClampBarIs DEF AtBarStart
<1>6. Left(q) = ClampBar(m)
  BY DEF Left
<1> HIDE DEF m
<1>7. Left(q).repeat < MaxRepeat /\ DirectionOK(Left(q)) /\ SameEntry(Left(q), m)
  BY <1>4, <1>5, <1>6 DEF SameEntry, DirectionOK
<1>8. ~ Completes(q) => SameEntry(Left(q), q)
  BY <1>2, <1>7 DEF m, SameEntry
<1>9. Completes(q) => SameEntry(Left(q), CompletePattern(NextBar(q)))
  BY <1>7 DEF m
<1> QED
  BY <1>7, <1>8, <1>9

(* A pattern that was just entered, and is left for one without a bar to play, has none
   itself or is passed unheard. *)
LEMMA LeavesPassable ==
  ASSUME TypeOK, TimingSupported, NEW q, Well(q), FreshlyEntered(q), DirectionOK(q),
         q.repeat < MaxRepeat, ~ MoreStepsInBar(q), ActiveBars(PatternOf(Left(q))) = {}
  PROVE  Passable(PatternOf(q))
<1> SUFFICES ASSUME ActiveBars(PatternOf(q)) # {} PROVE PassedUnheard(PatternOf(q))
  BY DEF Passable
<1>1. /\ q.bar = 0 /\ q.step = 0 /\ q.repeat = 0 /\ q.dir = 1
      /\ q \in Position /\ q.pattern \in Patterns
  BY DEF FreshlyEntered, Well, Position
<1>2. /\ Count(PatternOf(q)) \in 1 .. StepCount /\ StepCount \in Nat
      /\ PatternOf(q).repeats \in 1 .. MaxRepeat /\ MaxRepeat \in Nat
      /\ StepsPerBar(song.sig, PatternOf(q).division) \in 1 .. StepLedgerMax
  BY <1>1, SongFields, CountRange, EngineAssumption DEF PatternOf, Pattern
<1>3. Completes(q)
  <2> SUFFICES ASSUME ~ Completes(q) PROVE FALSE
    OBVIOUS
  <2>1. SameEntry(Left(q), q)
    BY LeftKeeps
  <2>2. PatternOf(Left(q)) = PatternOf(q)
    BY <2>1 DEF SameEntry, PatternOf
  <2> QED
    BY <2>2
<1>4. PatternOf(q).mode # "PingPong" /\ Count(PatternOf(q)) = 1
  <2>1. CASE PatternOf(q).mode = "PingPong"
    BY <1>1, <1>3, <2>1 DEF Completes
  <2>2. CASE PatternOf(q).mode # "PingPong"
    BY <1>1, <1>2, <1>3, <2>2 DEF Completes
  <2> QED
    BY <2>1, <2>2
<1>5. StepsPerBar(song.sig, PatternOf(q).division) = 1
  <2>1. ActiveBars(PatternOf(q)) \subseteq {0} \ PatternOf(q).skipped
    BY <1>4 DEF ActiveBars
  <2>2. 0 \notin PatternOf(q).skipped
    BY <2>1
  <2>3. ~ (0 + 1 < StepsPerBar(song.sig, PatternOf(q).division))
    BY <1>1, <2>2 DEF MoreStepsInBar
  <2> QED
    BY <1>2, <2>3
<1>6. PatternOf(q).repeats = 1
  <2> DEFINE m == NextBar(q)
  <2>1. SameEntry(m, q) /\ AtBarStart(m) /\ PatternOf(m) = PatternOf(q)
    BY <1>1, NextBarIs, NextBarAtBarStart, NextBarKeeps
  <2>2. Repeats(CompletePattern(m), m) \/ GoesOn(CompletePattern(m), m)
          \/ BeginsAnew(CompletePattern(m), m)
    BY <2>1, CompletePatternIs DEF AtBarStart
  <2>3. SameEntry(Left(q), CompletePattern(m))
    BY <1>3, LeftKeeps
  <2> HIDE DEF m
  <2>4. CASE Repeats(CompletePattern(m), m)
    <3>1. PatternOf(Left(q)) = PatternOf(q)
      BY <2>1, <2>3, <2>4 DEF Repeats, SameEntry, PatternOf
    <3> QED
      BY <3>1
  <2>5. CASE ~ (m.repeat + 1 < PatternOf(m).repeats)
    BY <1>1, <1>2, <2>1, <2>5 DEF SameEntry
  <2> QED
    BY <2>2, <2>4, <2>5 DEF GoesOn, BeginsAnew
<1> QED
  BY <1>4, <1>5, <1>6 DEF PassedUnheard

(* Leaving a bar enters at most one entry more. *)
LEMMA LeftEnters ==
  ASSUME TypeOK, TimingSupported, source = "SongChain",
         NEW q, Well(q), q.repeat < MaxRepeat, DirectionOK(q),
         NEW n \in Nat, NEW a \in Nat, Entered(q, n, a), a > 0 => Passable(PatternOf(q))
  PROVE  \E b \in Nat : Entered(Left(q), n, b)
<1>1. CASE ~ Completes(q)
  <2>1. SameEntry(Left(q), q)
    BY <1>1, LeftKeeps
  <2> QED
    BY <2>1, EnteredOfEntry
<1>2. CASE Completes(q)
  <2> DEFINE m == NextBar(q)
             r == CompletePattern(m)
  <2>1. q \in Position
    BY DEF Well
  <2>2. AtBarStart(m) /\ SameEntry(m, q) /\ PatternOf(m) = PatternOf(q) /\ m.repeat < MaxRepeat
    BY <2>1, NextBarIs, NextBarAtBarStart, NextBarKeeps
  <2> HIDE DEF m
  <2>3. Entered(m, n, a)
    BY <2>2, EnteredOfEntry
  <2>4. PICK b \in Nat : Entered(r, n + 1, b)
    BY <2>2, <2>3, CompletePatternEnters
  <2>5. AtBarStart(r)
    BY <2>2, CompletePatternAtBarStart
  <2>6. r.repeat \in Nat
    BY <2>5 DEF AtBarStart, Position
  <2> HIDE DEF r
  <2>7. Entered(r, n, b)
    BY <2>4, <2>6, EnteredFewer
  <2>8. SameEntry(Left(q), r)
    BY <1>2, LeftKeeps DEF r, m
  <2> QED
    BY <2>7, <2>8, EnteredOfEntry
<1> QED
  BY <1>1, <1>2

(* What AdvanceStep starts a pass from. *)
LEMMA PassState ==
  ASSUME IInv, PassInv, pc = "advance"
  PROVE  /\ TypeOK /\ TimingSupported /\ Well(at) /\ ClampBar(at) = at
         /\ at.repeat < MaxRepeat /\ DirectionOK(at) /\ playing
         /\ exhaustions \in Nat
<1>1. TypeOK /\ TimingSupported /\ Well(at)
  BY DEF IInv, TypeOK, PositionInRange, Well
<1>2. ClampBar(at) = at
  BY <1>1, ClampBarIdle
<1>3. exhaustions \in Nat
  BY EngineAssumption DEF IInv, TypeOK
<1> QED
  BY <1>1, <1>2, <1>3 DEF PassInv

(* The entries behind an empty pattern that was reached. *)
LEMMA WayToEmptyPattern ==
  ASSUME IInv, PassInv, ReachesEmptyPattern(at), source = "SongChain"
  PROVE  \E a \in Nat : /\ Entered(at, exhaustions, a)
                        /\ a > 0 => Passable(PatternOf(at))
<1>1. /\ pc = "advance" /\ ~ MoreStepsInBar(at)
      /\ ActiveBars(PatternOf(Left(at))) = {}
  BY DEF ReachesEmptyPattern
<1>2. /\ TypeOK /\ TimingSupported /\ Well(at) /\ at.repeat < MaxRepeat /\ DirectionOK(at)
      /\ exhaustions \in Nat
  BY <1>1, PassState
<1>3. CASE exhaustions = 0
  <2>1. at.repeat \in Nat /\ MaxRepeat * 0 = 0
    BY <1>2, EngineAssumption DEF Well, Position
  <2>2. Entered(at, exhaustions, 0)
    BY <1>3, <2>1 DEF Entered
  <2> QED
    BY <2>2
<1>4. CASE exhaustions > 0
  <2>1. FreshlyEntered(at) /\ \E a \in Nat : Entered(at, exhaustions, a)
    BY <1>1, <1>4 DEF PassInv
  <2>2. Passable(PatternOf(at))
    BY <1>1, <1>2, <2>1, LeavesPassable
  <2> QED
    BY <2>1, <2>2
<1> QED
  BY <1>2, <1>3, <1>4

(* A pass leads to the beginning of a pattern, and counts. *)
LEMMA PassKeepsPassInv ==
  ASSUME IInv, PassInv, PassEmptyPattern
  PROVE  PassInv'
<1> DEFINE l == Left(at)
           r == CompletePattern(l)
           s == [r EXCEPT !.bar = 0, !.step = 0]
<1>1. pc = "advance"
  BY DEF PassEmptyPattern, ReachesEmptyPattern
<1>2. /\ TypeOK /\ TimingSupported /\ Well(at) /\ ClampBar(at) = at
      /\ at.repeat < MaxRepeat /\ DirectionOK(at) /\ playing /\ exhaustions \in Nat
  BY <1>1, PassState
<1>3. /\ ReachesEmptyPattern(at) /\ at' = s /\ exhaustions' = exhaustions + 1
      /\ UNCHANGED <<song, source, playing, pc>>
  BY <1>2 DEF PassEmptyPattern, CountExhaustion
<1>4. ActiveBars(PatternOf(l)) = {}
  BY <1>3 DEF ReachesEmptyPattern
<1>5. Well(l) /\ l.repeat < MaxRepeat /\ DirectionOK(l)
  BY <1>2, LeftWell, LeftKeeps
<1> HIDE DEF l
<1>6. AtBarStart(l)
  <2>1. \E m : AtBarStart(m) /\ l = ClampBar(m)
    BY <1>2, NextBarAtBarStart, CompletePatternAtBarStart DEF l, Left
  <2>2. PICK m : AtBarStart(m) /\ l = ClampBar(m)
    BY <2>1
  <2>3. l.step = 0
    BY <2>2 DEF ClampBar, AtBarStart, Position
  <2> QED
    BY <1>5, <2>3 DEF Well, InRange, AtBarStart
<1>7. AtBarStart(r) /\ r.repeat < MaxRepeat /\ DirectionOK(r)
  BY <1>2, <1>5, <1>6, CompletePatternAtBarStart, CompletePatternKeeps
<1>8. Repeats(r, l) \/ GoesOn(r, l) \/ BeginsAnew(r, l)
  BY <1>6, CompletePatternIs DEF AtBarStart
<1> HIDE DEF r
<1>9. SameEntry(s, r) /\ s.dir = r.dir /\ s.bar = 0 /\ s.step = 0
  BY <1>7 DEF AtBarStart, Position, SameEntry
<1> HIDE DEF s
<1>10. at'.repeat < MaxRepeat /\ DirectionOK(at)'
  BY <1>3, <1>7, <1>9 DEF SameEntry, DirectionOK, PatternOf
<1>11. FreshlyEntered(at)'
  <2>1. ActiveBars(PatternOf(r)) # {} => r.repeat = 0 /\ r.dir = 1
    <3>1. CASE Repeats(r, l) \/ BeginsAnew(r, l)
      BY <1>4, <3>1 DEF Repeats, BeginsAnew, PatternOf
    <3>2. CASE GoesOn(r, l)
      BY <1>5, <3>2 DEF GoesOn, DirectionOK
    <3> QED
      BY <1>8, <3>1, <3>2
  <2>2. PatternOf(s) = PatternOf(r)
    BY <1>9 DEF SameEntry, PatternOf
  <2>3. FreshlyEntered(s)
    BY <1>9, <2>1, <2>2 DEF FreshlyEntered, SameEntry
  <2> QED
    BY <1>3, <2>3 DEF FreshlyEntered, PatternOf
<1>12. source = "SongChain" => \E a \in Nat : Entered(at, exhaustions, a)'
  <2> SUFFICES ASSUME source = "SongChain" PROVE \E a \in Nat : Entered(at, exhaustions, a)'
    OBVIOUS
  <2>1. PICK a \in Nat : Entered(at, exhaustions, a) /\ (a > 0 => Passable(PatternOf(at)))
    BY <1>3, WayToEmptyPattern
  <2>2. PICK b \in Nat : Entered(l, exhaustions, b)
    BY <1>2, <2>1, LeftEnters DEF l
  <2>3. Passable(PatternOf(l))
    BY <1>4 DEF Passable
  <2>4. PICK c \in Nat : Entered(r, exhaustions + 1, c)
    BY <1>2, <1>5, <1>6, <2>2, <2>3, CompletePatternEnters DEF r
  <2>5. Entered(s, exhaustions + 1, c)
    BY <1>9, <2>4, EnteredOfEntry
  <2>6. Entered(at, exhaustions, c)'
    BY <1>3, <2>5 DEF Entered, EntryAt, SlotBehind, Passable, PassedUnheard
  <2> QED
    BY <2>6
<1> QED
  BY <1>2, <1>3, <1>10, <1>11, <1>12 DEF PassInv

(* After as many passes as AdvanceStep allows it has been through the whole chain. *)
LEMMA GivesUpBehindChain ==
  ASSUME IInv, PassInv, ReachesEmptyPattern(at), exhaustions >= ExhaustionLimit,
         source = "SongChain", NEW k \in DOMAIN song.chain
  PROVE  Passable(song.pattern[song.chain[k]])
<1> DEFINE len == Len(song.chain)
<1>1. /\ TypeOK /\ TimingSupported /\ Well(at) /\ at.repeat < MaxRepeat /\ exhaustions \in Nat
  BY PassState DEF ReachesEmptyPattern
<1>2. /\ at.slot \in Nat /\ at.slot < len /\ len \in Nat \ {0} /\ at.repeat \in Nat
      /\ k \in 1 .. len /\ MaxRepeat \in Nat \ {0}
      /\ ExhaustionFactor \in Nat /\ MaxRepeat <= ExhaustionFactor
  <2>1. song.chain \in Seq(Patterns)
    BY DEF IInv, TypeOK, Song
  <2> QED
    BY <1>1, <2>1, EngineAssumption DEF TypeOK, Well, InRange, Position
<1>3. PICK a \in Nat : Entered(at, exhaustions, a) /\ (a > 0 => Passable(PatternOf(at)))
  BY WayToEmptyPattern
<1>4. exhaustions >= ExhaustionFactor * len
  BY DEF ExhaustionLimit
<1> HIDE DEF len
<1>5. a >= len
  <2> SUFFICES ASSUME a <= len - 1 PROVE FALSE
    BY <1>2
  <2>1. MaxRepeat * a <= MaxRepeat * (len - 1)
    BY <1>2
  <2>2. MaxRepeat * (len - 1) = MaxRepeat * len - MaxRepeat
    BY <1>2
  <2>3. MaxRepeat * len <= ExhaustionFactor * len
    BY <1>2
  <2>4. MaxRepeat * a \in Nat /\ MaxRepeat * len \in Nat /\ ExhaustionFactor * len \in Nat
        /\ MaxRepeat * (len - 1) \in Int
    BY <1>2
  <2>5. exhaustions <= MaxRepeat * a + at.repeat
    BY <1>3 DEF Entered
  <2> QED
    BY <1>1, <1>2, <1>4, <2>1, <2>2, <2>3, <2>4, <2>5
<1>6. Passable(PatternOf(at)) /\ PatternOf(at) = EntryAt(at.slot)
  BY <1>2, <1>3, <1>5 DEF Entered, PatternOf, EntryAt
<1>7. song.pattern[song.chain[k]] = EntryAt(k - 1)
  BY <1>2 DEF EntryAt
<1>8. CASE k - 1 = at.slot
  BY <1>6, <1>7, <1>8
<1>9. CASE k - 1 # at.slot
  <2> DEFINE d == IF k - 1 < at.slot THEN at.slot - (k - 1) ELSE at.slot - (k - 1) + len
  <2>1. d \in 1 .. len - 1
    BY <1>2, <1>9
  <2>2. SlotBehind(at, d) = k - 1
    BY <1>2, <1>9 DEF SlotBehind, len
  <2> HIDE DEF d
  <2>3. d \in 1 .. a - 1 /\ d < len
    BY <1>2, <1>5, <2>1
  <2>4. Passable(EntryAt(SlotBehind(at, d)))
    BY <1>3, <2>3 DEF Entered, len
  <2> QED
    BY <1>7, <2>2, <2>4
<1> QED
  BY <1>8, <1>9

-----------------------------------------------------------------------------
(* PassInv holds throughout. *)

(* Outside AdvanceStep it only speaks of the repeat count and the direction. *)
LEMMA IdleKeepsPassInv ==
  ASSUME pc' = "idle", at'.repeat < MaxRepeat, DirectionOK(at)'
  PROVE  PassInv'
  BY DEF PassInv

(* No edit changes the mode of a pattern. *)
LEMMA EditKeepsModes ==
  ASSUME IInv, NEW p \in Pattern, p.mode = song.pattern[edit].mode, EditTo(p),
         NEW k \in Patterns
  PROVE  song'.pattern[k].mode = song.pattern[k].mode
<1>1. song.pattern \in [Patterns -> Pattern] /\ song \in Song
  BY DEF IInv, TypeOK, Song
<1>2. song' = [song EXCEPT !.pattern = [song.pattern EXCEPT ![edit] = p]]
  BY DEF EditTo
<1>3. song'.pattern = [song.pattern EXCEPT ![edit] = p]
  BY <1>1, <1>2 DEF Song
<1> QED
  BY <1>1, <1>3

(* The calls of the user keep it: they leave playback where it is in its pattern, or
   send it to the beginning of one. *)
LEMMA CallKeepsPassInv ==
  ASSUME IInv, PassInv, UserCall
  PROVE  PassInv'
<1>1. /\ pc = "idle" /\ pc' = "idle"
  BY DEF UserCall, Call, Start, Stop, Reset, SetPatternStepCount, SetPatternTiming,
     SetPatternRepeatCount, SetStepBarState, SetCurrentPatternIndex,
     SetPlaybackSource, SetChainLength, SetChainPatternAt, SetBpm, ImportSong
<1>2. /\ song \in Song /\ song.pattern \in [Patterns -> Pattern]
      /\ edit \in Patterns /\ at \in Position /\ at.pattern \in Patterns
      /\ song.pattern[edit] \in Pattern
      /\ 0 < MaxRepeat
  BY EngineAssumption DEF IInv, TypeOK, Song, Position
<1>3. at.repeat < MaxRepeat /\ DirectionOK(at)
  BY DEF PassInv
<1>4. ASSUME at'.repeat = 0, at'.dir = 1 PROVE PassInv'
  BY <1>1, <1>2, <1>4, IdleKeepsPassInv DEF DirectionOK
<1>5. ASSUME at'.repeat = at.repeat, at'.dir = at.dir, at'.pattern = at.pattern,
             song'.pattern[at.pattern].mode = song.pattern[at.pattern].mode
      PROVE  PassInv'
  BY <1>1, <1>3, <1>5, IdleKeepsPassInv DEF DirectionOK, PatternOf
<1>6. ASSUME UNCHANGED at, NEW p \in Pattern, p.mode = song.pattern[edit].mode, EditTo(p)
      PROVE  PassInv'
  BY <1>2, <1>5, <1>6, EditKeepsModes
<1>7. ASSUME Rewind PROVE PassInv'
  <2>1. at' = Rewound
    BY <1>7 DEF Rewind
  <2>2. Rewound.repeat = 0 /\ Rewound.dir = 1
    BY DEF Rewound, Beginning
  <2> QED
    BY <1>4, <2>1, <2>2
<1>8. CASE Start
  BY <1>7, <1>8 DEF Start
<1>9. CASE Stop
  BY <1>5, <1>9 DEF Stop
<1>10. CASE Reset
  BY <1>7, <1>10 DEF Reset
<1>11. CASE SetPatternStepCount
  <2>1. PICK n \in 1 .. StepCount :
          /\ EditTo([song.pattern[edit] EXCEPT !.count = n])
          /\ at' = IF at.bar >= n THEN [at EXCEPT !.bar = 0] ELSE at
    BY <1>11 DEF SetPatternStepCount
  <2> DEFINE p == [song.pattern[edit] EXCEPT !.count = n]
  <2>2. n \in Nat
    BY EngineAssumption
  <2>3. p \in Pattern /\ p.mode = song.pattern[edit].mode
    BY <1>2, <2>2 DEF Pattern
  <2> HIDE DEF p
  <2>4. song'.pattern[at.pattern].mode = song.pattern[at.pattern].mode
    BY <1>2, <2>1, <2>3, EditKeepsModes DEF p
  <2>5. at'.repeat = at.repeat /\ at'.dir = at.dir /\ at'.pattern = at.pattern
    BY <1>2, <2>1 DEF Position
  <2> QED
    BY <1>5, <2>4, <2>5
<1>12. CASE SetPatternTiming
  <2>1. PICK division \in Divisions, sig \in TimeSigs :
          /\ song' = Retimed(division, sig)
          /\ \E steps : at' = IF at.step >= steps THEN [at EXCEPT !.step = steps - 1] ELSE at
    BY <1>12 DEF SetPatternTiming
  <2> DEFINE p == [song.pattern[edit] EXCEPT !.division = division]
  <2>2. song' = [song EXCEPT !.sig = sig, !.pattern = [song.pattern EXCEPT ![edit] = p]]
    BY <2>1 DEF Retimed
  <2>3. p.mode = song.pattern[edit].mode
    BY <1>2 DEF Pattern
  <2> HIDE DEF p
  <2>4. song'.pattern = [song.pattern EXCEPT ![edit] = p]
    BY <1>2, <2>2 DEF Song
  <2>5. song'.pattern[at.pattern].mode = song.pattern[at.pattern].mode
    BY <1>2, <2>3, <2>4
  <2>6. at'.repeat = at.repeat /\ at'.dir = at.dir /\ at'.pattern = at.pattern
    BY <1>2, <2>1 DEF Position
  <2> QED
    BY <1>5, <2>5, <2>6
<1>13. CASE SetPatternRepeatCount
  <2>1. PICK n \in 1 .. MaxRepeat : EditTo([song.pattern[edit] EXCEPT !.repeats = n])
    BY <1>13 DEF SetPatternRepeatCount
  <2>2. /\ [song.pattern[edit] EXCEPT !.repeats = n] \in Pattern
        /\ [song.pattern[edit] EXCEPT !.repeats = n].mode = song.pattern[edit].mode
    BY <1>2 DEF Pattern
  <2> QED
    BY <1>6, <1>13, <2>1, <2>2 DEF SetPatternRepeatCount
<1>14. CASE SetStepBarState
  <2>1. PICK b \in Bars, skip \in BOOLEAN :
          EditTo([song.pattern[edit] EXCEPT !.skipped = IF skip THEN @ \cup {b} ELSE @ \ {b}])
    BY <1>14 DEF SetStepBarState
  <2> DEFINE s == song.pattern[edit].skipped
             t == IF skip THEN s \cup {b} ELSE s \ {b}
  <2>2. t \in SUBSET Bars
    BY <1>2 DEF Pattern
  <2>3. EditTo([song.pattern[edit] EXCEPT !.skipped = t])
    BY <2>1
  <2> HIDE DEF t
  <2>4. /\ [song.pattern[edit] EXCEPT !.skipped = t] \in Pattern
        /\ [song.pattern[edit] EXCEPT !.skipped = t].mode = song.pattern[edit].mode
    BY <1>2, <2>2 DEF Pattern
  <2> QED
    BY <1>6, <1>14, <2>3, <2>4 DEF SetStepBarState
<1>15. CASE SetCurrentPatternIndex
  BY <1>5, <1>15 DEF SetCurrentPatternIndex
<1>16. CASE SetPlaybackSource
  BY <1>5, <1>16 DEF SetPlaybackSource
<1>17. ASSUME NEW chain, song' = [song EXCEPT !.chain = chain],
              NEW slot, at' \in {at, [at EXCEPT !.slot = slot]}
       PROVE  PassInv'
  <2>1. song'.pattern = song.pattern
    BY <1>2, <1>17 DEF Song
  <2>2. at'.repeat = at.repeat /\ at'.dir = at.dir /\ at'.pattern = at.pattern
    BY <1>2, <1>17 DEF Position
  <2> QED
    BY <1>5, <2>1, <2>2
<1>18. CASE SetChainLength
  <2>1. PICK n \in 1 .. ChainLength :
          song' = [song EXCEPT !.chain = Resized(@, n)] /\ at' = SlotClamped(n)
    BY <1>18 DEF SetChainLength
  <2>2. song' = [song EXCEPT !.chain = Resized(song.chain, n)]
    BY <2>1
  <2>3. at' \in {at, [at EXCEPT !.slot = 0]}
    BY <2>1 DEF SlotClamped
  <2> QED
    BY <1>17, <2>2, <2>3
<1>19. CASE SetChainPatternAt
  <2>1. PICK i \in DOMAIN song.chain, p \in Patterns : song' = [song EXCEPT !.chain[i] = p]
    BY <1>19 DEF SetChainPatternAt
  <2>2. song' = [song EXCEPT !.chain = [song.chain EXCEPT ![i] = p]]
    BY <2>1
  <2>3. at' \in {at, [at EXCEPT !.slot = 0]}
    BY <1>19 DEF SetChainPatternAt
  <2> QED
    BY <1>17, <2>2, <2>3
<1>20. CASE SetBpm
  BY <1>5, <1>20 DEF SetBpm
<1>21. CASE ImportSong
  <2>1. \E p : at' = Beginning(p)
    BY <1>21 DEF ImportSong
  <2> QED
    BY <1>4, <2>1 DEF Beginning
<1> QED
  BY <1>8, <1>9, <1>10, <1>11, <1>12, <1>13, <1>14, <1>15, <1>16, <1>18, <1>19, <1>20,
     <1>21 DEF UserCall

(* So do the ways AdvanceStep begins and returns. *)
LEMMA AdvanceKeepsPassInv ==
  ASSUME IInv, PassInv, BeginAdvance \/ AdvanceStep
  PROVE  PassInv'
<1>1. CASE BeginAdvance
  <2>1. /\ pc' = "advance" /\ exhaustions' = 0 /\ playing
        /\ UNCHANGED <<song, source, playing, at>>
    BY <1>1 DEF BeginAdvance
  <2>2. at.repeat < MaxRepeat /\ DirectionOK(at) /\ DirectionOK(at)'
    BY <2>1 DEF PassInv, DirectionOK, PatternOf
  <2>3. at.repeat \in Nat /\ MaxRepeat * 0 = 0
    BY EngineAssumption DEF IInv, TypeOK, Position
  <2>4. 0 <= MaxRepeat * 0 + at'.repeat
    BY <2>1, <2>3
  <2>6. (\E a \in Nat : Entered(at, exhaustions, a))'
    BY <2>1, <2>4 DEF Entered
  <2> QED
    BY <2>1, <2>2, <2>6 DEF PassInv
<1>2. CASE AdvanceStep
  <2>1. pc = "advance"
    BY <1>2 DEF AdvanceStep, AdvanceWithinBar, AdvanceToBar, EndOneShot, PassEmptyPattern,
       GiveUp, ReachesEmptyPattern
  <2>2. /\ TypeOK /\ TimingSupported /\ Well(at) /\ ClampBar(at) = at
        /\ at.repeat < MaxRepeat /\ DirectionOK(at) /\ at \in Position
    BY <2>1, PassState DEF Well
  <2>3. ASSUME NEW r, Land(r) \/ StopAt(r), r.repeat < MaxRepeat, DirectionOK(r)
        PROVE  PassInv'
    <3>1. at' = r /\ pc' = "idle" /\ UNCHANGED song
      BY <2>3 DEF Land, StopAt
    <3>2. DirectionOK(at)'
      BY <2>3, <3>1 DEF DirectionOK, PatternOf
    <3> QED
      BY <2>3, <3>1, <3>2, IdleKeepsPassInv
  <2>4. Left(at).repeat < MaxRepeat /\ DirectionOK(Left(at)) /\ Well(Left(at))
    BY <2>2, LeftKeeps, LeftWell
  <2>5. CASE AdvanceWithinBar
    <3>1. Land([at EXCEPT !.step = @ + 1])
      BY <2>2, <2>5 DEF AdvanceWithinBar
    <3>2. /\ [at EXCEPT !.step = @ + 1].repeat = at.repeat
          /\ [at EXCEPT !.step = @ + 1].dir = at.dir
          /\ [at EXCEPT !.step = @ + 1].pattern = at.pattern
      BY <2>2 DEF Position
    <3>3. DirectionOK([at EXCEPT !.step = @ + 1])
      BY <2>2, <3>2 DEF DirectionOK, PatternOf
    <3> QED
      BY <2>2, <2>3, <3>1, <3>2, <3>3
  <2>6. CASE AdvanceToBar
    <3> DEFINE l == Left(at)
               r == SkipToActive(l)
    <3>1. ActiveBars(PatternOf(l)) # {} /\ Land(r)
      BY <2>2, <2>6 DEF AdvanceToBar
    <3>2. r = [l EXCEPT !.bar = r.bar]
      BY <2>2, <2>4, <3>1, SkipToActiveIsActive
    <3>3. l \in Position /\ l.repeat < MaxRepeat /\ DirectionOK(l)
      BY <2>4 DEF Well
    <3> HIDE DEF l
    <3>4. r.repeat = l.repeat /\ r.dir = l.dir /\ r.pattern = l.pattern
      <4> DEFINE b == r.bar
      <4>1. r = [l EXCEPT !.bar = b]
        BY <3>2
      <4> HIDE DEF b, r
      <4> QED
        BY <3>3, <4>1 DEF Position
    <3> HIDE DEF r
    <3>5. DirectionOK(r)
      BY <3>3, <3>4 DEF DirectionOK, PatternOf
    <3> QED
      BY <2>3, <3>1, <3>3, <3>4, <3>5
  <2>7. CASE EndOneShot
    <3>1. StopAt(NextBar(at))
      BY <2>2, <2>7 DEF EndOneShot
    <3>2. NextBar(at).repeat < MaxRepeat /\ DirectionOK(NextBar(at))
      BY <2>2, NextBarKeeps
    <3> QED
      BY <2>3, <3>1, <3>2
  <2>8. CASE PassEmptyPattern
    BY <2>8, PassKeepsPassInv
  <2>9. CASE GiveUp
    <3>1. StopAt(Left(at))
      BY <2>2, <2>9 DEF GiveUp
    <3> QED
      BY <2>3, <2>4, <3>1
  <2> QED
    BY <1>2, <2>5, <2>6, <2>7, <2>8, <2>9 DEF AdvanceStep
<1> QED
  BY <1>1, <1>2

(* AdvanceStep is never lost on its way through empty patterns. *)
LEMMA PassInductive == Spec => []PassInv
<1>1. Init => PassInv
  <2> SUFFICES ASSUME Init PROVE PassInv
    OBVIOUS
  <2>1. at.repeat = 0 /\ at.dir = 1 /\ pc = "idle"
    BY DEF Init, Beginning
  <2> QED
    BY <2>1, EngineAssumption DEF PassInv, DirectionOK
<1>2. IInv /\ PassInv /\ [Next]_vars => PassInv'
  <2> SUFFICES ASSUME IInv, PassInv, [Next]_vars PROVE PassInv'
    OBVIOUS
  <2>1. CASE UNCHANGED vars
    BY <2>1 DEF vars, PassInv, DirectionOK, PatternOf, FreshlyEntered, Entered, EntryAt,
       SlotBehind, Passable, PassedUnheard
  <2> QED
    BY <2>1, AdvanceKeepsPassInv, CallKeepsPassInv DEF Next
<1> QED
  BY <1>1, <1>2, Inductive, PTL DEF Spec

-----------------------------------------------------------------------------
(* While AdvanceStep runs, the transport only stops by itself at the end of a OneShot
   pattern or for want of anything to play: a chain with a bar to play is not given up,
   unless each pattern with one is a single step behind an empty pattern. *)
THEOREM TransportStopsWhenDone == Spec => StopsOnlyWhenDone
<1> DEFINE Done == \/ PatternOf(at').mode = "OneShot"
                   \/ \A p \in Upcoming :
                        ActiveBars(song.pattern[p]) = {} \/ PassedUnheard(song.pattern[p])
           Safe == pc = "advance" /\ ~ playing' => Done
<1>1. IInv /\ PassInv /\ [Next]_vars => [Safe]_vars
  <2> SUFFICES ASSUME IInv, PassInv, Next, pc = "advance", ~ playing' PROVE Done
    OBVIOUS
  <2>1. /\ TypeOK /\ TimingSupported /\ Well(at) /\ ClampBar(at) = at
        /\ at.repeat < MaxRepeat /\ DirectionOK(at) /\ at \in Position /\ playing
    BY PassState DEF Well
  <2>2. EndOneShot \/ GiveUp
    BY <2>1 DEF Next, BeginAdvance, AdvanceStep, AdvanceWithinBar, AdvanceToBar,
       PassEmptyPattern, Land, UserCall, Call, Start, Stop, Reset, SetPatternStepCount,
       SetPatternTiming, SetPatternRepeatCount, SetStepBarState, SetCurrentPatternIndex,
       SetPlaybackSource, SetChainLength, SetChainPatternAt, SetBpm, ImportSong
  <2>3. CASE EndOneShot
    <3>1. OneShotEnds(at) /\ at' = NextBar(at) /\ UNCHANGED song
      BY <2>1, <2>3 DEF EndOneShot, StopAt
    <3>2. PatternOf(NextBar(at)) = PatternOf(at)
      BY <2>1, NextBarKeeps
    <3>3. PatternOf(at').mode = "OneShot"
      BY <3>1, <3>2 DEF OneShotEnds, PatternOf
    <3> QED
      BY <3>3
  <2>4. CASE GiveUp
    <3> DEFINE l == Left(at)
    <3>1. /\ ReachesEmptyPattern(at) /\ at' = l /\ UNCHANGED song
          /\ exhaustions >= ExhaustionLimit \/ PatternOf(l).mode = "OneShot"
      BY <2>1, <2>4 DEF GiveUp, StopAt
    <3>2. ActiveBars(PatternOf(l)) = {}
      BY <3>1 DEF ReachesEmptyPattern
    <3>3. CASE PatternOf(l).mode = "OneShot"
      BY <3>1, <3>3 DEF PatternOf
    <3>4. CASE exhaustions >= ExhaustionLimit /\ source = "SongChain"
      <4>1. Upcoming = {song.chain[i] : i \in DOMAIN song.chain}
        BY <3>4 DEF Upcoming
      <4>2. \A k \in DOMAIN song.chain : Passable(song.pattern[song.chain[k]])
        BY <3>1, <3>4, GivesUpBehindChain
      <4> QED
        BY <4>1, <4>2 DEF Passable
    <3>5. CASE source # "SongChain"
      <4>1. SameEntry(NextBar(at), at) /\ AtBarStart(NextBar(at))
        BY <2>1, NextBarIs, NextBarAtBarStart
      <4>2. CompletePattern(NextBar(at)).pattern = NextBar(at).pattern
        BY <3>5, <4>1, CompletePatternIs DEF AtBarStart, Repeats, BeginsAnew, GoesOn
      <4>3. l.pattern = at.pattern
        BY <2>1, <4>1, <4>2, LeftKeeps DEF SameEntry
      <4>4. Upcoming = {at.pattern}
        BY <3>5 DEF Upcoming
      <4> QED
        BY <3>2, <4>3, <4>4 DEF PatternOf
    <3> QED
      BY <3>1, <3>3, <3>4, <3>5
  <2> QED
    BY <2>2, <2>3, <2>4
<1> QED
  BY <1>1, Inductive, PassInductive, PTL DEF Spec, StopsOnlyWhenDone

-----------------------------------------------------------------------------
(* The order of the bars. *)

(* Which bar the scan finds. *)
LEMMA SkipToActiveIsFirst ==
  ASSUME TypeOK, TimingSupported, NEW q, Well(q), ActiveBars(PatternOf(q)) # {}
  PROVE  LET active == ActiveBars(PatternOf(q))
             found  == SkipToActive(q).bar
         IN /\ found \in active
            /\ found >= q.bar => \A b \in active : b < q.bar \/ found <= b
            /\ found < q.bar => \A b \in active : b < q.bar /\ found <= b
            /\ q.bar = 0 => found = Min(active)
<1> DEFINE active == ActiveBars(PatternOf(q))
           ahead  == {b \in active : b >= q.bar}
           bar    == IF ahead # {} THEN Min(ahead) ELSE Min(active)
<1>1. q \in Position /\ q.pattern \in Patterns /\ q.bar \in Nat
  BY DEF Well, Position, Bars
<1>2. Count(PatternOf(q)) \in 1 .. StepCount /\ StepCount \in Nat
  BY <1>1, SongFields, CountRange, EngineAssumption DEF PatternOf
<1>3. active \in SUBSET Nat /\ ahead \in SUBSET Nat
  BY <1>2 DEF ActiveBars
<1>4. SkipToActive(q) = [q EXCEPT !.bar = bar]
  BY DEF SkipToActive
<1>5. active # {}
  OBVIOUS
<1> HIDE DEF active
<1>6. CASE ahead # {}
  <2>1. bar \in ahead /\ \A b \in ahead : bar <= b
    BY <1>3, <1>6, MinOfNats
  <2>2. bar \in active /\ bar >= q.bar /\ \A b \in active : b < q.bar \/ bar <= b
    BY <1>1, <1>3, <2>1
  <2>3. q.bar = 0 => bar = Min(active)
    <3>1. ASSUME q.bar = 0 PROVE ahead = active
      <4>1. \A b \in active : b >= q.bar
        BY <1>3, <3>1
      <4> QED
        BY <4>1, Zenon
    <3> QED
      BY <1>6, <3>1
  <2> HIDE DEF bar
  <2>4. SkipToActive(q).bar = bar
    BY <1>1, <1>4 DEF Position
  <2>5. ~ (bar < q.bar)
    BY <1>1, <1>3, <2>2
  <2> QED
    BY <2>2, <2>3, <2>4, <2>5 DEF active
<1>7. CASE ahead = {}
  <2>1. bar \in active /\ \A b \in active : bar <= b
    BY <1>3, <1>5, <1>7, MinOfNats
  <2>2. \A b \in active : b < q.bar
    BY <1>1, <1>3, <1>7
  <2>3. bar = Min(active) /\ bar < q.bar
    BY <1>7, <2>1, <2>2
  <2> HIDE DEF bar
  <2>4. SkipToActive(q).bar = bar
    BY <1>1, <1>4 DEF Position
  <2>5. ~ (bar >= q.bar)
    BY <1>1, <1>3, <2>1, <2>3
  <2> QED
    BY <2>1, <2>2, <2>3, <2>4, <2>5 DEF active
<1> QED
  BY <1>6, <1>7

(* How far on a bar comes, without the remainder. *)
LEMMA BarsAheadIs ==
  ASSUME NEW n \in Nat \ {0}, NEW a \in 0 .. n - 1, NEW b \in 0 .. n - 1
  PROVE  BarsAhead(a, b, n) = IF b > a THEN b - a - 1 ELSE b - a - 1 + n
<1>1. CASE b > a
  <2>1. b - a - 1 \in 0 .. n - 1
    BY <1>1
  <2>2. ASSUME NEW k \in 0 .. n - 1 PROVE (k + n) % n = k
    BY <2>2
  <2>3. (b - a - 1 + n) % n = b - a - 1
    BY <2>1, <2>2
  <2> QED
    BY <1>1, <2>3 DEF BarsAhead
<1>2. CASE ~ (b > a)
  <2>1. b - a - 1 + n \in 0 .. n - 1
    BY <1>2
  <2>2. ASSUME NEW k \in 0 .. n - 1 PROVE k % n = k
    BY <2>2
  <2>3. (b - a - 1 + n) % n = b - a - 1 + n
    BY <2>1, <2>2
  <2> QED
    BY <1>2, <2>3 DEF BarsAhead
<1> QED
  BY <1>1, <1>2

(* The scan from the bar after bar a finds the first active bar that comes after a,
   going round. *)
LEMMA FoundIsFirst ==
  ASSUME NEW n \in Nat \ {0}, NEW a \in 0 .. n - 1, NEW active \in SUBSET (0 .. n - 1),
         NEW found \in active,
         found >= a + 1 => \A b \in active : b < a + 1 \/ found <= b,
         found < a + 1 => \A b \in active : b < a + 1 /\ found <= b
  PROVE  \A b \in active : BarsAhead(a, found, n) <= BarsAhead(a, b, n)
<1> SUFFICES ASSUME NEW b \in active PROVE BarsAhead(a, found, n) <= BarsAhead(a, b, n)
  OBVIOUS
<1>1. /\ BarsAhead(a, found, n) = IF found > a THEN found - a - 1 ELSE found - a - 1 + n
      /\ BarsAhead(a, b, n) = IF b > a THEN b - a - 1 ELSE b - a - 1 + n
  BY BarsAheadIs
<1>2. CASE found >= a + 1
  BY <1>1, <1>2
<1>3. CASE found < a + 1
  BY <1>1, <1>3
<1> QED
  BY <1>2, <1>3

(* Without an empty pattern on the way, and except in PingPong, playback goes from step
   to step of a bar, from its last step to the next active bar of the same entry of the
   chain, going round, and only from a pattern that is played out to the next entry,
   which it begins at its first active bar. *)
THEOREM BarsPlayInOrder == Spec => BarsInOrder
<1> DEFINE n == Count(PatternOf(at))
           here == PatternOf(at)
           active == ActiveBars(PatternOf(at'))
           Within == at.bar \notin here.skipped /\ at.step + 1 < StepsPerBar(song.sig, here.division)
           NextEntry ==
             /\ at'.slot = NextSlot(at) /\ at'.pattern = song.chain[NextSlot(at) + 1]
             /\ \A b \in active : at'.bar <= b
           SameRound ==
             /\ at'.slot = at.slot /\ at'.pattern = at.pattern
             /\ \A b \in active : BarsAhead(at.bar, at'.bar, n) <= BarsAhead(at.bar, b, n)
           Ordered ==
             IF Within THEN at' = [at EXCEPT !.step = @ + 1]
             ELSE /\ at'.step = 0
                  /\ at'.bar \in active
                  /\ IF PlayedOut(at) THEN NextEntry ELSE SameRound
           Safe == Landed /\ exhaustions = 0 /\ PatternOf(at).mode # "PingPong" => Ordered
<1>1. IInv /\ PassInv /\ [Next]_vars => [Safe]_vars
  <2> SUFFICES ASSUME IInv, PassInv, Next, Landed, PatternOf(at).mode # "PingPong"
               PROVE  Ordered
    OBVIOUS
  <2>1. /\ TypeOK /\ TimingSupported /\ Well(at) /\ ClampBar(at) = at
        /\ at.repeat < MaxRepeat /\ DirectionOK(at) /\ at \in Position
        /\ at.pattern \in Patterns /\ at.bar \in Nat /\ at.bar < n
    BY PassState DEF Landed, Well, InRange, Position, Bars
  <2>2. AdvanceWithinBar \/ AdvanceToBar
    BY DEF Next, Landed, BeginAdvance, AdvanceStep, EndOneShot, PassEmptyPattern,
       GiveUp, StopAt, UserCall, Call, Start, Stop, Reset, SetPatternStepCount,
       SetPatternTiming, SetPatternRepeatCount, SetStepBarState,
       SetCurrentPatternIndex, SetPlaybackSource, SetChainLength,
       SetChainPatternAt, SetBpm, ImportSong
  <2>3. CASE AdvanceWithinBar
    <3>1. Within /\ at' = [at EXCEPT !.step = @ + 1]
      BY <2>1, <2>3 DEF AdvanceWithinBar, Land, MoreStepsInBar
    <3> QED
      BY <3>1
  <2>4. CASE AdvanceToBar
    <3> DEFINE l == Left(at)
               m == NextBar(at)
    <3>1. /\ ActiveBars(PatternOf(l)) # {} /\ at' = SkipToActive(l) /\ UNCHANGED song
          /\ ~ Within
      BY <2>1, <2>4 DEF AdvanceToBar, Land, MoreStepsInBar
    <3>2. Well(l)
      BY <2>1, LeftWell
    <3>3. /\ m \in Position /\ PatternOf(m) = PatternOf(at) /\ m.step = 0
          /\ m.bar = IF Completes(at) THEN 0 ELSE at.bar + 1
          /\ m.slot = at.slot /\ m.pattern = at.pattern /\ m.repeat = at.repeat
          /\ Completes(at) <=> at.bar + 1 >= n
      BY <2>1, NextBarAtBarStart, NextBarIs, NextBarKeeps
      DEF AtBarStart, SameEntry, Completes
    <3>4. /\ n \in Nat \ {0} /\ at.bar \in 0 .. n - 1
          /\ at.repeat \in Nat /\ PatternOf(at).repeats \in Nat
      BY <2>1, SongFields, CountRange, EngineAssumption DEF PatternOf, Position, Pattern
    <3>5. /\ at'.pattern = l.pattern /\ at'.slot = l.slot /\ at'.step = l.step
          /\ PatternOf(at') = PatternOf(l)
      BY <2>1, <3>1, <3>2, SkipToActiveIsActive DEF PatternOf, Well, Position
    <3>6. /\ at'.bar \in active
          /\ at'.bar >= l.bar => \A b \in active : b < l.bar \/ at'.bar <= b
          /\ at'.bar < l.bar => \A b \in active : b < l.bar /\ at'.bar <= b
      BY <2>1, <3>1, <3>2, <3>5, SkipToActiveIsFirst
    <3>7. active \subseteq 0 .. Count(PatternOf(at')) - 1
      BY DEF ActiveBars
    <3>8. CASE Completes(at)
      <4> DEFINE c == CompletePattern(m)
      <4>1. /\ Repeats(c, m) \/ GoesOn(c, m) \/ BeginsAnew(c, m)
            /\ c \in Position /\ c.bar = 0 /\ c.step = 0
        BY <2>1, <3>3, <3>8, CompletePatternIs, NextBarAtBarStart,
           CompletePatternAtBarStart DEF AtBarStart
      <4>2. l = ClampBar(c)
        BY <3>8 DEF Left
      <4>3. l.bar = 0 /\ l.step = 0 /\ l.slot = c.slot /\ l.pattern = c.pattern
        BY <4>1, <4>2, ClampBarIs DEF SameEntry, ClampBar, Position
      <4>4. \A b \in active : at'.bar <= b
        <5>1. Count(PatternOf(at')) \in Nat
          BY <2>1, <3>2, <3>5, SongFields, CountRange, EngineAssumption
          DEF PatternOf, Well, Position
        <5> QED
          BY <3>6, <3>7, <4>3, <5>1
      <4>5. CASE PlayedOut(at)
        <5>1. GoesOn(c, m)
          BY <3>3, <3>4, <4>1, <4>5 DEF PlayedOut, Repeats, BeginsAnew
        <5>2. c.slot = NextSlot(at) /\ c.pattern = song.chain[NextSlot(at) + 1]
          BY <3>3, <5>1 DEF GoesOn, NextSlot
        <5> QED
          BY <3>1, <3>5, <3>6, <4>3, <4>4, <4>5, <5>2
      <4>6. CASE ~ PlayedOut(at)
        <5>1. ~ GoesOn(c, m)
          BY <3>3, <3>4, <3>8, <4>6 DEF PlayedOut, GoesOn
        <5>2. c.slot = at.slot /\ c.pattern = at.pattern
          BY <3>3, <4>1, <5>1 DEF Repeats, BeginsAnew
        <5>3. PatternOf(at') = PatternOf(at)
          BY <3>1, <3>5, <4>3, <5>2 DEF PatternOf
        <5>4. active \in SUBSET (0 .. n - 1)
          BY <5>3 DEF ActiveBars
        <5>5. at.bar = n - 1
          BY <3>3, <3>4, <3>8
        <5> HIDE DEF active, n
        <5>6. at'.bar < at.bar + 1 /\ \A b \in active : b < at.bar + 1 /\ at'.bar <= b
          <6>1. at'.bar \in 0 .. n - 1
            BY <3>6, <5>4
          <6>2. \A b \in active : b < n
            BY <3>4, <5>4
          <6> QED
            BY <3>4, <4>4, <5>5, <6>1, <6>2
        <5>7. \A b \in active : BarsAhead(at.bar, at'.bar, n) <= BarsAhead(at.bar, b, n)
          BY <3>4, <3>6, <5>4, <5>6, FoundIsFirst
        <5> QED
          BY <3>1, <3>5, <3>6, <4>3, <4>6, <5>2, <5>7
      <4> QED
        BY <4>5, <4>6
    <3>9. CASE ~ Completes(at)
      <4>1. at.bar + 1 < n /\ ~ PlayedOut(at)
        BY <2>1, <3>3, <3>4, <3>9 DEF PlayedOut
      <4>2. l = ClampBar(m) /\ m.bar = at.bar + 1
        BY <3>3, <3>9 DEF Left
      <4>3. /\ l.bar = at.bar + 1 /\ l.step = 0
            /\ l.slot = at.slot /\ l.pattern = at.pattern
        BY <2>1, <3>3, <3>4, <4>1, <4>2, ClampBarIs DEF SameEntry, ClampBar, Position
      <4>4. PatternOf(at') = PatternOf(at)
        BY <3>1, <3>5, <4>3 DEF PatternOf
      <4>5. active \in SUBSET (0 .. n - 1)
        BY <4>4 DEF ActiveBars
      <4> HIDE DEF active, n
      <4>6. \A b \in active : BarsAhead(at.bar, at'.bar, n) <= BarsAhead(at.bar, b, n)
        BY <3>4, <3>6, <4>3, <4>5, FoundIsFirst
      <4> QED
        BY <3>1, <3>5, <3>6, <4>1, <4>3, <4>6
    <3> QED
      BY <3>8, <3>9
  <2> QED
    BY <2>2, <2>3, <2>4
<1> QED
  BY <1>1, Inductive, PassInductive, PTL DEF Spec, BarsInOrder
=============================================================================
