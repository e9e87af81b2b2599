----------------------------- MODULE StepEngine -----------------------------
(***************************************************************************)
(* The step engine of SequencerDevice: where playback is in the song, how  *)
(* AdvanceStep moves it through the steps of a bar, the bars of a pattern  *)
(* and the patterns of the chain, and the edits that reach the same state  *)
(* while the transport runs.                                               *)
(*                                                                         *)
(* Everything here runs in the main context, one call after the other;     *)
(* AdvanceStep is one action per pass of its while (true) loop.  What a    *)
(* step sounds like (ApplyCurrentStepBehavior: gate, arpeggio, ledger)     *)
(* does not feed back into the position and is left out.                   *)
(***************************************************************************)
EXTENDS Integers, Sequences, FiniteSetsExt

CONSTANTS
  Patterns,         (* the patterns of the bank: 32 of them                *)
  FirstPattern,     (* pattern 0                                           *)
  Divisions,        (* grid divisions a caller can ask for                 *)
  TimeSigs,         (* time signatures a caller can ask for                *)
  StepCount,        (* kStepCount: bars of a pattern, 12                   *)
  ChainLength,      (* kChainLength: entries of the chain, 32              *)
  MaxRepeat,        (* largest repeat_count of a pattern, 16               *)
  ExhaustionFactor, (* empty patterns AdvanceStep tries per chain entry, 32*)
  Songs,            (* songs that ImportSong can be given                  *)
  MaxCalls          (* bound: calls of the user interface in a behaviour   *)

TicksPerQuarter == 96
StepLedgerMax   == 32          (* kStepLedgerMax                           *)
Modes   == {"Forward", "PingPong", "Loop", "OneShot"}
Sources == {"Pattern", "SongChain"}

Bars == 0 .. StepCount - 1

(* IsSupportedGridDivision and StepsPerBar: 0 when the bar cannot be divided. *)
StepsPerBar(sig, division) ==
  LET n == sig[1]
      d == sig[2]
      steps == (n * 4 * division) \div d
      fits == /\ division \in {1, 2, 4, 8}
              /\ n # 0 /\ d \in {2, 4, 8}
              /\ (n * 32) % d = 0 /\ (n * 32) \div d <= StepLedgerMax
              /\ (n * 4 * division) % d = 0
              /\ steps <= StepLedgerMax
  IN IF fits THEN steps ELSE 0

Pattern == [count: Nat, division: Divisions, mode: Modes,
            repeats: 1 .. MaxRepeat, skipped: SUBSET Bars]

Song == [pattern: [Patterns -> Pattern], sig: TimeSigs,
         chain: Seq(Patterns)]

Divisible(s) == \A p \in Patterns : StepsPerBar(s.sig, s.pattern[p].division) # 0

(* NormalizePatternDivisionCadence: a division that does not fit becomes 4. *)
Fitted(division, sig) == IF StepsPerBar(sig, division) = 0 THEN 4 ELSE division

(* FinalizeImportedSong: an empty chain becomes pattern 0, a time signature that
   cannot be divided becomes 4/4, and every pattern gets a division that fits. *)
Finalized(s) ==
  LET sig == IF StepsPerBar(s.sig, 4) = 0 THEN <<4, 4>> ELSE s.sig IN
  [chain |-> IF s.chain = <<>> THEN <<FirstPattern>> ELSE s.chain,
   sig |-> sig,
   pattern |-> [p \in Patterns |->
                  [s.pattern[p] EXCEPT !.division = Fitted(@, sig)]]]

ASSUME EngineAssumption ==
  /\ FirstPattern \in Patterns
  /\ Divisions \subseteq Nat \ {0} /\ 4 \in Divisions
  /\ TimeSigs \subseteq Nat \X (Nat \ {0}) /\ <<4, 4>> \in TimeSigs
  /\ StepCount \in Nat \ {0} /\ ChainLength \in Nat \ {0}
  /\ MaxRepeat \in Nat \ {0} /\ ExhaustionFactor \in Nat /\ MaxCalls \in Nat
  /\ MaxRepeat <= ExhaustionFactor
  /\ \A s \in Songs : s \in Song /\ Len(s.chain) <= ChainLength

VARIABLES
  song,         (* bank_: patterns, time signature and chain               *)
  edit,         (* edit_pattern_index_                                     *)
  source,       (* playback_source_                                        *)
  playing,      (* playing_                                                *)
  at,           (* play position: play_pattern_index_, current_bar_,
                   current_step_in_bar_, step_direction_, repeat_current_
                   and chain.position                                      *)
  stepTicks,    (* musical_step_ticks_                                     *)
  pc,           (* "idle", or "advance" inside AdvanceStep                 *)
  exhaustions,  (* local pattern_exhaustions of AdvanceStep                *)
  calls         (* calls made so far, bounded by MaxCalls                  *)

vars == <<song, edit, source, playing, at, stepTicks, pc, exhaustions, calls>>

Count(p) == IF p.count \in 1 .. StepCount THEN p.count ELSE StepCount

PatternOf(q) == song.pattern[q.pattern]
StepTicks(s, p) == TicksPerQuarter \div s.pattern[p].division

BlankPattern == [count |-> 1, division |-> 4, mode |-> "Forward",
                 repeats |-> 1, skipped |-> {}]
BlankSong ==
  [pattern |-> [p \in Patterns |->
                  IF p = FirstPattern THEN [BlankPattern EXCEPT !.mode = "Loop"]
                                      ELSE BlankPattern],
   sig |-> <<4, 4>>, chain |-> <<FirstPattern>>]

(* The position Start, Reset and an import begin from. *)
Beginning(p) == [pattern |-> p, bar |-> 0, step |-> 0, dir |-> 1,
                 repeat |-> 0, slot |-> 0]

Init ==
  /\ song = BlankSong
  /\ edit = FirstPattern
  /\ source = "Pattern"
  /\ playing = FALSE
  /\ at = Beginning(FirstPattern)
  /\ stepTicks = StepTicks(song, FirstPattern)
  /\ pc = "idle" /\ exhaustions = 0 /\ calls = 0

-----------------------------------------------------------------------------
(* AdvanceStep *)

ClampBar(q) == IF q.bar >= Count(PatternOf(q)) THEN [q EXCEPT !.bar = 0] ELSE q

MoreStepsInBar(q) ==
  /\ q.bar \notin PatternOf(q).skipped
  /\ q.step + 1 < StepsPerBar(song.sig, PatternOf(q).division)

(* Leaving a bar completes the pattern: at its last bar, or for PingPong when
   the way back has passed bar 0. *)
Completes(q) ==
  IF PatternOf(q).mode = "PingPong" THEN q.bar + q.dir < 0
                                    ELSE q.bar + 1 >= Count(PatternOf(q))

BarAndDirectionRepeatLost(q, bar, dir) ==   \* mutant
  [q EXCEPT !.step = 0, !.bar = bar, !.dir = dir, !.repeat = 0]
BarAndDirection(q, bar, dir) == [q EXCEPT !.step = 0, !.bar = bar, !.dir = dir]

(* Forward, Loop and OneShot. *)
Onward(q) == BarAndDirection(q, IF Completes(q) THEN 0 ELSE q.bar + 1, q.dir)

(* PingPong turns round one bar short of the end it reached. *)
Bounce(q) ==
  LET n == Count(PatternOf(q)) IN
  CASE q.bar + q.dir >= n -> BarAndDirection(q, IF n > 1 THEN n - 2 ELSE 0, -1)
    [] q.bar + q.dir < 0  -> BarAndDirection(q, IF n > 1 THEN 1 ELSE 0, 1)
    [] OTHER              -> BarAndDirection(q, q.bar + q.dir, q.dir)

NextBar(q) == IF PatternOf(q).mode = "PingPong" THEN Bounce(q) ELSE Onward(q)

NextSlot(q) == (q.slot + 1) % Len(song.chain)
ChainAdvance(q) == [q EXCEPT !.slot = NextSlot(q),
                             !.pattern = song.chain[NextSlot(q) + 1]]

(* apply_pattern_completion, for a pattern that is not OneShot: count the
   repeat, and after the last one go on in the chain. *)
CompletePattern(q) ==
  LET mode == PatternOf(q).mode
      over == [q EXCEPT !.repeat = 0, !.dir = IF mode = "Loop" THEN @ ELSE 1]
  IN IF q.repeat + 1 < PatternOf(q).repeats THEN [q EXCEPT !.repeat = @ + 1]
     ELSE IF source = "SongChain" THEN ChainAdvance(over)
     ELSE over

(* The scan for the next bar that is not skipped, from q.bar on and round. *)
ActiveBars(p) == (0 .. Count(p) - 1) \ p.skipped

SkipToActiveNoWrap(q) ==   \* mutant
  LET ahead == {b \in ActiveBars(PatternOf(q)) : b >= q.bar}
  IN IF ahead # {} THEN [q EXCEPT !.bar = Min(ahead)] ELSE q

SkipToActiveFromBarZero(q) ==   \* mutant
  [q EXCEPT !.bar = Min(ActiveBars(PatternOf(q)))]

SkipToActive(q) ==
  LET active == ActiveBars(PatternOf(q))
      ahead  == {b \in active : b >= q.bar}
  IN [q EXCEPT !.bar = IF ahead # {} THEN Min(ahead) ELSE Min(active)]

(* Where leaving the bar leads, before the scan. *)
Left(q) == ClampBar(IF Completes(q) THEN CompletePattern(NextBar(q)) ELSE NextBar(q))

OneShotEnds(q) == Completes(q) /\ PatternOf(q).mode = "OneShot"

(* ServiceOnePendingStep hands a step to AdvanceStep. *)
BeginAdvance ==
  /\ pc = "idle" /\ playing
  /\ pc' = "advance"
  /\ exhaustions' = 0
  /\ UNCHANGED <<song, edit, source, playing, at, stepTicks, calls>>

(* AdvanceStep returns. *)
Land(q) ==
  /\ at' = q
  /\ pc' = "idle"
  /\ UNCHANGED <<song, edit, source, playing, stepTicks, exhaustions, calls>>

StopAt(q) ==
  /\ at' = q
  /\ playing' = FALSE
  /\ pc' = "idle"
  /\ UNCHANGED <<song, edit, source, stepTicks, exhaustions, calls>>

AdvanceWithinBar ==
  /\ pc = "advance"
  /\ LET q == ClampBar(at) IN
       MoreStepsInBar(q) /\ Land([q EXCEPT !.step = @ + 1])

AdvanceToBar ==
  /\ pc = "advance"
  /\ LET q == ClampBar(at) IN
       /\ ~MoreStepsInBar(q) /\ ~OneShotEnds(q)
       /\ ActiveBars(PatternOf(Left(q))) # {}
       /\ Land(SkipToActive(Left(q)))

EndOneShot ==
  /\ pc = "advance"
  /\ LET q == ClampBar(at) IN
       ~MoreStepsInBar(q) /\ OneShotEnds(q) /\ StopAt(NextBar(q))

(* The pattern reached has no bar to play: AdvanceStep treats it as completed
   and tries again from wherever that leads. *)
ReachesEmptyPattern(q) ==
  /\ pc = "advance"
  /\ ~MoreStepsInBar(q) /\ ~OneShotEnds(q)
  /\ ActiveBars(PatternOf(Left(q))) = {}

ExhaustionLimitPerSong == ExhaustionFactor   \* mutant
ExhaustionLimit == ExhaustionFactor * Len(song.chain)

CountExhaustionOmitted == UNCHANGED exhaustions   \* mutant
CountExhaustion == exhaustions' = exhaustions + 1

PassEmptyPattern ==
  LET q == ClampBar(at) IN
  /\ ReachesEmptyPattern(q)
  /\ exhaustions < ExhaustionLimit
  /\ PatternOf(Left(q)).mode # "OneShot"
  /\ CountExhaustion
  /\ at' = [CompletePattern(Left(q)) EXCEPT !.bar = 0, !.step = 0]
  /\ UNCHANGED <<song, edit, source, playing, stepTicks, pc, calls>>

(* stop_for_all_skip_chain, or an empty OneShot pattern. *)
GiveUp ==
  LET q == ClampBar(at) IN
  /\ ReachesEmptyPattern(q)
  /\ exhaustions >= ExhaustionLimit \/ PatternOf(Left(q)).mode = "OneShot"
  /\ StopAt(Left(q))

AdvanceStep ==
  AdvanceWithinBar \/ AdvanceToBar \/ EndOneShot \/ PassEmptyPattern \/ GiveUp

-----------------------------------------------------------------------------
(* Calls from the user interface. *)

Call == /\ pc = "idle" /\ calls < MaxCalls
        /\ calls' = calls + 1
        /\ UNCHANGED <<pc, exhaustions>>

Rewound ==
  IF source = "SongChain" THEN Beginning(song.chain[1])
                          ELSE [Beginning(edit) EXCEPT !.slot = at.slot]

Rewind ==
  /\ at' = Rewound
  /\ stepTicks' = StepTicks(song, Rewound.pattern)
  /\ UNCHANGED <<song, edit, source>>

Start == Call /\ ~playing /\ playing' = TRUE /\ Rewind

(* Reset rewinds without stopping. *)
Reset == Call /\ Rewind /\ UNCHANGED playing

Stop ==
  /\ Call /\ playing
  /\ playing' = FALSE
  /\ UNCHANGED <<song, edit, source, at, stepTicks>>

(* Edits address the edit pattern, which need not be the one that plays. *)

EditTo(p) == song' = [song EXCEPT !.pattern[edit] = p]

SetPatternStepCount ==
  /\ Call
  /\ \E n \in 1 .. StepCount :
       /\ EditTo([song.pattern[edit] EXCEPT !.count = n])
       /\ at' = IF at.bar >= n THEN [at EXCEPT !.bar = 0] ELSE at
  /\ UNCHANGED <<edit, source, playing, stepTicks>>

(* Refused unless every pattern of the bank fits the new signature.  (Notes a
   coarser grid would lose are another reason to refuse; a refusal is a stutter.) *)
Retimed(division, sig) ==
  [song EXCEPT !.sig = sig, !.pattern[edit].division = division]

Accepted(new) == Divisible(new)

SetPatternTiming ==
  /\ Call
  /\ \E division \in Divisions, sig \in TimeSigs :
       LET new == Retimed(division, sig)
           steps == StepsPerBar(sig, new.pattern[at.pattern].division)
       IN /\ Accepted(new)
          /\ song' = new
          /\ at' = IF at.step >= steps THEN [at EXCEPT !.step = steps - 1] ELSE at
          /\ stepTicks' = StepTicks(new, at.pattern)
  /\ UNCHANGED <<edit, source, playing>>

SetPatternRepeatCount ==
  /\ Call
  /\ \E n \in 1 .. MaxRepeat : EditTo([song.pattern[edit] EXCEPT !.repeats = n])
  /\ UNCHANGED <<edit, source, playing, at, stepTicks>>

SetStepBarState ==
  /\ Call
  /\ \E b \in Bars, skip \in BOOLEAN :
       EditTo([song.pattern[edit] EXCEPT !.skipped = IF skip THEN @ \cup {b} ELSE @ \ {b}])
  /\ UNCHANGED <<edit, source, playing, at, stepTicks>>

SetCurrentPatternIndex ==
  /\ Call
  /\ edit' \in Patterns
  /\ UNCHANGED <<song, source, playing, at, stepTicks>>

SetPlaybackSource ==
  /\ Call
  /\ source' \in Sources
  /\ UNCHANGED <<song, edit, playing, at, stepTicks>>

(* A longer chain repeats its last entry. *)
Resized(chain, n) ==
  [i \in 1 .. n |-> IF i <= Len(chain) THEN chain[i] ELSE chain[Len(chain)]]

SlotKept(n) == at   \* mutant
SlotClamped(n) == IF at.slot >= n THEN [at EXCEPT !.slot = 0] ELSE at

SetChainLength ==
  /\ Call
  /\ \E n \in 1 .. ChainLength :
       /\ song' = [song EXCEPT !.chain = Resized(@, n)]
       /\ at' = SlotClamped(n)
  /\ UNCHANGED <<edit, source, playing, stepTicks>>

SetChainPatternAt ==
  /\ Call
  /\ \E i \in DOMAIN song.chain, p \in Patterns : song' = [song EXCEPT !.chain[i] = p]
  /\ UNCHANGED <<edit, source, playing, at, stepTicks>>

(* SetBpm recomputes the step length along with the tempo. *)
SetBpm ==
  /\ Call
  /\ stepTicks' = StepTicks(song, at.pattern)
  /\ UNCHANGED <<song, edit, source, playing, at>>

(* ImportSong; musical_step_ticks_ is not among what it recomputes. *)
ImportSong ==
  /\ Call
  /\ \E s \in Songs : /\ song' = Finalized(s)
                      /\ at' = Beginning(song'.chain[1])
  /\ UNCHANGED <<edit, source, playing, stepTicks>>

UserCall ==
  \/ Start \/ Stop \/ Reset
  \/ SetPatternStepCount \/ SetPatternTiming \/ SetPatternRepeatCount
  \/ SetStepBarState \/ SetCurrentPatternIndex \/ SetPlaybackSource
  \/ SetChainLength \/ SetChainPatternAt \/ SetBpm \/ ImportSong

Next == BeginAdvance \/ AdvanceStep \/ UserCall

Spec == Init /\ [][Next]_vars

(* The clock keeps queueing steps and the main loop keeps serving them. *)
FairSpec == Spec /\ WF_vars(BeginAdvance) /\ WF_vars(AdvanceStep)

-----------------------------------------------------------------------------
Position == [pattern: Patterns, bar: Bars, step: 0 .. StepLedgerMax - 1,
             dir: {-1, 1}, repeat: Nat, slot: 0 .. ChainLength - 1]

(* The device's fields keep their types, the chain its length (at most
   kMaxChainLength) and the pass counter its limit (sequencer_device.cpp:2021). *)
TypeOK ==
  /\ song \in Song /\ Len(song.chain) \in 1 .. ChainLength
  /\ edit \in Patterns /\ source \in Sources /\ playing \in BOOLEAN
  /\ at \in Position
  /\ stepTicks \in Nat
  /\ pc \in {"idle", "advance"}
  /\ exhaustions \in 0 .. ExhaustionFactor * ChainLength /\ calls \in 0 .. MaxCalls

InRange(q) ==
  /\ q.bar < Count(PatternOf(q))
  /\ q.step < StepsPerBar(song.sig, PatternOf(q).division)
  /\ q.slot < Len(song.chain)

(* Whatever was edited, imported or played before: the bar, the step and the
   chain slot are positions of the pattern and the chain that play.  The arrays
   indexed with them (steps[current_bar_], pattern_indices[position]) are not
   range-checked where playback reads them. *)
PositionInRange == InRange(at)

(* Every bar of every pattern divides into at least one step, so the clamp of
   SetPatternTiming (steps_in_bar - 1) never wraps round below zero. *)
TimingSupported == Divisible(song)

(* A play position can always be followed into the song. *)
PlayStateIsSound == TypeOK /\ PositionInRange /\ TimingSupported

Landed == pc = "advance" /\ pc' = "idle" /\ playing'

(* A step that AdvanceStep lands on is never in a skipped bar. *)
NeverPlaysSkipped == [][Landed => at'.bar \notin PatternOf(at').skipped]_vars

(* How many bars on from bar a, going round, bar b comes. *)
BarsAhead(a, b, n) == (b - a - 1 + n) % n

(* The last bar of the last repetition, of a pattern that plays in the chain. *)
PlayedOut(q) ==
  /\ source = "SongChain"
  /\ q.bar + 1 >= Count(PatternOf(q)) /\ q.repeat + 1 >= PatternOf(q).repeats

(* What "skips" and "advances" come to (sequencer_device.cpp:1950): except in PingPong,
   and unless an empty pattern was passed on the way, a bar is left after its last step
   or because it was skipped meanwhile, and then for the next active bar of the pattern,
   going round, in the same entry of the chain.  Only a pattern that is played out gives
   way to the next entry, which begins at its first active bar. *)
BarsInOrder ==
  [][Landed /\ exhaustions = 0 /\ PatternOf(at).mode # "PingPong" =>
       LET here   == PatternOf(at)
           active == ActiveBars(PatternOf(at'))
       IN IF at.bar \notin here.skipped /\ at.step + 1 < StepsPerBar(song.sig, here.division)
          THEN at' = [at EXCEPT !.step = @ + 1]
          ELSE /\ at'.step = 0
               /\ at'.bar \in active
               /\ IF PlayedOut(at)
                  THEN /\ at'.slot = NextSlot(at) /\ at'.pattern = song.chain[NextSlot(at) + 1]
                       /\ \A b \in active : at'.bar <= b
                  ELSE /\ at'.slot = at.slot /\ at'.pattern = at.pattern
                       /\ \A b \in active : BarsAhead(at.bar, at'.bar, Count(here))
                                              <= BarsAhead(at.bar, b, Count(here))]_vars

(* The patterns that playback can go on to. *)
Upcoming ==
  IF source = "SongChain" THEN {song.chain[i] : i \in DOMAIN song.chain}
                          ELSE {at.pattern}

(* A pattern of a single step, played once.  When an empty pattern was passed before
   it, the loop goes on from its step 0 and leaves it without playing it
   (sequencer_device.cpp:2138). *)
PassedUnheard(p) ==
  Count(p) = 1 /\ p.repeats = 1 /\ StepsPerBar(song.sig, p.division) = 1

(* The transport stops by itself only at the end of a OneShot pattern, or when each of
   the patterns that playback can go on to has no bar to play or is passed unheard. *)
StopsOnlyWhenDone ==
  [][pc = "advance" /\ ~playing' =>
       \/ PatternOf(at').mode = "OneShot"
       \/ \A p \in Upcoming :
            ActiveBars(song.pattern[p]) = {} \/ PassedUnheard(song.pattern[p])]_vars

(* The loop of AdvanceStep ends, also when every bar of the chain is skipped. *)
AdvanceTerminates == pc = "advance" ~> pc = "idle"

(* A chain of two or more patterns, each with a bar to play, is at entry i. *)
ChainPlays(i) ==
  /\ playing /\ source = "SongChain" /\ Len(song.chain) > 1 /\ at.slot = i
  /\ \A k \in DOMAIN song.chain : ActiveBars(song.pattern[song.chain[k]]) # {}

(* The last bar of the pattern is skipped, or it plays PingPong and any bar is. *)
HidesItsEnd(p) == \/ Count(p) - 1 \in p.skipped
                  \/ p.mode = "PingPong" /\ p.skipped # {}

(* "times to play before chain advance" (sequencer_types.h:456): while a chain plays,
   and each of its patterns has a bar to play, it moves on from each of its entries,
   unless the pattern it is at ends in a skipped bar, or goes back and forth over
   one: those never complete. *)
ChainAdvancesUnlessEndSkipped ==
  \A i \in 0 .. ChainLength - 1 :
    ChainPlays(i) ~> (~ChainPlays(i) \/ HidesItsEnd(PatternOf(at)))
=============================================================================
