---------------------------- MODULE MCStepEngine ----------------------------
(***************************************************************************)
(* StepEngine on three patterns of up to three bars and a chain of up to   *)
(* three entries.  The songs are those that take AdvanceStep through each  *)
(* of its branches: every playback mode, skipped bars at the start, in the *)
(* middle and at the end, empty patterns between others, and a chain with  *)
(* nothing to play.                                                        *)
(***************************************************************************)
EXTENDS StepEngine, TLC

CONSTANTS a, b, c

MCTimeSigs == {<<4, 4>>, <<2, 8>>, <<1, 8>>, <<5, 4>>}

Pat(count, division, mode, repeats, skipped) ==
  [count |-> count, division |-> division, mode |-> mode,
   repeats |-> repeats, skipped |-> skipped]

Sng(pa, pb, pc2, sig, chain) ==
  [pattern |-> (a :> pa @@ b :> pb @@ c :> pc2), sig |-> sig, chain |-> chain]

Plain == Pat(2, 4, "Forward", 1, {})
Empty == Pat(2, 4, "Loop", 2, {0, 1})

MCSongs == {
  \* repeats, a coarse and a fine pattern, a skipped first bar
  Sng(Pat(3, 4, "Loop", 2, {0}), Pat(2, 1, "Forward", 1, {}), Plain, <<2, 8>>, <<a, b>>),
  \* back and forth, then once
  Sng(Pat(3, 4, "PingPong", 2, {}), Plain, Pat(2, 4, "OneShot", 1, {}), <<1, 8>>, <<a, b, c>>),
  \* a skipped bar in the middle; an empty pattern between two others; a
  \* division that does not fit
  Sng(Pat(3, 4, "Forward", 1, {1}), Empty, Pat(1, 3, "PingPong", 1, {}), <<1, 8>>, <<a, b, c>>),
  \* a pattern ending in skipped bars; a step count that needs clamping;
  \* a division there is not
  Sng(Pat(3, 4, "Forward", 1, {1, 2}), Pat(2, 3, "Loop", 1, {}), Pat(0, 4, "Loop", 1, {2}), <<1, 8>>, <<a, c>>),
  \* an empty pattern before one of a single step
  Sng(Pat(1, 1, "Forward", 1, {0}), Pat(1, 1, "Forward", 1, {}), Plain, <<2, 8>>, <<a, b>>),
  \* nothing to play
  Sng(Empty, Pat(1, 4, "Forward", 2, {0}), Empty, <<2, 8>>, <<a, b, c>>),
  \* an empty chain and a signature no bar can be divided by
  Sng(Plain, Plain, Empty, <<5, 4>>, <<>>)}
=============================================================================
