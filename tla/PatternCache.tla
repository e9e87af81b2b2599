---------------------------- MODULE PatternCache ----------------------------
(***************************************************************************)
(* The pattern cache of a build with S12_PATTERNCACHE_PILOT_ENABLE: two    *)
(* buffers, of which one is active and should hold the pattern that plays, *)
(* while the chunked reader of PatternStore loads the other with the one   *)
(* that plays next.  The main loop serves the cache once in every pass;    *)
(* meanwhile the chain moves on and slots are written.                     *)
(*                                                                         *)
(* The statistics, and the comparison with the song in RAM that feeds      *)
(* them, are left out.                                                     *)
(***************************************************************************)
EXTENDS PatternStore

CONSTANT MaxMoves   (* bound: how often the playback moves on              *)

ASSUME CacheAssumption == MaxMoves \in Nat

Buffers == {0, 1}
None == -1          (* 0xFF *)

VARIABLES
  buf,      (* s_pc_buf                                                    *)
  valid,    (* g_pc_buf_valid                                              *)
  holds,    (* g_pc_buf_pattern_index                                      *)
  active,   (* g_pc_active_buf                                             *)
  loading,  (* s_pc_loading_buf, _index and _is_current                    *)
  last,     (* s_pc_last_expected_current                                  *)
  plays,    (* the pattern that plays, and the next one in the chain       *)
  moves     (* bounded by MaxMoves                                         *)

cache == <<buf, valid, holds, active, loading, last>>
cvars == <<vars, cache, plays, moves>>

NotLoading == [buf |-> None, index |-> None, isCurrent |-> FALSE]
Idle == loading.buf = None
Inactive == 1 - active

CInit ==
  /\ plays \in [current : Slots, next : Slots] /\ moves = 0
  /\ Init /\ writer.slot = plays.current /\ reader.slot = plays.current
  /\ buf = [b \in Buffers |-> Blank]      \* .ccmram is not zeroed at startup
  /\ valid = [b \in Buffers |-> FALSE] /\ holds = [b \in Buffers |-> None]
  /\ active = 0 /\ loading = NotLoading /\ last = None

Holds(b, s) == valid[b] /\ holds[b] = s

-----------------------------------------------------------------------------
InvalidatedLate(b) == UNCHANGED <<valid, holds>>   \* mutant: not invalidated
Invalidated(b) ==
  valid' = [valid EXCEPT ![b] = FALSE] /\ holds' = [holds EXCEPT ![b] = None]

(* PcStartLoad: a slot that was never written, or cannot be read, is a miss. *)
PcStartLoad(b, s, isCurrent) ==
  /\ Invalidated(b)
  /\ \/ /\ ReadAsyncBegin(s, buf[b])
        /\ loading' = [buf |-> b, index |-> s, isCurrent |-> isCurrent]
     \/ ~fram[s].ok /\ UNCHANGED <<vars, loading>>
     \/ /\ Fault
        /\ UNCHANGED <<fram, scratch, writer, written, reader, target, got, writes,
                       given, disturbed, loading>>

FlipOnNext == ~loading.isCurrent                   \* mutant: the wrong load
FlipOn == loading.isCurrent /\ loading.index = plays.current

(* The load that is under way: at most one chunk in a pass. *)
PumpLoad ==
  /\ ~Idle
  /\ ReadAsyncService
  /\ buf' = [buf EXCEPT ![loading.buf] = target']
  /\ CASE got' = "BUSY" -> UNCHANGED <<valid, holds, active, loading>>
       [] got' = "DONE" ->
            /\ valid' = [valid EXCEPT ![loading.buf] = TRUE]
            /\ holds' = [holds EXCEPT ![loading.buf] = loading.index]
            /\ active' = IF FlipOn THEN loading.buf ELSE active
            /\ loading' = NotLoading
       [] got' = "FAILED" ->
            /\ valid' = [valid EXCEPT ![loading.buf] = FALSE]
            /\ holds' = [holds EXCEPT ![loading.buf] = None]
            /\ UNCHANGED active
            /\ loading' = NotLoading
  /\ UNCHANGED last

(* When the pattern that plays has changed and was loaded ahead, the buffers
   change roles. *)
Swapped ==
  IF plays.current # last /\ Holds(Inactive, plays.current) THEN Inactive ELSE active

TargetActive == active'        \* mutant: the buffer that plays
Target == 1 - active'          \* PcInactiveBuf, after the swap

LoadWanted ==
  /\ Idle
  /\ last' = plays.current
  /\ active' = Swapped
  /\ IF ~Holds(active', plays.current)
       THEN PcStartLoad(Target, plays.current, TRUE)
     ELSE IF ~Holds(1 - active', plays.next)
       THEN PcStartLoad(Target, plays.next, FALSE)
     ELSE UNCHANGED <<vars, valid, holds, loading>>
  /\ UNCHANGED buf

ServicePatternCache == (PumpLoad \/ LoadWanted) /\ UNCHANGED <<plays, moves>>

(* The chain advances, or the user edits it or chooses another pattern. *)
Move ==
  /\ moves < MaxMoves /\ moves' = moves + 1
  /\ plays' \in [current : Slots, next : Slots]
  /\ UNCHANGED <<vars, cache>>

(* Slots are written, and the diagnostics read them. *)
StoreCalls ==
  (BeginWrite \/ WriteAsyncService \/ BlockingRead) /\ UNCHANGED <<cache, plays, moves>>

Restart ==
  /\ PowerCycle
  /\ buf' = [b \in Buffers |-> Blank]
  /\ valid' = [b \in Buffers |-> FALSE] /\ holds' = [b \in Buffers |-> None]
  /\ active' = 0 /\ loading' = NotLoading /\ last' = None
  /\ plays' \in [current : Slots, next : Slots] /\ UNCHANGED moves

CNext == ServicePatternCache \/ Move \/ StoreCalls \/ Restart

CSpec == CInit /\ [][CNext]_cvars

(* The main loop serves the cache, and the writer, in every pass. *)
CFairSpec == CSpec /\ WF_cvars(ServicePatternCache)
                   /\ WF_cvars(WriteAsyncService /\ UNCHANGED <<cache, plays, moves>>)

-----------------------------------------------------------------------------
(* Two buffers, each empty or of one slot, and the store's own types. *)
CTypeOK ==
  /\ TypeOK
  /\ buf \in [Buffers -> Bytes] /\ valid \in [Buffers -> BOOLEAN]
  /\ holds \in [Buffers -> Slots \cup {None}] /\ active \in Buffers
  /\ loading \in [buf : Buffers \cup {None}, index : Slots \cup {None},
                  isCurrent : BOOLEAN]
  /\ last \in Slots \cup {None}
  /\ plays \in [current : Slots, next : Slots] /\ moves \in 0 .. MaxMoves

(* "only set once fully populated + CRC-verified" (sequencer_bridge.cpp:1552):
   a buffer that is said to be valid holds one whole pattern of the slot it is
   said to hold, also while a slot is written under the reader. *)
ValidBufferIsWhole == \A b \in Buffers : valid[b] => buf[b] \in given[holds[b]]

(* Neither a slot, a finished read nor a buffer is a mixture of two patterns. *)
OnlyWholePatterns == NothingTorn /\ ValidBufferIsWhole

(* "only the INACTIVE buffer is ever written to -- the active one is never
   overwritten" (sequencer_bridge.cpp:1482-1483), also when the playback moves
   on during a load. *)
ActiveNeverWritten == [][~Restart => buf'[active] = buf[active]]_cvars

(* "The 'active' selector only ever flips to a buffer already fully valid"
   (sequencer_bridge.cpp:1481), and that one is of the pattern that plays. *)
FlipsToValid ==
  [][~Restart /\ active' # active
       => valid'[active'] /\ holds'[active'] = plays.current]_cvars

(* Playback reads one buffer that does not change under it, and turns only to one
   that is complete. *)
PlayedBufferIsSafe == ActiveNeverWritten /\ FlipsToValid

(* The pattern that plays gets cached, as long as it has been stored, is not
   being written and the playback stays with it. *)
CurrentGetsCached ==
  \A s \in Slots :
    plays.current = s /\ Valid(fram[s]) /\ writer.phase = "idle"
      ~> Holds(active, s) \/ plays.current # s \/ writer.phase # "idle" \/ faults > 0
=============================================================================
