----------------------------- MODULE Persistence -----------------------------
(***************************************************************************)
(* How the bridge keeps edits: the song is in RAM, an edit marks it dirty, *)
(* the chunked writer of PatternStore copies the pattern that is being     *)
(* edited to its slot while the main loop runs, and the whole song (V3)    *)
(* is saved when the transport stops or editing has been idle for          *)
(* kV3IdleCheckpointMs with the transport stopped.                         *)
(*                                                                         *)
(* The main loop is a process: it serves the controls, any number of them  *)
(* in a pass, and then runs Bridge_ServicePersistence in three steps.  The *)
(* device can stop by itself, in an interrupt, between any two of them.    *)
(* An edit makes a pattern different from all before: it is written as the *)
(* number of the edit.  The step ledger and the custom chords, which their *)
(* setters do not persist, are not part of a pattern here.                 *)
(***************************************************************************)
EXTENDS PatternStore

CONSTANTS
  MaxEdits,   (* bound: edits and changes of pattern, then the user rests  *)
  MaxDepth,   (* bound: Bridge_PersistBegin within one another             *)
  TickZero    (* HAL_GetTick can read 0: one ms in every 49.7 days         *)

ASSUME PersistenceAssumption ==
  /\ MaxEdits \in Nat /\ MaxDepth \in Nat /\ TickZero \in BOOLEAN
  /\ Contents = 1 .. MaxEdits + 1

VARIABLES
  song,     (* g_sequencer's song: a pattern for each slot                 *)
  current,  (* its current pattern                                         *)
  playing,
  edits,    (* edits and changes of pattern so far, at most MaxEdits       *)
  depth,    (* s_persist_depth                                             *)
  pending,  (* s_persist_dirty                                             *)
  psDirty,  (* s_ps_dirty                                                  *)
  since,    (* s_v3_dirty_since_ms: 0, less than the idle time ago, more   *)
  v3,       (* the song area of the FRAM: right or not, and what it holds  *)
  pc        (* where the main loop is                                      *)

edit   == <<song, current, edits>>
marks  == <<depth, pending, psDirty, since>>
store  == <<fram, scratch, writer, written, faults, given, disturbed>>
idlers == <<reader, target, got, writes>>    \* of PatternStore, not used here
all    == <<vars, edit, marks, playing, v3, pc>>

AsNew(n) == [p \in Pieces |-> n]
Default  == [s \in Slots |-> AsNew(1)]

PInit ==
  /\ current \in Slots /\ Init /\ writer.slot = current /\ reader.slot = current
  /\ song = Default /\ playing = FALSE /\ edits = 0
  /\ depth = 0 /\ pending = FALSE /\ psDirty = FALSE /\ since = "clean"
  /\ v3 = [ok |-> FALSE, song |-> Default] /\ pc = "ui"

-----------------------------------------------------------------------------
(* Marking: s_v3_dirty_since_ms becomes the tick of now, of which 0 means
   that nothing is dirty. *)
Now == IF TickZero THEN {"fresh", "clean"} ELSE {"fresh"}

PersistSong ==
  IF depth > 0
    THEN pending' = TRUE /\ UNCHANGED <<depth, psDirty, since>>
    ELSE psDirty' = TRUE /\ since' \in Now /\ UNCHANGED <<depth, pending>>

(* The setters of the pattern in hand. *)
Edit ==
  /\ pc = "ui" /\ edits < MaxEdits
  /\ edits' = edits + 1
  /\ song' = [song EXCEPT ![current] = AsNew(edits + 2)]
  /\ PersistSong
  /\ UNCHANGED <<vars, current, playing, v3, pc>>

SetCurrentPattern(s) ==
  /\ pc = "ui" /\ depth = 0 /\ edits < MaxEdits
  /\ edits' = edits + 1
  /\ current' = s
  /\ PersistSong
  /\ UNCHANGED <<vars, song, playing, v3, pc>>

PersistBegin ==
  /\ pc = "ui" /\ depth < MaxDepth
  /\ depth' = depth + 1
  /\ UNCHANGED <<vars, edit, pending, psDirty, since, playing, v3, pc>>

Nested == depth > 0

PersistEndSlotOnly ==   \* mutant: the song is not marked
  /\ pc = "ui" /\ depth > 0
  /\ depth' = depth - 1
  /\ IF depth = 1 /\ pending
       THEN pending' = FALSE /\ psDirty' = TRUE
       ELSE UNCHANGED <<pending, psDirty>>
  /\ UNCHANGED <<vars, edit, since, playing, v3, pc>>
PersistEnd ==
  /\ pc = "ui" /\ Nested
  /\ depth' = depth - 1
  /\ IF depth = 1 /\ pending
       THEN pending' = FALSE /\ psDirty' = TRUE /\ since' \in Now
       ELSE UNCHANGED <<pending, psDirty, since>>
  /\ UNCHANGED <<vars, edit, playing, v3, pc>>

-----------------------------------------------------------------------------
(* SaveSongToFram, whose result nobody looks at: the area is not valid while
   it is being written, and stays so if a transfer fails. *)
SaveSong ==
  \/ v3' = [ok |-> TRUE, song |-> song] /\ UNCHANGED faults
  \/ Fault /\ v3' = [v3 EXCEPT !.ok = FALSE]

FlushPersistence ==
  IF since = "clean"
    THEN UNCHANGED <<v3, faults, since>>
    ELSE SaveSong /\ since' = "clean"

BridgeStart ==
  /\ pc = "ui" /\ depth = 0
  /\ playing' = TRUE
  /\ UNCHANGED <<vars, edit, marks, v3, pc>>

BridgeStop ==
  /\ pc = "ui" /\ depth = 0
  /\ playing' = FALSE
  /\ FlushPersistence
  /\ UNCHANGED <<fram, scratch, writer, written, idlers, given, disturbed, edit,
                 depth, pending, psDirty, pc>>

(* Bridge_Reset does not flush; nor does the device when it comes to its end. *)
StopsUnflushed ==
  /\ playing /\ playing' = FALSE
  /\ UNCHANGED <<vars, edit, marks, v3, pc>>

(* kV3IdleCheckpointMs pass. *)
IdleTime ==
  /\ since = "fresh" /\ since' = "idle"
  /\ UNCHANGED <<vars, edit, depth, pending, psDirty, playing, v3, pc>>

-----------------------------------------------------------------------------
(* A pass of the main loop. *)

UiReturns ==
  /\ pc = "ui" /\ depth = 0 /\ pc' = "begin"
  /\ UNCHANGED <<vars, edit, marks, playing, v3>>

(* ServicePatternStoreAsync: a write of the current pattern is begun when the
   writer is idle; psDirty waits for that. *)
DropsIt == psDirty' = FALSE       \* mutant: cleared also when the writer is busy
KeepsIt == UNCHANGED psDirty      \* s_ps_dirty stays set meanwhile

WriterFreeAtHeader == writer.phase = "header"   \* mutant: the wrong phase
WriterFree == writer.phase = "idle"

ServiceBegin ==
  /\ pc = "begin" /\ pc' = "write"
  /\ IF psDirty /\ WriterFree
       THEN WriteAsyncBegin(current, song[current]) /\ psDirty' = FALSE
       ELSE KeepsIt /\ UNCHANGED <<store, reader, target, got>>
  /\ UNCHANGED <<writes, edit, depth, pending, since, playing, v3>>

ServiceWrite ==
  /\ pc = "write" /\ pc' = "checkpoint"
  /\ IF writer.phase = "idle" THEN UNCHANGED vars ELSE WriteAsyncService
  /\ UNCHANGED <<edit, marks, playing, v3>>

CheckpointDue == since = "idle" /\ ~playing

ServiceCheckpoint ==
  /\ pc = "checkpoint" /\ pc' = "ui"
  /\ IF CheckpointDue
       THEN SaveSong /\ since' = "clean"
       ELSE UNCHANGED <<faults, since, v3>>
  /\ UNCHANGED <<fram, scratch, writer, written, idlers, given, disturbed, edit,
                 depth, pending, psDirty, playing>>

ServicePersistence == ServiceBegin \/ ServiceWrite \/ ServiceCheckpoint

Ui == \/ Edit \/ PersistBegin \/ PersistEnd \/ BridgeStart \/ BridgeStop
      \/ \E s \in Slots : SetCurrentPattern(s)

PNext == Ui \/ UiReturns \/ ServicePersistence \/ StopsUnflushed \/ IdleTime

PSpec == PInit /\ [][PNext]_all

(* A handler that begins a batch ends it, UI_Sequencer_Update returns however
   many controls it has served, and the persistence services run in each pass;
   time goes by. *)
PFairSpec == PSpec /\ SF_all(PersistEnd) /\ SF_all(UiReturns)
                   /\ WF_all(ServicePersistence) /\ WF_all(IdleTime)

-----------------------------------------------------------------------------
(* The bridge's flags keep their types: what s_persist_depth counts never goes
   above the nesting of the batches, nor below zero. *)
PTypeOK ==
  /\ TypeOK
  /\ song \in [Slots -> Pattern] /\ current \in Slots
  /\ playing \in BOOLEAN /\ edits \in 0 .. MaxEdits
  /\ depth \in 0 .. MaxDepth /\ pending \in BOOLEAN /\ psDirty \in BOOLEAN
  /\ since \in {"clean", "fresh", "idle"}
  /\ v3 \in [ok : BOOLEAN, song : [Slots -> Pattern]]
  /\ pc \in {"ui", "begin", "write", "checkpoint"}

Unmarked == depth = 0 /\ ~pending
AtRest == Unmarked /\ ~psDirty /\ writer.phase = "idle" /\ faults = 0

Stored(s) == song[s] = AsNew(1) \/ (Valid(fram[s]) /\ fram[s].data = song[s])

(* When the writer is at rest, and no transfer failed, the slot of the current
   pattern holds that pattern, whatever was edited while it was written and
   between which patterns the user went to and fro. *)
CurrentIsStored == AtRest => Stored(current)

(* "never a torn mix of old/new bytes, never a lost edit"
   (sequencer_bridge.cpp:1631-1632): so does the slot of every pattern. *)
NeverALostEdit == AtRest => \A s \in Slots : Stored(s)

(* When s_v3_dirty_since_ms says that there is nothing to save, "0 = V3 snapshot
   not dirty; else tick of last edit" (sequencer_bridge.cpp:19), and no save
   failed, the saved song has every edit. *)
NothingMissesV3 ==
  since = "clean" /\ Unmarked /\ faults = 0 /\ song # Default
    => v3.ok /\ v3.song = song

(* A pattern that was edited gets to its slot, unless the user turns to another
   before that or a transfer fails; and an edited song is saved as a whole without
   anyone pressing stop, as soon as the transport rests for long enough. *)
SlotCatchesUp ==
  \A s \in Slots :
    current = s /\ ~Stored(s) ~> Stored(s) \/ current # s \/ faults > 0
V3CatchesUp ==
  song # Default /\ v3.song # song /\ ~playing ~> v3.song = song \/ playing \/ faults > 0
StorageCatchesUp == SlotCatchesUp /\ V3CatchesUp
=============================================================================
