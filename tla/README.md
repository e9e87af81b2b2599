# Sequencer12 in TLA+

Sequencer12 is the firmware of a twelve-bar polyphonic step sequencer (STM32F407, four CV/gate
lanes, MB85RC1MT FRAM, ST7789 display). This directory holds TLA+ models of the parts of it in
which something is shared, ordered, interrupted or lost, the TLC runs that check them on small
instances, and TLAPS proofs of the main results for every value of the constants.

All paths below are relative to `src/`. `PROJECT.json` maps each definition to the lines it
stands for.

## 1. Inventory

### Contexts

Everything runs on one core in three contexts, without an operating system:

| context | runs | entered from |
|---|---|---|
| clock interrupt, priority 0 | uClock tick at 96 PPQN: `Bridge_TickMusical` -> `SequencerDevice::TickMusical` | `platform/uclock/uclock_stm32_hal.cpp` (TIM1) |
| SysTick, lower priority | `Bridge_Tick1ms` -> `SequencerDevice::Tick1ms`, then the gate pins | `stm32/stm32f4xx_it.c` |
| main loop | `Bridge_ServiceMusicalEvents`, display, pattern cache, UI, `Bridge_ServicePersistence` | `stm32/main_stm32.c:155-194` |

The clock interrupt can interrupt SysTick, and both can interrupt the main loop. The only
critical section is the dequeue of a step (`sequencer_device.cpp:1610-1630`).

### Components

| component | state | operations | interacts with | correct when |
|---|---|---|---|---|
| step clock (`sequencer_device.cpp`) | tick accumulator, queue of due steps, diagnostics | TickMusical, ServiceOnePendingStep, Start, Stop, Reset, retiming | clock interrupt <-> main loop, shared counters | no step or tick is lost or doubled, none is carried into the next run, a backlog drains |
| step engine (`sequencer_device.cpp`, `pattern_bank.cpp`) | play position (pattern, bar, step, direction, repeat, chain slot), song, step length | AdvanceStep, Start, Stop, Reset, edits, chain edits, import | called by the step clock and by the UI | the position stays inside the song, bars come in order, skipped bars are silent, the loop ends, the chain moves on |
| gate engine (`sequencer_device.cpp`) and pins (`sequencer_bridge.cpp`) | gate, its counter, delayed retrigger; mask, block, hold, pulsed, pins | RetriggerGate, Tick1ms, ApplyCurrentStepBehavior, Bridge_Tick1ms, transport keys | all three contexts, no lock | an onset is heard, no gate hangs, stop is silent and stays silent |
| arpeggio engine (`arp_engine.cpp`) | mode, up to four notes, position, direction, sounding note | LoadNotes, Reset, Init, Advance | main loop writes, clock interrupt advances | never indexes outside the notes, ends up with the chord, reaches every note |
| step ledger (`sequencer_device.cpp`) | per bar: notes at 32 positions, packed lengths, output lanes, skip mark, summary | set, lengths, chord, skip, grid; resolution for playback | bar editor and menus edit, ApplyCurrentStepBehavior reads | events are on the grid, lengths and lanes stay with their notes, the summary is true, an edit is heard where it was made |
| pattern bank (`pattern_bank.cpp`) | 32 patterns, chain | chain edits and advance | step engine, UI | the chain is never empty |
| pattern store (`pattern_store.cpp`) | a FRAM slot per pattern, scratch buffer, chunked writer, chunked reader | WriteAsyncBegin/Service, ReadAsyncBegin/Service, Read, IsValid | main loop; I2C can fail, power can go | a slot that validates is one whole pattern |
| persistence (`sequencer_bridge.cpp`) | dirty marks, batch depth, tick of the last edit | PersistSong, PersistBegin/End, service, checkpoint, flush | UI edits, pattern store, V3 image | edits reach the FRAM, marks tell the truth |
| pattern cache (`sequencer_bridge.cpp`) | two buffers, validity, active selector, load under way | one service routine | chunked reader, chain position | the active buffer is never written; what is valid is whole |
| user chords (`chords/user_chords.cpp`, `user_chord_bridge.cpp`); chord library, a constant table | up to 128 chords in RAM and in FRAM, the ordinal saved or loaded last | create, load, delete, rename, read at boot | menus address by ordinal, FRAM by slot | what a restart loads is what the menus showed; a chord is whole |
| MIDI parser and clock (`platform/midi`) | running status; mode, state, tempo estimate | ParseByte, Tick1ms, Start/Stop | not connected to a UART yet | running status, real-time bytes in between |
| uClock, clock output (`platform/uclock`) | tempo counters, pin state | tick, sync callback | clock interrupt | edges alternate |
| bar editor (`ui_sequencer.c`, `screens/ui_screen_piano_roll.c`) | open bar, cursor, pending length, bars touched and what they held | place, remove, length, clear, leave with or without restoring | ledger calls of the bridge, one at a time | an edit is local, REC gives the notes back |
| UI state machine (`ui_sequencer.c`, `ui_screen_router.c`) | mode, screen stack, way back, shortcut, dialog, chord drafts and their copy on the screen | every key, the encoder, its short and long press | every component above through `Bridge_*` | screen and mode agree, nobody is stuck, questions protect the notes |
| input and screensaver (`ui_input.c`, `ui_screensaver.c`) | debouncing, modifier, pending events, idle time | poll, matrix scan, consume, wake | expander pins; hands events to the UI | a push is one press, Shift is used or a tap, keys are seen |
| bar editor screen (`screens/ui_screen_piano_roll.c`) | context handed over and drawn last, dirty flags | SetContext, UpdateIfDirty, draw | handlers of the editor hand over, the pass draws | the rows and the header show the bar and the editor |
| main grid display (`ui_display.c`, `screens/ui_main_grid_screen.c`, `ui_transport.c`) | context of the entry, caches of boxes, status row and header | entering, boxes, status row, header, transport keys | reads the engine, drawn by keys and by time | the boxes, the position and the header are those of the song |
| menu displays (`ui_display.c`) | one cache for each menu, frame drawn last | one drawing for each menu, box, confirm and wake | called by every handler of a menu | the menu shows the values being edited |
| panel driver, calibration, DAC and expander drivers, FRAM tools, host application | tables, registers | output | - | - |

### What is hard here

- Shared state without a lock between three contexts of different priority (step queue, gate,
  arpeggio list): the bugs need an interrupt between two particular assignments.
- Calls that are legal one by one but address different things: edits go to the *edit* pattern,
  playback uses the *play* pattern, and both use the same position fields.
- A loop (`while (true)` in AdvanceStep) whose end depends on the whole chain.
- Chunked transfers: a write takes about eighty passes of the main loop, with edits, reads,
  chain moves, failures and power cycles in between.
- Marks that stand for work to do later (`s_ps_dirty`, `s_v3_dirty_since_ms`), set and cleared
  by different routines.
- Packed and derived data: a five-bit length across two bytes, a lane byte indexed by the rank
  of a note, a summary of the bar that decides whether it sounds.
- A user interface whose mode, screen stack, way back, shortcut, dialog and drafts are separate
  static variables, each changed by many handlers.
- Contacts that bounce, polled at two rates, with a modifier and a screensaver on top.
- Drawing functions that redraw only what they believe has changed, each with a cache of its
  own, while boxes and the screensaver draw over what the caches describe.

`PROJECT.json` lists each hazard with its line and the properties that would catch it.

## 2. Plan

All modules of the plan are written, in this order:

1. `StepClock`, with the abstract `StepQueue` it implements, and `StepClockProofs`.
2. `StepEngine`, `MCStepEngine`, `StepEngineProofs`.
3. `GateEngine`.
4. `ArpEngine`, `MCArpEngine`; `OutputProofs` for 3 and 4.
5. `PatternStore`; `Persistence`, which extends it with the bridge; `PatternCache`, which extends
   it with the reader's user; `StorageProofs` for the three.
6. `Ledger`, with `PackedLengths`, the encoding of its lengths, and `SongImage`, that of a whole
   song; `PianoEditor`, which extends Ledger with the bar editor, `MCPianoEditor`,
   `PianoEditorProofs`.
7. `Ui`, `MCUi`, `UiProofs`: modes, screens, dialogs and drafts.
8. `UiInput`: from contacts to events.
9. `UserChords`, `UserChordsProofs`.
10. `PianoScreen`, which extends Ledger with the screen of the bar editor.
11. `GridScreen`: the main grid while the song plays.
12. `MenuScreens`: the five menus that draw only what changed; and `MCScreens`, which puts
    modules 10 to 12 on one display; `ScreenProofs` for the three.

Composition is by extension where a component drives another one call by call: Persistence and
PatternCache take the actions of PatternStore into their own steps (the latter all of them, so
that PatternStore needs no run of its own), PianoEditor those of Ledger, and the proofs of the
former two use the lemmas about PatternStore. OutputProofs, UiProofs and ScreenProofs are each
about modules that have nothing in common but their subject, and extend them all; names that two
of these would share carry the module's (`GateSpec`, `MenuSpec`, `gridUi`). The others meet at
interfaces that are parameters: the clock interrupt (any time), the chords of the library, the
kind of a step that was reached.

Still open: the drawing of the chord and user chord menus.

## 3. Modules and code

**StepClock.** `accum`, `pending`, `stepTicks` are `musical_ticks_accum_`,
`pending_step_events_`, `musical_step_ticks_`. The interrupt is one action (`TickMusical`; its
`while` loop is written as quotient and remainder, with the same result). The main context is a
program counter with a step between any two accesses to shared state: `DequeueRead`,
`DequeueEmpty`/`DequeueWrite` for ServiceOnePendingStep, `Start`, `StartAccum`, `ClearQueue`,
`Recalculate` for the assignments of Start and Reset in their order. PRIMASK is a variable that
guards the interrupt. `gridTicks`, `spent`, `runQueued` and `discarded` are history.
`StepQueue` is the queue one would like to have: due, play, drop, each atomic.

**StepEngine.** `at` is the play position. `AdvanceStep` of the code is `BeginAdvance` and then
one action per pass of its loop: within the bar, to another bar, the end of a OneShot pattern,
past an empty pattern, giving up. The scan for an active bar is a set expression
(`SkipToActive`). User calls come between two advances, as in the main loop. Calls that the
bridge never makes and that nothing else calls (SetStepType, SetStepDurationMultiplier,
ToggleStepNote, ClearStepNotes: private and unused) are left out. PingPong, OneShot and
ImportSong can be reached only through the device's own interface; they are modelled because
AdvanceStep handles them.

**GateEngine.** One variable per flag of the device and of the bridge's pin logic. SysTick is
three steps (gate, retrigger, pins), because the clock interrupt can come in between; the main
context is split at every write to what the interrupts use. Which step is reached is abstracted
to its kind: silent, start of an event, inside an event. The pins of the four lanes are one
flag, "some pin is high". `gate_length_ms_` is the constant GateLength.

**ArpEngine.** The engine's fields, with LoadNotes split into mode, clearing, one note at a
time, the comparisons and exchanges of the sort in place, and the assignments of Reset;
`Advance` may come between any two (at most once in a call: two events are at least 25 ms
apart). Between the two assignments of an exchange a note is listed twice and another one not at
all, so `Intended` in the proofs is the list with the exchange completed. Arithmetic is that of
`uint8_t`. Notes are small numbers, those above `Highest` standing for values that are not MIDI
notes.

**PatternStore.** A pattern is a function from chunks to contents, and its CRC is the pattern
itself (collisions are not considered). The driver `mb85rc1mt.c` retries once; what remains is
a transfer that fails and leaves the bytes old, new or mixed. Blocking reads exist in the
diagnostics build (`S12_PATTERNSTORE_VERIFYALL_ENABLE`) and share the scratch buffer.

**Persistence** extends it with the bridge's marks. The main loop is `ui`, then the three
steps of Bridge_ServicePersistence; `UiReturns` requires that batches are closed, as every
handler of `ui_sequencer.c` closes its own. An edit is written as its number. Setters that do
not call PersistSong (ledger clear, custom chord, tempo, playback source) change nothing here.

**PatternCache** extends PatternStore with the two buffers. `Move` is any change of the pattern
that plays and of the next one. Meanwhile slots are written and read by the diagnostics
(`StoreCalls`), and the power goes (`Restart`, after which playback may be anywhere).

**Ledger.** A bar is a record: notes at each position (a set - the array is kept sorted and
without repetition), stored length, lane byte, the mask of explicit lanes, skip mark, and the
summary (`note_mask`, type) that RefreshSlotSummary derives. One action is one call of the
device: SetStepLedgerSlot, SetStepEventLengthGrid, SetStepChordParams, SetStepCustomUserChord,
SetStepBarState, SetPatternTiming. `NotesAt` and `LanedAt` are ResolveEventNotesForPlayback and
its variant with lanes, which the properties use to say what is heard. **PackedLengths** is the
array of five-bit fields, byte by byte.

**PianoEditor.** The session of the bar editor over the ledger: open, move, put and take notes,
length mode, clear, leave by PLAY or REC. The loops that clear or restore a bar are sequences of
bridge calls, and the player may resolve notes between any two, so each call is a step.
`packed` carries the lengths through PackedLengths next to the ledger's own, and `Song` is what
the bars are to a save. The chord chooser over the editor places a chord in a column
(`PlaceChord`); after NO to "LEAVE CHORD?" it stores the drafts of all bars instead
(`CommitInSession`), and PREV, NEXT and the keys of the bars let the session go on at another
bar. `stores` are the bars whose draft is still to be stored, one bridge call each
(`DraftCall`). Placing a chord and storing the drafts mark no bar; `opened.given` is history and
names the bars that were given a chord while they had no mark. The chord menus over the grid
store the drafts too (`CommitFromGrid`), or one bar (`ReplaceBar`); they cannot be reached from
the chooser over the editor.

**SongImage.** The stream that EncodeSongCore writes to FRAM, as a sequence of fields with their
widths, and DecodeSongPayload as the reader of one: sections in the order of the code, chords as
their number among all chords of that size (RankCombination, UnrankCombination), lengths and
lanes for the positions PersistIsEventStart accepts. A field read with another width than it was
written with ends the reading; what the bits would look like from there on is not modelled.
`ImageOfHarness` is the encoder the host harness has of its own.

**Ui.** The static variables of `ui_sequencer.c` that decide what an input does are the fields
of one record; each handler is an operator on it and each input one action. Bars have one value
for their notes (a chord type, none, or notes of their own) because the handlers only ask for
that. What a menu edits inside is left out, where it leads is not.

**UiInput.** One action is one pass of UI_Input_Poll and the consumer, with the fingers and the
bouncing of the contacts before it; the time the pass took goes by at its end. Times are passes.

**UserChords.** Slots in RAM and FRAM, the magic number, and the ordinal the menus remember;
`Written` lists what a broken transfer of the 22 bytes of a slot can leave.

**PianoScreen.** The display is what was painted on it: per row its label, lane, notes with
their colours, cursor and selection, and per field of the header what it said. The handlers hand
the screen a context (`Fitted`, the corrections RefreshStepPianoContext makes first), SetContext
compares it with the last one and with the one drawn last and sets dirty flags, and the drawing
at the end of the pass is an action of its own, because a matrix key, the encoder key and the
encoder can all be seen in one pass, in this order. The bar is one of Ledger and an edit is the
call the handler makes.

**GridScreen.** A pass of the main loop is a step of the engine, the keys in the order in which
UI_Sequencer_Update looks at them, the boxes and the status row (`Order`); the run time goes on at
any moment. There are three ways to draw: on_draw of the grid draws the context of its entry,
RedrawGridComposed the variables as they are, and the boxes, the status row and the header follow
piece by piece. `gridCache` is what the functions compare with and `gridDisp` what is really
there. The excursions to other screens (`LeaveGrid`, `ReturnToGrid`) bring the bars back with at
most one edit: the notes or the type of a bar, or the loop mode.

**MenuScreens.** Timing, quantiser timing, router, arpeggio and song chain. Each has a drawing
that compares its arguments with those it was called with last (`RowsToDraw`, `HeaderOutOfDate`),
and MenuTemplate_Begin, which makes them forget when another frame was on the display. A menu is
entered with any values, since the device or the last visit may have left them; the box of a
question and the screensaver are contents of `menuDisp` like the rows. A row is a label, a value and
its marks.

**MCScreens** extends the three and puts them on one display. The router has one screen active at a time and
entering another draws everything, so the modules share no cache, and each has the leaving of its
own screens and the coming back. A behaviour therefore follows the screens of one module, chosen
at the start.

## 4. Runs

Twelve runs, eleven of which pass. Deadlock is checked for StepClock, whose bound leaves the main
loop running, and for GateEngine, Ui, UiInput, UserChords and Screens, in which some input or pass
is always possible. In the others every behaviour ends when the bounds on calls, loads, edits or
writes are used up, so deadlock is not checked there.

| run | bounds | states | shows |
|---|---|---|---|
| `StepClock` | quarter of 4 ticks, divisions 1, 2, 4, 6 interrupts | 368k | conservation of steps and ticks, clean queue, refinement, backlog drains |
| `StepEngine` | 3 patterns, 3 bars, chain of 3, 4 calls, 7 songs | 158k | position, timing, order of bars, termination, chain progress |
| `GateEngine` | gate of 3 ms, 2 arpeggio events | 155k | stop is silent, gates end, onsets reach the pin, stopped pins go and stay low |
| `ArpEngine` | chords of 0 to 5 notes, 2 loads, all modes | 28k | index, chord, every note reached, no doubled end |
| `Persistence` | 2 slots, 2 chunks, 3 edits, 1 fault, no nesting beyond 1 | 298k | slot and V3 image catch up, marks tell the truth |
| `PatternCache` | 2 slots, 2 chunks, 2 contents, 2 writes, 1 move, 1 fault | 1.10M | slots, finished reads and valid buffers are whole, DONE means valid, the flip, progress |
| `PianoEditor` | 2 bars of 8 or 4 positions of 1/32, 2 edits (or commits of drafts), transpositions 0 and 24 | 752k | grid, summary, packed lengths and images read back, edits local, lanes, REC |
| `Ui` | 2 bars, 2 chord types; no bound on the inputs | 872k | screens and mode, drafts, way out, questions |
| `UiInput` | a key, PLAY, Shift, encoder; debouncing of 3 passes, saver after 8; 2 pushes | 779k | one press per push, taps, keys seen in bounded time |
| `UserChords` | 3 slots, 2 chords, 4 writing calls, 2 faults | 801k | restart shows the library, slots are whole |
| `Screens` | 3 rows of 5 pitches, 1 edit, 2 inputs in a pass; 2 patterns of 2 bars of 2 steps, 2 keys, 1 excursion, 1 sleep; menus of 4 and 2 rows, song of 3 slots on pages of 2 | 2.56M | bar editor, main grid and menus show what they are of, edits reach the display, one slot is outlined |

Why these bounds are enough to be interesting: a quarter of 4 ticks has step lengths 4, 2 and 1,
so shrinking the length makes up to four steps due at once; two of them in the queue make a
backlog. Three patterns with a chain of three have a pattern before, an empty one and one after;
three bars have a first, a middle and a last one to skip; the signatures include one that no
division fits, one that only fine divisions fit, and two that all fit. A gate of three
milliseconds has a first, a middle and a last one, and two arpeggio events can fall around one
retrigger. Two slots, chunks and writes give mixtures of two patterns in one slot; one fault
already makes every kind of torn slot. Eight positions of five bits are five bytes, so that
fields lie across bytes in each way there is; bars of 1/4 and 1/8 hide the second half of a bar
that was edited in full length; the note 110 leaves the range of MIDI when transposed by 24, and
four notes use up the lanes. Two edits mark a bar twice, or mark one and then store the drafts
of all, in either order, before REC; that more bars of a session are marked, or the grid changes
and changes back around them, is left to the proof. Keys 5 and 9 are two that the chooser and the grid treat apart. A
debouncing of three passes against a bouncing of two and a matrix scanned in every second one
keeps the order of the real times; the saver after eight falls into a push and between two.
Three slots and four calls make holes, a full library and a first chord on a new chip.
Three rows of five pitches with an octave of two let the view shift by an octave and by less at
either end; two of the rows are those the cursor moves over, and one lies under the box (5 to 12
of 19 in the code); one pass can see three inputs,
of which two are enough for a second one to meet what the first left undone. Two patterns with
notes in different bars tell a redrawn box from an old one; a key that wakes counts among the two.
Timing menus of four rows have one row beside the three that decide what is refused (five in the code); a song of
three slots on pages of two (32 on pages of four) scrolls to a page that is partly empty, and two
values for each row are enough to differ. One move of the playback meets every state of a load;
the proofs hold for any number. The counters `MaxTicks`, `MaxCalls`, `MaxEvents`, `MaxLoads`,
`MaxWrites`, `MaxFaults`,
`MaxEdits`, `MaxMoves`, `MaxInputs`, `MaxAway`, `MaxSleeps` and `InputsPerPass` appear in guards
only.

### The run that fails, and what it shows

`Persistence_lost`: ServicePatternStoreAsync writes the pattern that is current when it runs
(`sequencer_bridge.cpp:1638-1647`), and the mark does not say which one was edited. An edit
followed by a change of pattern never reaches its slot, against "never a lost edit" (`:1632`).
`CurrentIsStored` says, and StorageProofs proves, what does hold.

### Seen while modelling, without a run

Step engine and clock:

- A pattern whose last bar is skipped never completes, since the scan wraps to bar 0 behind the
  completion test (`sequencer_device.cpp:2104-2124`), so the chain stays with it, against "times
  to play before chain advance" (`sequencer_types.h:456`). `ChainAdvancesUnlessEndSkipped` says
  when it does advance.
- The chain advances without recomputing the step length (`sequencer_device.cpp:1980`), against
  "The current grid division defines the runtime cadence for the whole step." (`:848`).
- After an empty pattern is passed, the next one begins at its second step (`:2133-2139`);
  PingPong enters the next bar, not the first. A pattern of one bar of one step (1/4 at the
  coarsest division) that plays once is left without having been heard, so a chain of it and an
  empty pattern stops as if everything in it were skipped. The proof of `StopsOnlyWhenDone`
  found this: the property had said that each pattern of the chain must be empty. It now names
  the patterns that are passed unheard, and the run has such a song.
- SetPatternStepCount resets the bar of the pattern that plays although it edits another one
  (`:537`, against `:762-763`).

Gates and arpeggio:

- The branches that silence a step lower the gate before they clear the retrigger and the
  arpeggio (`sequencer_device.cpp:2151-2158`, `2225-2234`); an interrupt in between lets a
  silent step sound until the gate length is over. Stop has the right order.
- The pins rise once for each position (`s_gate_step_pulsed`), so later arpeggio events of one
  step give no edge, against `sequencer_device.cpp:1586`.
- Reset while playing leaves the mask at 0, so the first step is mute at the pins.
- With two notes the bounce leads from position 0 to 255 to 0 (`arp_engine.cpp:116-131`), so a
  note sounds twice, against "ARP UpDown bounces without endpoint duplication"
  (`scripts/v2_stage4_host_harness.cpp:1904`); `NoEndpointTwice` holds for three and four.

Storage:

- A failed chunk leaves a mixed payload (`pattern_store.cpp:197-203`, against
  `pattern_store.h:61`); the CRC catches it, which is what `ValidIsWhole` says.
- A diagnostic read during a write overwrites the scratch buffer, and the write then reports
  DONE over an invalid slot; `DoneMeansValid` excludes exactly that.
- Failed saves are not retried, an edit at tick 0 counts as clean (`TickZero`), the V3 image has
  one copy that is invalid while it is written, and the firmware never loads it.
- A cached buffer is not invalidated when its slot is rewritten.
- The V3 image of a song with notes cannot be read back: EncodeSongCore writes the lengths and
  lanes before occupancy and notes (`sequencer_bridge.cpp:759-803`, then `805-866`), and
  DecodeSongPayload expects occupancy and notes first (`1046-1114`, lengths at `1116`, lanes at
  `1139`). TLC refutes the reading back of `ImageV3` in the first state that has notes. "streamed
  V3 output decodes identically" (`scripts/v2_stage4_host_harness.cpp:1755`) passes because the
  harness has an encoder of its own with the other order, and without lanes. Nothing is lost as
  long as LoadSongFromFram (`:1248`) has no caller.
- The image keeps no length and no lanes for an event right behind an occupied position, which
  PersistIsEventStart (`:602`) does not take for a start while the ledger does.
- Note edits of the ledger are not marked for persistence (`sequencer_bridge.cpp:2042`, `2056`,
  `2086`: "Step-piano ledger edits are runtime-only for now.").
- User chords: after a failed read at boot the table is empty, and the next chord saved takes
  slot 0 over the one stored there. A slot written while the magic number is not appears later
  as a chord that nobody saved. A rename or delete that breaks off leaves a mixed chord. The
  ordinal remembered is not adjusted by a delete, so a rename may reach another chord; names
  given by number repeat after a delete.

Bar editor and menus:

- Committing a chord stores the drafts of all twelve bars, not only of the one in hand
  (`README.md:285` of the repository: "Per-step chord parameters (root, type, duration)"). NO
  to "LEAVE CHORD?" ends the direct context, so that PLAY then commits the whole draft although
  the chooser is to place only (`README.md:206`). CLEAR by the encoder commits all bars, CLEAR
  by PLAY one. A chord type picked for an empty bar is lost when the drafts are read again.
- Those drafts replace all bars inside the session of the editor, and none is marked
  (`ui_sequencer.c:1332`, `1345`): REC then restores the bars that were marked before and leaves
  the others with the drafts.
- A slow press of the encoder opens a menu and then asks whether to leave it.
- REC restores notes, but not lengths or skip marks (`README.md:239`), not a bar that was given
  a chord before it was marked, placed or stored with the drafts, and not one whose grid changed
  in between; `RecRestoresNotes` says what it does restore.
- The editor assigns no outputs: the notes of an event it makes go to the outputs in their order,
  so a note put in below the others moves them all (`sequencer_device.cpp`, the variant of
  ResolveEventNotesForPlayback with lanes). `NotesKeepTheirLane`, a part of `EditStaysInPlace`,
  says so: an assigned output is kept, another one changes only when a note below came or went.
- In bars of 12 or 24 steps the cursor reaches columns outside the bar.
- InitLedgerFromMask leaves explicit lanes of the chord before in place.
- Dead code: the branch of SetStepLedgerSlot that shortens the event before (its length is
  taken after the cut), ToggleStepNote, ClearStepNotes, SetStepType,
  SetStepDurationMultiplier, and the route of the quantiser menu.

Displays (the names in brackets are definitions of the modules of screens that no run lists,
because TLC refutes them when one does):

- A change of lengths and a move of the selection in one pass set SPAN_ROWS and the two row
  flags; the drawing takes the branch of the first (`ui_screen_piano_roll.c:1355`) and drops the
  others, so the selected row keeps its old look (`SelectionIsLit`). `RowsShowNotes` leaves the
  marks of the selection out for this reason.
- NO to a question of the bar editor only clears its flags (`ui_sequencer.c:2463`), and nothing
  redraws the rows under the box (`BoxOnlyWhenAsked` of PianoScreen). It is the same in the timing
  and arpeggio menus (`MenuBoxOnlyWhenAsked`) for another reason: on_draw is called, but
  the frame is still the menu's, so MenuTemplate_Begin (`ui_display.c:969`) forgets nothing and no
  row has changed. It follows a YES whose timing the device refuses as well.
- The key that ends the screensaver calls on_draw (`ui_sequencer.c:4449`), which is to be "one
  full, state-preserving repaint" (`:4436`). In the bar editor the context was emptied before, so
  the bar is drawn without notes (`ScreenShowsBar`); on the grid it is the context of the last
  entry, with the bar that played then (`PlayingBarIsLit`); in a menu it compares with what was
  there before the saver and draws nothing (`RepaintedOnWaking`).
- A key that leads back to the grid draws it with the playing bar of the pass before, and
  `s_last_active` may already be the bar that plays now, so that another bar stays lit until the
  next one begins (`PlayingBarIsLit` again).
- Play follows the header's copy of the state (`ui_transport.c:20-49`), which Reset sets to
  stopped while the device plays on; the next Play then starts what is playing (`PlayToggles`).
- The key that ends the screensaver draws the position the grid was entered with, in a pass
  without a status row; if the engine is then back at the position written last, the row is not
  drawn. `StatusShowsPosition` speaks of the time before a sleep.
- The status row compares the position with the one it wrote last, and the drawings of everything
  in between leave that memory alone (`ui_display.c:1108-1250`). In a pass that takes up a new
  pattern, or draws for another reason, a key that rewinds the song (`ui_sequencer.c:4457-4475`)
  may bring the engine back to just that position: the step and the run time then stay as the
  drawing left them until the song moves. It takes three keys; the attempt to prove
  `StatusShowsPosition` found it. The property exempts what follows (`used.late`).
- A question over which the screensaver came is still asked after waking, without its box.

Input:

- The push that wakes the display is delivered on a later update (`ui_input.c:633`), against
  "the input that wakes the display is swallowed instead of also being delivered to the normal
  UI on the next update." (`ui_input.h:38-40`): a press of the encoder gives a short press on
  release, and a key held for three minutes is seen again. `OnePressPerPush` exempts these.
- A Shift held while the machine starts gives a tap; the encoder uses the Shift of the poll
  before; of two keys that appear in one scan only the higher is delivered.

## 5. Fairness

- StepClock: `WF(Main)`. The main loop never ends and nothing it calls here blocks. The clock
  interrupt is *not* fair: a backlog drains also if the clock stops.
- StepEngine: `WF(BeginAdvance)`, `WF(AdvanceStep)`. The clock runs as long as the transport
  plays, and ServiceOnePendingStep is called in every pass.
- GateEngine: `WF(SysTick)`, `WF(InCall)`. SysTick comes every millisecond; a call that was
  entered ends. Neither key presses nor steps are fair.
- ArpEngine: `WF(Advance)`, the clock again; LoadNotes is not fair.
- PatternCache: the service routines of the cache and of the writer, called in every pass.
- Persistence: `WF(ServicePersistence)`, `WF(IdleTime)`, and strong fairness of `PersistEnd` and
  `UiReturns`: a handler closes its batch and returns, whatever else the user does in that pass.
- PianoEditor, Ui, UiInput, UserChords and the screens state safety only, PatternStore what
  PatternCache needs of it. What must happen in the former happens by the user's next inputs
  (`EscapesToGrid` counts them) or within a number of passes (`KeysAreSeen`), both as
  invariants that need no fairness.

## 6. Proofs

`tlapm` checks eight proof modules; each result holds for every value of the constants under
the named assumptions of its module (`ClockAssumption`, `EngineAssumption`, `GateAssumption`,
`ArpAssumption`, `StoreAssumption`, `PersistenceAssumption`, `CacheAssumption`,
`LibraryAssumption`, `LedgerAssumption`, `EditorAssumption`, `UiAssumption`, `InputAssumption`,
`ScreenAssumption`, `GridAssumption`, `MenuAssumption`), which the runs evaluate. They say no more than the code does: a bar has at most 32 positions
(`kStepLedgerMax`), the bars are finitely many; and of the world that a pass of the main loop
takes some time, of finitely many lengths, and a contact bounces for less than
DIRECT_DEBOUNCE_MS and MATRIX_DEBOUNCE_MS.

- **StepClockProofs.** `TypeCorrect`, `StepsConserved`, `GridConserved`, `QueueIsClean`,
  together `QueueStaysSound`, and `RefinesQueue`. The invariant adds to the types and the two
  conservation laws *CriticalSection* (while the program counter is between read and write of
  the queue, PRIMASK is set and the local copy equals the queue) - without it the write-back
  could lose an increment - and *CleanQueue*, which extends the clean queue to the inside of
  Start and Reset. The refinement proof maps each action to due, play, drop or a stutter;
  several steps that fall due in one tick are one `Due`.
- **StepEngineProofs.** `TypeCorrect`, `PositionStaysInRange`, `TimingStaysSupported`,
  together `PlayStateStaysSound`, `SkippedNeverPlayed`, `BarsPlayInOrder` (the next step of the bar,
  else the nearest active bar round of the same chain entry, else, once the pattern is played
  out, the first active bar of the next entry) and `TransportStopsWhenDone`. Types, timing and position are
  inductive only together: the clamp to `steps_in_bar - 1` needs a bar with steps, and the bar
  of a new pattern is in range only because ClampBar comes first in each pass. Lemmas say what
  ClampBar, NextBar, CompletePattern and SkipToActive return; those about the scan use that a
  non-empty set of natural numbers has a minimum. That AdvanceStep gives up only when there is
  nothing left to play needs the way it has come: *PassInv* says that after n passes playback
  has entered so many entries of the chain that n is at most MaxRepeat times as many (a pattern
  is repeated fewer than MaxRepeat times), and that those behind it were passed; with
  ExhaustionFactor (32) passes for each entry allowed, and MaxRepeat (16) not larger - an
  assumption the constants of the code meet - they are then all the entries there are.
- **OutputProofs**, about two modules. GateEngine: `TypeCorrect`, `StopSilences` and
  `StoppedPinsStayLow`, together `StopIsKept`. The invariant
  follows the program counter: after `StopRetrigger` no retrigger can come back (nothing arms
  one while the device is stopped), after `StopGate` no gate; and from the snapshot to the next
  Play the mask of a stopped device is closed.
  ArpEngine: `IndexStaysInNotes`, `EngineHoldsChord`, `EndpointsSoundOnce`. For the
  index the position alone is not inductive: the bound of the list is needed (`note_count_`
  grows by one per note looked at, and four are looked at), and the step of each mode from a
  position that may still be that of a longer list. *ListInv* follows a load: while it appends,
  the list holds the MIDI notes among those looked at, each once; while it sorts, `Intended` is
  a permutation of them with the first `i` in their final places and the one at `i` below all
  it was compared with; afterwards the list ascends, and between calls the note that sounds is
  the one at the position. A list that ascends has as many places as notes
  (`AscendingListCounts`), and a bounce in a list of three or four always moves.
- **StorageProofs**, about three modules. PatternStore: `TypeCorrect`, `ValidSlotsAreWhole`,
  `DoneReadsAreWhole`, together `StoreNeverTears`, and `DoneIsValid`. *SlotsSealed*: a header
  that is right carries the CRC of a pattern given for that slot, or of none; *WriterKnown* and
  *ReaderKnown* say the same of the two transfers. For `DoneIsValid` the invariant adds that,
  until a blocking read disturbs it, the scratch buffer is the pattern given and the chunks
  written so far equal it.
  PatternCache: `ValidBuffersAreWhole`, with the store's part `CacheIsWhole`, and
  `PlaybackIsSafe`. *LoadUnderWay*: a load goes into the
  inactive buffer, which is not valid meanwhile, and the reader is at the slot the load was
  begun for. That a finished read is one whole pattern comes from the invariant of
  PatternStore, which every step of the cache keeps.
  Persistence: `CurrentPatternIsStored`, `V3HasEveryEdit`. *OnItsWay*: with no mark left and no
  failed transfer, the writer is either idle and the slot of the current pattern holds it, or
  busy with just that pattern for just that slot. `V3HasEveryEdit` assumes that the tick is
  not 0.
- **PianoEditorProofs.** `LedgerStaysConsistent` for the calls of the device alone,
  `EditorKeepsLedgerConsistent` under the bar editor. *LedgerInv* adds to consistency that the
  grid fits the bar: without it a coarser grid could be accepted on which the positions of the
  editor fall outside. The lanes rest on ranks being unique and on four being enough, the
  lengths on the next start lying inside the bar. *EditorInv* says that what REC will restore,
  and the calls of a loop under way, are calls the bridge accepts.
  `RecGivesNotesBack` rests on *RecInv*: a bar without a mark holds the notes the session began
  with, a mark has them as the columns of the grid it was made on, and once REC
  was pressed every column of a marked bar either has its old notes again or is
  among the calls still to be made, so that with no call left they all have. A call for one
  column leaves the others alone because columns lie a stride apart. A draft still to be stored
  is for a bar that is marked or among those given a chord, so storing it in the session
  disturbs no bar the theorem speaks of, and none is left when REC begins.
  `EditsAreLocal`: an event reaches a position exactly when its stored length does and no
  event starts in between (`ReachingMeans`), so at most one does, and two bars that differ at
  one position agree on what reaches any position outside the stretch from there to the next
  event; each step of the editor is such a difference (`EditIsACall`).
  `NotesStayOnTheirOutput`: the lane stored at the place of a note is the one it was given
  (`LaneWritten`), those given to new notes differ from each other and from the lanes of the
  notes that stay (`LanesAfterDiffer`), and transposing drops notes without moving a lane; in an
  event without lanes of its own the output is the rank among the notes heard, which depends on
  the notes below only and is nobody else's (`PlacesOfNotes`).
  `EditsStayInPlace` is both together.
  `LengthsReadBack`: *PackedInv* says that the packed array is the layout of the lengths, byte
  for byte (`Layout`: eight fields fill five bytes). `FieldReadsBack` and `FieldIsSet` are
  PackedEventLengthRawGet and RawSet on such a layout, by the eight places a field can begin
  at in a byte (`Field0` to `Field7`); that an edit stores one length is all it may change
  comes from the same lemma as `EditsAreLocal`. The array a song is imported with is filled by a
  loop; a least position at which it would not be the layout is refuted.
  `StoreStaysConsistent` is both.
- **UiProofs.** `ScreensStayConsistent`, `ScreenShowsDraft`, `NotesAreProtected`,
  `NobodyIsStuck`. *Good* says for each mode which stacks of screens, ways back, shortcuts and
  questions it can have; there is a lemma for each handler and one for each input.
  `NobodyIsStuck` is a statement about all Good states: one, two or three inputs close what is
  open or come nearer to the grid, and the walk that `EscapesToGrid` asks for is put together
  from these.
  About UiInput: `PanelIsConsistent`, `KeysSeenInTime`, and `OnePressEach` with
  `TapsAreUnmodified`, together `EventsAreWhatWasPushed`.
  *PanelState* has a part for each. *PressState*: a button whose last push has given its press is
  not down unless it is believed down, and a sample that says otherwise is younger than the
  contact's bouncing, so it cannot come to be believed (`ContactIsDebounced`, the only place
  where bouncing must be shorter than debouncing). *SeenState* bounds `behind` by how long ago,
  as far as the two intervals tell, the matrix was last scanned (`Waited`), and since when its
  sample has stood (`Settling`): a wrong sample means that a contact bounced at the last scan or
  that no scan was due, a right one that has not settled means that the scan before was wrong.
  *ShiftState*: whatever is given with Shift marks Shift as used until it is seen pushed anew.
  What one pass does is first reduced to what the three need (`PollIs`, `PassIs`).
- **UserChordsProofs.** `OrdinalsLeadBack`, `TypeCorrect`, `RestartIsFaithful`,
  `ChordsAreWhole`. *TablesAgree* strengthens the restart property to equality of both tables;
  *NamesAChord* is needed so that a rename writes a slot that exists. The ordinals rest on the
  number of chords before a slot being strictly increasing over the slots in use.

- **ScreenProofs**, about three modules that draw only what they believe to have changed, with one
  argument: what the display shows of what was drawn last, and which flag or comparison stands for
  each difference from what the screen was given since.
  PianoScreen: `EditorStaysTrue`, `EditsReachScreen`. *GivenInv*: the context given last is what
  the editor would give now, notes and lengths excepted after the screensaver. *EditorInv*: the
  display shows the context drawn last, and each field of the header and each row in which the two
  contexts differ is named by a dirty flag (*HeaderFlagged*, *RowsFlagged*). The flags for the rows
  exclude each other when they are used, so that they suffice rests on what can happen in one pass:
  the view moves only by a key of the matrix and never while a length is set, the column only by
  the key of the encoder, and a set or taken note lies in the selected row or, after a turn later
  in the same pass, in the row selected before (*NotesFlagged*). Lemmas follow each way of drawing
  from there (`ShiftShows`, `BodyShows`, `DrawsChanges`): a shift by an octave may keep the lanes
  because notes an octave apart have the same, and a block's colour is decided by the first event
  under it, which is the only one since events do not reach into one another (*ContextOK*). There
  is a lemma for each input, by way of `SetKeeps` for those that are drawn at the end of the pass
  and `DrawAnewKeeps` for those drawn at once.
  GridScreen: `GridStaysTrue`. *DigitsInv* and *TextInv* tell the two caches of the status row
  apart: the position it wrote last and the digits; the digits on the display are either what it
  wrote or, in a pass that has drawn everything, those of the engine. *LastInv* says when the bar
  drawn last is the one that plays, *PatternInv* in which part of a pass the pattern drawn may be
  another than the one chosen, *BoxesInv* that boxes drawn from the variables follow them.
  MenuScreens: `MenusAreTrue`, `OutlinesOneSlot`. *ListInv*: while a list is active its cache is the
  draft, so that the rows to draw are those in which an input made them differ; *SongInv* the same
  of the page of the chain, except for the place the engine has gone on to. Off the menus the frame
  is another one, so that entering draws every row.

Only model-checked: all liveness (`BacklogDrains`, `AdvanceTerminates`,
`ChainAdvancesUnlessEndSkipped`, `GatesEnd`, `OnsetPulses`, `ReachesEveryNote`,
`StorageCatchesUp`, `CurrentGetsCached`), which the prover cannot express with fairness;
and `SongReadsBack`, which would need induction over the fields of an image and over the numbers
of chords (RankCombination) on both the writing and the reading side.

## 7. Not modelled

- MIDI parser and clock: no UART feeds the parser (`ReceiveByte` has no caller) and the clock
  source is always Master, so the branches worth modelling do not run in this firmware.
- uClock: third-party; it is the source of an interrupt that may come at any time. Its STM32
  backend keeps the state of the clock output while the pin is forced low
  (`uclock_stm32_hal.cpp:155`), which is output only.
- Calls that no caller reaches: chain insert and remove of `PatternBank`, the blocking
  `PatternStore_Write`, and the dead code named above.
- The effect on the song of values edited in the timing, arpeggio, quantiser and song menus:
  MenuScreens has them as values that are drawn, saved or refused; the setters behind them are
  in StepEngine and Persistence.
- Of the displays: pixels, texts and footers, the keyboard view of the chord editor, the drawing
  of the chord and user chord menus, and on the grid tempo, swing, division and chain length.
- Expander off line and its recovery, screensaver drawing.
- Panel, calibration, DAC and expander drivers, FRAM tools, host application: output, numeric
  tables, fonts or builds of their own, without shared state of interest. They are about half of
  the lines of the repository.
- Timing in microseconds: contexts are interleaved freely instead. Rates appear only where the
  code depends on them (an arpeggio event and a LoadNotes call, debouncing).
- The bits of the V3 image inside a byte, its names and the settings of a bar it holds, its header
  and checksum; the layout of a pattern in FRAM.
