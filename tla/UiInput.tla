-------------------------------- MODULE UiInput --------------------------------
(***************************************************************************)
(* From the contacts of the panel to the input events of the user          *)
(* interface: UI_Input_Poll with its debouncing, and the screensaver that  *)
(* swallows the input that wakes it.                                       *)
(*                                                                         *)
(* The main loop calls UI_Input_Poll and UI_Sequencer_Update one after the *)
(* other; one such pass is one action, after which some time has gone by.  *)
(* Fingers push and release buttons between two passes, and a contact      *)
(* bounces for a while after each.  Times count in passes of the loop; an  *)
(* age stops at the last value anything is compared with.                  *)
(*                                                                         *)
(* Left out: what the interface makes of an event (Ui), the drawing of the *)
(* screensaver, and the wizard that may run before the first pass.         *)
(***************************************************************************)
EXTENDS Integers, FiniteSets, FiniteSetsExt

CONSTANTS
  MatrixKeys,       (* keys of the step matrix, subset of 1 .. 12          *)
  Plain,            (* of PLAY and REC, which are handled alike            *)
  Bounce,           (* how long a contact bounces                          *)
  PollInterval,     (* MCP_POLL_INTERVAL_MS                                *)
  ScanInterval,     (* MATRIX_SCAN_INTERVAL_MS                             *)
  DirectDebounce,   (* DIRECT_DEBOUNCE_MS                                  *)
  MatrixDebounce,   (* MATRIX_DEBOUNCE_MS                                  *)
  ArmRelease,       (* DIRECT_ARM_RELEASE_MS                               *)
  StartupIgnore,    (* MCP_STARTUP_IGNORE_MS                               *)
  LongPressTime,    (* ENCODER_LONG_PRESS_MS                               *)
  IdleTime,         (* SCREENSAVER_IDLE_MS                                 *)
  Elapsed,          (* how long a pass may take                            *)
  HeldAtStart,      (* sets of buttons that may be down while it starts    *)
  MaxPushes         (* bound: pushes of buttons in a behaviour             *)

PlayButton == 13
RecButton  == 14
Shift   == 15
Encoder == 16

Direct  == Plain \cup {Shift}
Buttons == MatrixKeys \cup Direct \cup {Encoder}

ASSUME InputAssumption ==
  /\ MatrixKeys \subseteq 1 .. 12 /\ Plain \subseteq {PlayButton, RecButton}
  /\ HeldAtStart \subseteq SUBSET Buttons
  /\ Elapsed \subseteq Nat \ {0} /\ Elapsed # {} /\ IsFiniteSet(Elapsed)
  /\ {Bounce, PollInterval, ScanInterval, DirectDebounce, MatrixDebounce, ArmRelease,
      StartupIgnore, LongPressTime, IdleTime, MaxPushes} \subseteq Nat
  (* contacts settle before the debouncing believes them *)
  /\ Bounce < DirectDebounce /\ Bounce < MatrixDebounce

Pressable == MatrixKeys \cup Plain

Event(b, how) == [button |-> b, how |-> how]

VARIABLES
  finger,    (* buttons that are held down                                 *)
  bounce,    (* how long each contact may still bounce                     *)
  turned,    (* the encoder was turned                                     *)
  pushes,    (* pushes and turns so far, bounded by MaxPushes              *)
  in,        (* the static variables of ui_input.c and ui_screensaver.c    *)
  given,     (* events UI_Sequencer_Update took in the last pass           *)
  fresh,     (* keys, PLAY and REC pushed since the last press they gave   *)
  cleared,   (* buttons believed down since it began or ended              *)
  behind,    (* how long the keys have not been seen as they are           *)
  modified   (* an event was given with Shift since it was seen pushed     *)

inputVars == <<finger, bounce, pushes, in, given, fresh, cleared, behind, modified, turned>>

(* UI_Input_Init and UI_Screensaver_Init.  Buttons may be held down while the
   machine starts. *)
InputInit ==
  /\ finger \in HeldAtStart /\ bounce = [b \in Buttons |-> 0] /\ pushes = 0
  /\ in = [candidate  |-> finger \cap Direct,   (* s_direct_candidate      *)
           stable     |-> 0,                    (* s_direct_candidate_ms   *)
           debounced  |-> finger \cap Direct,   (* s_direct_debounced      *)
           shift      |-> FALSE,                (* s_shift_held            *)
           consumed   |-> FALSE,                (* s_shift_consumed        *)
           armed      |-> FALSE,                (* s_direct_armed          *)
           released   |-> 0,                    (* s_direct_all_released_ms *)
           ignore     |-> StartupIgnore,        (* s_mcp_ignore_events_until_ms *)
           polled     |-> 0,                    (* s_last_mcp_poll_ms      *)
           scanned    |-> 0,                    (* s_last_matrix_scan_ms   *)
           matrix     |-> {},                   (* s_matrix_candidate      *)
           settled    |-> 0,                    (* s_matrix_candidate_ms   *)
           keys       |-> {},                   (* s_matrix_debounced_pressed *)
           pin        |-> Encoder \in finger,   (* s_enc_btn_prev          *)
           down       |-> FALSE,                (* s_enc_btn_is_down       *)
           fired      |-> FALSE,                (* s_enc_btn_long_fired    *)
           since      |-> 0,                    (* s_enc_btn_down_ms       *)
           pending    |-> {},                   (* the events to be read   *)
           idle       |-> 0,                    (* s_last_activity_ms      *)
           saver      |-> FALSE,                (* s_active                *)
           idleBefore |-> 0]                    (* s_prev_idle_ms          *)
  /\ given = {} /\ fresh = finger \cap MatrixKeys
  /\ cleared = {} /\ behind = 0 /\ modified = FALSE /\ turned = FALSE

-----------------------------------------------------------------------------
(* UI_Input_Poll *)

Later(age, e, most) == IF age + e > most THEN most ELSE age + e
Passed(s, e) ==
  [s EXCEPT !.stable   = Later(@, e, DirectDebounce),
            !.released = IF s.armed THEN 0 ELSE Later(@, e, ArmRelease),
            !.ignore   = IF @ > e THEN @ - e ELSE 0,
            !.polled   = Later(@, e, PollInterval),
            !.scanned  = Later(@, e, ScanInterval),
            !.settled  = Later(@, e, MatrixDebounce),
            !.since    = IF s.down /\ ~s.fired THEN Later(@, e, LongPressTime) ELSE 0,
            !.idle     = Later(@, e, IdleTime)]

Given(s, events) == [s EXCEPT !.pending = @ \cup events]
Used(s) == [s EXCEPT !.idle = 0]

(* The encoder counts as used with Shift by what the last poll saw of Shift. *)
EncoderTurned(s, turn) ==
  IF ~turn THEN s
  ELSE Used(Given([s EXCEPT !.consumed = @ \/ s.shift], {Event(Encoder, "turn")}))

EncoderButton(s, level) ==
  LET now == Encoder \in level
      p == [s EXCEPT !.pin = now]
  IN CASE ~s.pin /\ now ->
            Used(Given([p EXCEPT !.down = TRUE, !.fired = FALSE, !.since = 0,
                                   !.consumed = @ \/ s.shift], {Event(Encoder, "press")}))
       [] s.pin /\ now /\ s.down /\ ~s.fired /\ s.since >= LongPressTime ->
            Given([p EXCEPT !.fired = TRUE], {Event(Encoder, "long")})
       [] s.pin /\ ~now ->
            Given([p EXCEPT !.down = FALSE, !.fired = FALSE],
                  {x \in {Event(Encoder, "short")} : s.down /\ ~s.fired})
       [] OTHER -> p

DirectCandidate(s, level) ==
  IF level \cap Direct # s.candidate
  THEN [s EXCEPT !.candidate = level \cap Direct, !.stable = 0]
  ELSE IF s.stable >= DirectDebounce THEN [s EXCEPT !.debounced = s.candidate] ELSE s

(* The buttons are armed when all of them were seen released for a while. *)
Armed(s) ==
  IF s.armed THEN s
  ELSE IF s.debounced # {} THEN [s EXCEPT !.released = 0]
  ELSE [s EXCEPT !.armed = s.released >= ArmRelease]

ConsumeWithoutKeys(s, modifiedEvents) == s   \* mutant
Consume(s, modifiedEvents) ==
  [s EXCEPT !.consumed = @ \/ modifiedEvents # {}]

(* An event of a button, with or without Shift, unless events are suppressed. *)
PressEvents(s, buttons) ==
  LET events == {Event(b, IF s.shift THEN "shifted" ELSE "plain") : b \in buttons}
  IN IF s.armed /\ s.ignore = 0
     THEN Consume(Given(s, events), {x \in events : x.how = "shifted"}) ELSE s

(* PLAY, REC and Shift; before is what was debounced in the poll before. *)
DirectEvents(s, before) ==
  LET falling == s.debounced \ before
      now == Shift \in s.debounced
      was == Shift \in before
      c == [s EXCEPT !.consumed = IF now /\ ~was THEN FALSE ELSE @]
      tap == {x \in {Event(Shift, "tap")} : was /\ ~now /\ ~c.consumed}
      a == IF falling # {} \/ now # was THEN Used(Given(c, tap)) ELSE c
  IN PressEvents([Armed(a) EXCEPT !.shift = now], falling \ {Shift})

(* One key of those that fall in the same scan, the highest. *)
Highest(keys) == IF keys = {} THEN {} ELSE {Max(keys)}

MatrixAtOnce(s, level) ==   \* mutant
  [s EXCEPT !.matrix = level \cap MatrixKeys, !.keys = level \cap MatrixKeys]
MatrixNeverSettled(s, level) ==   \* mutant
  [s EXCEPT !.matrix = level \cap MatrixKeys, !.settled = 0,
            !.keys = IF level \cap MatrixKeys = s.matrix /\ s.settled >= MatrixDebounce
                     THEN s.matrix ELSE @]
MatrixCandidate(s, level) ==
  IF level \cap MatrixKeys # s.matrix
  THEN [s EXCEPT !.matrix = level \cap MatrixKeys, !.settled = 0]
  ELSE IF s.settled >= MatrixDebounce THEN [s EXCEPT !.keys = s.matrix] ELSE s

ScanStepMatrix(s, level) ==
  LET m == MatrixCandidate([s EXCEPT !.scanned = 0], level)
      falling == m.keys \ s.keys
  IN PressEvents(IF falling = {} THEN m ELSE Used(m), Highest(falling))

(* The expander is polled every few passes, the matrix scanned less often still. *)
Poll(s, level, turn) ==
  LET e == EncoderButton(EncoderTurned(s, turn), level)
      d == DirectEvents(DirectCandidate([e EXCEPT !.polled = 0], level), e.debounced)
  IN IF e.polled < PollInterval THEN e
     ELSE IF d.scanned < ScanInterval THEN d ELSE ScanStepMatrix(d, level)

-----------------------------------------------------------------------------
(* UI_Screensaver_Tick and what UI_Sequencer_Update reads *)

(* UI_Input_ConsumeWakeEvent also forgets which keys are down. *)
ConsumeWakeEvent(s) ==
  [s EXCEPT !.pending = {}, !.consumed = FALSE, !.matrix = {}, !.keys = {}, !.idle = 0]

Falls(s)  == ~s.saver /\ s.idle >= IdleTime
Wakes(s)  == s.saver /\ s.idle < s.idleBefore
Sleeps(s) == s.saver /\ ~Wakes(s)

Tick(s) ==
  CASE Falls(s)  -> [ConsumeWakeEvent(s) EXCEPT !.saver = TRUE, !.idleBefore = 0]
    [] Wakes(s)  -> [ConsumeWakeEvent(s) EXCEPT !.saver = FALSE, !.idleBefore = 0]
    [] Sleeps(s) -> [s EXCEPT !.idleBefore = s.idle]
    [] OTHER     -> s

(* All events but the keys, of which one with and one without Shift is taken. *)
Lowest(events) ==
  {x \in events : \A y \in events : x.button <= y.button}
Taken(s) ==
  LET keys(how) == {x \in s.pending : x.button \in MatrixKeys /\ x.how = how} IN
  {x \in s.pending : x.button \notin MatrixKeys}
    \cup Lowest(keys("plain")) \cup Lowest(keys("shifted"))
Read(s) == IF Falls(s) \/ s.saver THEN {} ELSE Taken(s)

-----------------------------------------------------------------------------
(* Bouncing, a scan that sees the key, and a scan that finds it settled. *)
AnswerTime == Bounce + MatrixDebounce + 2 * (PollInterval + ScanInterval + Max(Elapsed))

Push(b) ==
  /\ b \notin finger /\ pushes < MaxPushes
  /\ finger' = finger \cup {b} /\ pushes' = pushes + 1
  /\ bounce' = [bounce EXCEPT ![b] = Bounce]
  /\ fresh' = fresh \cup ({b} \cap Pressable)
  /\ behind' = IF b \in MatrixKeys THEN 0 ELSE behind
  /\ given' = {}
  /\ UNCHANGED <<in, cleared, modified, turned>>

Release(b) ==
  /\ b \in finger
  /\ finger' = finger \ {b}
  /\ bounce' = [bounce EXCEPT ![b] = Bounce]
  /\ behind' = IF b \in MatrixKeys THEN 0 ELSE behind
  /\ given' = {}
  /\ UNCHANGED <<pushes, turned, in, fresh, cleared, modified>>

TurnEncoder ==
  /\ ~turned /\ pushes < MaxPushes
  /\ turned' = TRUE /\ pushes' = pushes + 1
  /\ given' = {}
  /\ UNCHANGED <<finger, bounce, in, fresh, cleared, behind, modified>>

(* What the contacts show: of those that bounce, any.  The encoder has a filter. *)
Levels ==
  LET bouncing == {b \in Buttons \ {Encoder} : bounce[b] > 0} IN
  {(finger \ bouncing) \cup B : B \in SUBSET bouncing}

Pass(level, e) ==
  LET s == Poll(in, level, turned)
      read == Read(s)
      how(b) == {x \in read : x.button = b}
  IN /\ in' = Passed([Tick(s) EXCEPT !.pending = @ \ read], e)
     /\ given' = read
     /\ bounce' = [b \in Buttons |-> IF bounce[b] > e THEN bounce[b] - e ELSE 0]
     /\ fresh' = {b \in fresh : how(b) = {}}
     /\ cleared' = LET believed == finger \cup s.debounced \cup s.matrix IN
                   IF Wakes(s) \/ Falls(s) THEN believed ELSE cleared \cap believed
     /\ behind' = IF s.keys = finger \cap MatrixKeys \/ Wakes(s) \/ Falls(s) THEN 0
                   ELSE Later(behind, e, AnswerTime)
     /\ modified' = ((modified /\ ~(s.shift /\ ~in.shift)) \/ \E x \in read :
                       x.how = "shifted" \/ (x.how \in {"turn", "press"} /\ in.shift))
     /\ turned' = FALSE
     /\ UNCHANGED <<finger, pushes>>

InputNext ==
  \/ \E b \in Buttons : Push(b) \/ Release(b)
  \/ TurnEncoder
  \/ \E level \in Levels, e \in Elapsed : Pass(level, e)

InputSpec == InputInit /\ [][InputNext]_inputVars

-----------------------------------------------------------------------------
(* A push of a key, PLAY or REC is one press for the interface, however the contact
   bounces and whatever else is pushed meanwhile, unless the screensaver began or
   ended during it. *)
OnePressPerPush ==
  [][\A x \in given' : x.how \in {"plain", "shifted"} => x.button \in fresh \cup cleared]_inputVars

(* A push of Shift is used with another button or is a tap, never both. *)
TapIsUnmodified ==
  [][Event(Shift, "tap") \in given' => ~modified \/ Shift \in cleared]_inputVars

(* What the interface is given is what was done on the panel: no press twice and no
   Shift both used and tapped, through bouncing, two intervals and the screensaver. *)
EventsArePushes == OnePressPerPush /\ TapIsUnmodified

(* The poll comes to see the keys as they are held, in bounded time: no bouncing of
   contacts and nothing done with the other buttons keeps it from that. *)
KeysAreSeen == behind < AnswerTime
=============================================================================
