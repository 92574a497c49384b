--------------------------------- MODULE Knob ---------------------------------
(***************************************************************************)
(* The rotary knob with its button: RotaryController and the main loop     *)
(* that polls it (server/__main__.py), a port of the single-process        *)
(* predecessor of the server (switching_circuit_v2.py).  The dial tunes    *)
(* the frequency or, after a long press, selects a sequence.  Presses,     *)
(* releases and the long press are callbacks on threads of gpiozero; the   *)
(* long press waits for the mode lock halfway through.  A step runs from   *)
(* one point where a thread may wait to the next.                          *)
(*                                                                         *)
(* Frequencies are counted in tenths of a hertz; the engine may also be    *)
(* retuned by the clients of the command server.                           *)
(***************************************************************************)
EXTENDS Integers

CONSTANTS
  MinFreq, MaxFreq,
  NumSequences,
  MaxTurns,    \* bound on how far the dial is turned from where it was at the start
  MaxPresses   \* bound on presses of the button

KnobAssumption ==
  /\ MinFreq \in Nat \ {0} /\ MaxFreq \in Nat /\ MinFreq <= MaxFreq
  /\ NumSequences \in Nat \ {0} /\ MaxTurns \in Nat /\ MaxPresses \in Nat

VARIABLES
  steps,      \* rotary.steps
  polled,     \* _last_rotary_steps
  offset,     \* _dial_offset
  freqBase,   \* _freq_base
  freq,       \* the frequency of the engine
  sequence,   \* the sequence of the engine, from 0
  selecting,  \* switch_sequence_mode
  modeBase,   \* _sequence_mode_base
  sel,        \* sequence_sel, from 1
  coarse,     \* step_rate = 10
  detailed,   \* sequence_display_detailed
  down,       \* the button: "up", "short" or "long" (past hold_time)
  held,       \* the long-press callback: "no", or what it does next
  calm,       \* 1.5 s have passed since the last short press that counted
  presses,
  turned,     \* history: how often the dial has moved since the last poll
  retuned     \* history: a client has set the frequency since the knob was rebased

dial   == <<steps, polled, turned>>
bases  == <<offset, freqBase, modeBase>>
engine == <<freq, sequence>>
shown  == <<selecting, sel, coarse, detailed>>
button == <<down, held, calm, presses>>
vars   == <<dial, bases, engine, shown, button, retuned>>

Init ==
  /\ steps = 0 /\ polled = 0 /\ offset = 0 /\ modeBase = 0
  /\ freq \in {MinFreq, MaxFreq} /\ freqBase = freq /\ sequence = 0
  /\ selecting = FALSE /\ sel = 1 /\ coarse = FALSE /\ detailed = FALSE
  /\ down = "up" /\ held = "no" /\ calm = TRUE /\ presses = 0
  /\ turned = 0 /\ retuned = FALSE

-----------------------------------------------------------------------------
Turn ==
  /\ steps' \in {steps - 1, steps + 1} /\ steps' \in -MaxTurns..MaxTurns
  /\ turned < 2 * MaxTurns /\ turned' = turned + 1
  /\ UNCHANGED <<polled, bases, engine, shown, button, retuned>>

Detent == IF coarse THEN 10 ELSE 1

(* mutant: only the lower limit is kept. *)
Clamp_NoMax(f) == IF f < MinFreq THEN MinFreq ELSE f

Clamp(f) == IF f > MaxFreq THEN MaxFreq ELSE IF f < MinFreq THEN MinFreq ELSE f

(* poll: nothing unless the dial has moved since the last time. *)
Poll ==
  /\ steps # polled
  /\ polled' = steps /\ turned' = 0
  /\ IF selecting
       THEN /\ sel' = 1 + ((steps - offset - modeBase) % NumSequences)
            /\ sequence' = sel' - 1
            /\ UNCHANGED freq
       ELSE /\ freq' = Clamp(freqBase + (steps - offset) * Detent)
            /\ UNCHANGED <<sel, sequence>>
  /\ UNCHANGED <<steps, bases, selecting, coarse, detailed, button, retuned>>

Rebase == freqBase' = freq /\ offset' = steps /\ retuned' = FALSE

Press ==
  /\ down = "up" /\ presses < MaxPresses
  /\ down' = "short" /\ presses' = presses + 1
  /\ UNCHANGED <<dial, bases, engine, shown, held, calm, retuned>>

(* As below, with the dial offset left where it was. *)
Release_KeepsOffset ==
  /\ down # "up"
  /\ down' = "up"
  /\ freqBase' = freq /\ offset' = offset /\ retuned' = FALSE
  /\ IF down = "short" /\ calm
       THEN /\ detailed' = IF selecting THEN ~detailed ELSE detailed
            /\ coarse' = IF selecting THEN coarse ELSE ~coarse
            /\ calm' = FALSE
       ELSE UNCHANGED <<detailed, coarse, calm>>
  /\ UNCHANGED <<dial, modeBase, engine, selecting, sel, held, presses>>

(* _button_released: a short press toggles the detailed display or the step *)
(* of the dial; every release rebases.                                      *)
Release ==
  /\ down # "up"
  /\ down' = "up"
  /\ Rebase
  /\ IF down = "short" /\ calm
       THEN /\ detailed' = IF selecting THEN ~detailed ELSE detailed
            /\ coarse' = IF selecting THEN coarse ELSE ~coarse
            /\ calm' = FALSE
       ELSE UNCHANGED <<detailed, coarse, calm>>
  /\ UNCHANGED <<dial, modeBase, engine, selecting, sel, held, presses>>

CalmAgain ==
  /\ ~calm /\ calm' = TRUE
  /\ UNCHANGED <<dial, bases, engine, shown, down, held, presses, retuned>>

(* _toggle_mode, on the thread that holds the button: entering the          *)
(* selection it computes its base and waits for the mode change.            *)
HoldBegins ==
  /\ down = "short" /\ held = "no"
  /\ down' = "long" /\ selecting' = ~selecting
  /\ IF selecting
       THEN /\ Rebase
            /\ UNCHANGED <<modeBase, held>>
       ELSE /\ modeBase' = (steps - offset) - (sel - 1) /\ held' = "rebase"
            /\ UNCHANGED <<freqBase, offset, retuned>>
  /\ UNCHANGED <<dial, engine, sel, coarse, detailed, calm, presses>>

HoldEnds ==
  /\ held = "rebase"
  /\ Rebase
  /\ held' = "no"
  /\ UNCHANGED <<dial, modeBase, engine, shown, down, calm, presses>>

(* A client of the command server. *)
ClientRetunes ==
  /\ freq' \in {MinFreq, MaxFreq} /\ freq' # freq
  /\ retuned' = TRUE
  /\ UNCHANGED <<dial, bases, sequence, shown, button>>

Next ==
  \/ Turn \/ Poll \/ Press \/ Release \/ CalmAgain
  \/ HoldBegins \/ HoldEnds \/ ClientRetunes

Spec == Init /\ [][Next]_vars

-----------------------------------------------------------------------------
TypeOK ==
  /\ {steps, polled, offset} \subseteq -MaxTurns..MaxTurns /\ modeBase \in Int
  /\ {freq, freqBase} \subseteq MinFreq..MaxFreq
  /\ sequence \in 0..NumSequences - 1 /\ sel \in 1..NumSequences
  /\ {selecting, coarse, detailed, calm, retuned} \subseteq BOOLEAN
  /\ down \in {"up", "short", "long"} /\ held \in {"no", "rebase"} /\ presses \in 0..MaxPresses

Abs(x) == IF x < 0 THEN -x ELSE x

(* The frequency moves with the dial: whatever is pressed between two polls *)
(* and however the long press is held up, a poll changes it by no more than *)
(* the detents turned since the last one.  Only a client may make it jump:  *)
(* the knob takes notice of a frequency set elsewhere when its button is    *)
(* released, and until then goes back to its own (__main__.py 142-213).     *)
FrequencyFollowsDial ==
  [][freq' # freq /\ polled' # polled /\ ~retuned =>
       Abs(freq' - freq) <= turned * Detent]_vars

(* The selection moves with the dial: "select sequence (sequence mode)"     *)
(* (switching_circuit_v2.py 16).  Fails: a release rebases the dial and not *)
(* the selection, which starts again from where it was when it was entered. *)
SelectionFollowsDial ==
  [][polled' # polled /\ selecting => sel' = 1 + ((sel - 1 + steps - polled) % NumSequences)]_vars
=============================================================================
