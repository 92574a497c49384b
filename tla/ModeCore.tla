------------------------------- MODULE ModeCore -------------------------------
(***************************************************************************)
(* The Pi's control core: ModeController, SequenceEngine and AutoFollow    *)
(* (server/mode_controller.py, sequence_engine.py, auto_follow.py), the    *)
(* part of GPIODriver they call, and the firmware at the far end.          *)
(*                                                                         *)
(* The threads are those of the server: the clients (one thread per TCP    *)
(* connection, and the main thread that polls the rotary knob), the        *)
(* auto-follow loop, and the Timer objects of the debounced flush.  One    *)
(* action is one section under a lock or one serial command: those are the *)
(* points between which the threads of the server interleave.  The         *)
(* ModeController's lock is held over several actions, from Acquire to     *)
(* Commit, and is the variable modeLock.  A serial command has taken       *)
(* effect when its action is done: GPIODriver._send waits for the reply.   *)
(***************************************************************************)
EXTENDS BridgeConfig

CONSTANTS
  Clients,           \* client threads
  Timers,            \* Timer objects (a bound on how many exist at once)
  None,
  ModePicks,         \* the modes a client may pick with set_mode
  SequencePicks,     \* the indices a client may pick with set_sequence
  StepTimes,         \* the step times set_frequency may result in
  Calls,             \* which other calls the clients make
  DebugFets,         \* the FETs a client may toggle with set_fet
  Levels             \* the levels the cycler current may reach

AllCalls == {"tune", "fet", "debug_step", "auto_on", "auto_off", "target"}

ThreadsDiffer ==
  /\ Clients \cap Timers = {}
  /\ "auto" \notin Clients \cup Timers
  /\ None \notin Clients \cup Timers \cup {"auto"} \cup Modes

PicksAreLegal ==
  /\ ModePicks \subseteq Modes
  /\ SequencePicks \subseteq DOMAIN SEQUENCES
  /\ StepTimes # {} /\ StepTimes \subseteq Nat \ {0}
  /\ Calls \subseteq AllCalls /\ DebugFets \subseteq Fets
  /\ "low" \in Levels /\ Levels \subseteq {"low", "mid", "high"}

ASSUME ThreadsAssumption == ThreadsDiffer
ASSUME PicksAssumption == PicksAreLegal

VARIABLES
  fw,         \* the RP2040's switching core
  fets,       \* GPIODriver._fet_states, what the driver believes the pins are
  mode,       \* ModeController._mode
  modeLock,   \* the thread inside _set_mode_internal, or None
  debugStep,  \* ModeController._debug_step
  engine,     \* SequenceEngine: paused, pulse, sequence, step time, pending
  flushTimer, \* SequenceEngine._flush_timer
  af,         \* AutoFollow: enabled, active, target
  holdoff,    \* whether the hold-off after an engagement still runs
  current,    \* the cycler current against the thresholds: low, mid or high
  pc,         \* where each thread is
  goal,       \* the mode a thread is on its way to
  prog,       \* the cycle a thread read from the engine and is sending
  since,      \* firmware ticks since a thread's own G, up to its anchoring
  label,      \* the Pi's count of steps since the last anchor, modulo 4
  dark,       \* history: all pins were low during the current transition
  rewound,    \* history: the cycle now loaded was programmed by C, not by E
  raced       \* history: a flush was sending while another thread could send

modeVars == <<mode, modeLock, debugStep>>
afVars   == <<af, holdoff, current>>
threads  == <<pc, goal, prog>>
history  == <<dark, rewound>>
state    == <<fw, fets, modeVars, engine, flushTimer, afVars, threads, since, label, history>>
vars     == <<state, raced>>

AutoLoop == "auto"
Drivers == Clients \cup {AutoLoop}     \* the threads that call _set_mode_internal
Threads == Drivers \cup Timers

DriverLabels == {"ready", "manual", "target", "acquire", "allon_E", "allon_Y", "silent",
                 "pause", "halt", "alloff", "allon", "setpulse", "resume", "commit"}
SendLabels   == {"snap", "C", "E", "F", "G", "anchor"}
TimerLabels  == {"free", "waiting", "flush"}

(* The tick counts are compared modulo the length of the Pi's cycle, which *)
(* is 2 or 4.                                                              *)
TickModulus == 4

(* _current_packed_sequence_locked and _compute_period_us_locked *)
EngineCycle ==
  Packed(IF engine.pulse THEN PULSE_CHARGE_SEQUENCE ELSE SEQUENCES[engine.sequence])
EnginePeriod == IF engine.pulse THEN 2 * engine.stepTime ELSE engine.stepTime

Programs  == {Packed(SEQUENCES[i]) : i \in SequencePicks \cup {0}}
               \cup {Packed(PULSE_CHARGE_SEQUENCE)}
Snapshots == [cycle : Programs, us : StepTimes \cup {2 * us : us \in StepTimes}]

(* After ModeController.__init__: all_off sent, engine paused, mode IDLE.  *)
Init ==
  /\ fw = Booted /\ fets = AllOff
  /\ mode = "idle" /\ modeLock = None /\ debugStep = 0 - 1
  /\ \E us \in StepTimes :
       engine = [paused |-> TRUE, pulse |-> FALSE, sequence |-> 0,
                 stepTime |-> us, pending |-> FALSE]
  /\ flushTimer = None
  /\ af = [enabled |-> FALSE, active |-> FALSE, target |-> "charge"]
  /\ holdoff = FALSE /\ current = "low"
  /\ pc = [t \in Threads |-> IF t \in Timers THEN "free" ELSE "ready"]
  /\ goal = [t \in Threads |-> None]
  /\ prog = [t \in Threads |-> None]
  /\ since = [t \in Threads |-> 0]
  /\ label = 0
  /\ dark = TRUE /\ rewound = TRUE /\ raced = FALSE

-----------------------------------------------------------------------------
(* Helpers *)
Goto(t, l) == pc' = [pc EXCEPT ![t] = l]

(* One serial command: the firmware handles it, the caller goes on. *)
Send(t, c, next) ==
  /\ fw' = Handle(fw, c)
  /\ dark' = (dark \/ fw'.pins = AllOff)
  /\ rewound' = (c.verb = "C" \/ (rewound /\ c.verb # "E"))
  /\ Goto(t, next)

(* apply_state also records the pins it asked for. *)
Apply(t, verb, p, next) == Send(t, [verb |-> verb, pins |-> p], next) /\ fets' = p

(* mutant: every switch into a switching mode skips the dead time.          *)
SkipDead_Wide(prev, m) ==
  \/ prev \in SwitchingModes \cup {"discharge"} /\ m \in SwitchingModes
  \/ prev \in SwitchingModes /\ m = "discharge"

(* The transitions that skip the dead time. *)
SkipDead(prev, m) ==
  \/ prev = "discharge" /\ m \in SwitchingModes
  \/ prev \in SwitchingModes /\ m = "discharge"

(* _cancel_flush_locked: a Timer whose callback has begun is past cancel. *)
Cancelled ==
  IF flushTimer # None /\ pc[flushTimer] = "waiting"
    THEN [pc EXCEPT ![flushTimer] = "free"] ELSE pc

(* Every setter of the engine ends this way: a paused engine only remembers *)
(* the new value; a running one runs _schedule_flush_locked, which cancels  *)
(* the Timer there may be and starts a new one.                             *)
Retune(t, e, next) ==
  /\ engine' = [e EXCEPT !.pending = @ \/ ~engine.paused]
  /\ IF engine.paused
       THEN Goto(t, next) /\ UNCHANGED flushTimer
       ELSE \E f \in Timers :
              /\ Cancelled[f] = "free"
              /\ pc' = [Cancelled EXCEPT ![f] = "waiting", ![t] = next]
              /\ flushTimer' = f

-----------------------------------------------------------------------------
(* Calls of the clients. *)

(* set_mode, up to its first look at auto_follow.enabled. *)
SetMode(c, m) ==
  /\ pc[c] = "ready"
  /\ Goto(c, IF af.enabled /\ m \in SwitchingModes THEN "target" ELSE "manual")
  /\ goal' = [goal EXCEPT ![c] = m]
  /\ UNCHANGED <<fw, fets, modeVars, engine, flushTimer, afVars, prog, since, label, history>>

(* The rest of set_mode's routing: any other pick disables auto-follow. *)
Manual(c) ==
  /\ pc[c] = "manual"
  /\ af' = IF af.enabled THEN [af EXCEPT !.enabled = FALSE, !.active = FALSE] ELSE af
  /\ Goto(c, "acquire")
  /\ UNCHANGED <<fw, fets, modeVars, engine, flushTimer, holdoff, current, goal, prog, since, label, history>>

(* AutoFollow.set_target_mode: an engaged auto-follow has the new target    *)
(* applied by this thread, after the lock is released.                      *)
SetTarget(c) ==
  LET apply == af.target # goal[c] /\ af.enabled /\ af.active
  IN
  /\ pc[c] = "target"
  /\ af' = [af EXCEPT !.target = goal[c]]
  /\ Goto(c, IF apply THEN "acquire" ELSE "ready")
  /\ goal' = IF apply THEN goal ELSE [goal EXCEPT ![c] = None]
  /\ UNCHANGED <<fw, fets, modeVars, engine, flushTimer, holdoff, current, prog, since, label, history>>

SetAutoFollowTarget(c, m) ==
  /\ "target" \in Calls
  /\ pc[c] = "ready"
  /\ Goto(c, "target")
  /\ goal' = [goal EXCEPT ![c] = m]
  /\ UNCHANGED <<fw, fets, modeVars, engine, flushTimer, afVars, prog, since, label, history>>

(* AutoFollow.set_enabled(True): the reset to the transparent baseline is   *)
(* made by this thread after the lock is released.                          *)
EnableAuto(c) ==
  /\ "auto_on" \in Calls
  /\ pc[c] = "ready"
  /\ ~af.enabled
  /\ af' = [af EXCEPT !.enabled = TRUE, !.active = FALSE]
  /\ Goto(c, "acquire")
  /\ goal' = [goal EXCEPT ![c] = "discharge"]
  /\ UNCHANGED <<fw, fets, modeVars, engine, flushTimer, holdoff, current, prog, since, label, history>>

(* AutoFollow.set_enabled(False) leaves the mode alone. *)
DisableAuto(c) ==
  /\ "auto_off" \in Calls
  /\ pc[c] = "ready"
  /\ af.enabled
  /\ af' = [af EXCEPT !.enabled = FALSE, !.active = FALSE]
  /\ UNCHANGED <<fw, fets, modeVars, engine, flushTimer, holdoff, current, threads, since, label, history>>

(* SequenceEngine.set_frequency *)
SetFrequency(c, us) ==
  /\ pc[c] = "ready"
  /\ "tune" \in Calls
  /\ Retune(c, [engine EXCEPT !.stepTime = us], "ready")
  /\ UNCHANGED <<fw, fets, modeVars, afVars, goal, prog, since, label, history>>

(* SequenceEngine.set_sequence *)
SetSequence(c, i) ==
  /\ pc[c] = "ready"
  /\ "tune" \in Calls
  /\ Retune(c, [engine EXCEPT !.sequence = i], "ready")
  /\ label' = 0
  /\ UNCHANGED <<fw, fets, modeVars, afVars, goal, prog, since, history>>

(* set_fet: the mode lock is held over the check, the read of the cached    *)
(* states and the S command.                                                *)
SetFet(c, f) ==
  /\ "fet" \in Calls
  /\ pc[c] = "ready" /\ modeLock = None
  /\ mode = "debug"
  /\ \E on \in BOOLEAN :
       Apply(c, "S", IF on THEN fets \cup {f} ELSE fets \ {f}, "ready")
  /\ UNCHANGED <<modeVars, engine, flushTimer, afVars, goal, prog, since, label>>

(* mutant: the debug step is not reduced modulo 5.                          *)
DebugStep_NoWrap(c) ==
  LET step == debugStep + 1
  IN
  /\ "debug_step" \in Calls
  /\ pc[c] = "ready" /\ modeLock = None
  /\ mode = "debug"
  /\ debugStep' = step
  /\ Apply(c, "S", IF step < 4 THEN {<<"P1", "P2", "N1", "N2">>[step + 1]} ELSE AllOff, "ready")
  /\ UNCHANGED <<mode, modeLock, engine, flushTimer, afVars, goal, prog, since, label>>

(* debug_step: P1, P2, N1, N2, all off, again. *)
DebugStep(c) ==
  LET step == (debugStep + 1) % 5
  IN
  /\ "debug_step" \in Calls
  /\ pc[c] = "ready" /\ modeLock = None
  /\ mode = "debug"
  /\ debugStep' = step
  /\ Apply(c, "S", IF step < 4 THEN {<<"P1", "P2", "N1", "N2">>[step + 1]} ELSE AllOff, "ready")
  /\ UNCHANGED <<mode, modeLock, engine, flushTimer, afVars, goal, prog, since, label>>

-----------------------------------------------------------------------------
(* mutant: the hold-off condition of the exit is inverted.                  *)
AutoTick_Holdoff ==
  LET enter == ~af.active /\ current = "high"
      exit  == af.active /\ current = "low" /\ holdoff
  IN
  /\ pc[AutoLoop] = "ready"
  /\ af.enabled
  /\ enter \/ exit
  /\ af' = [af EXCEPT !.active = enter]
  /\ holdoff' = (holdoff \/ enter)
  /\ goal' = [goal EXCEPT ![AutoLoop] = IF enter THEN af.target ELSE "discharge"]
  /\ Goto(AutoLoop, "acquire")
  /\ UNCHANGED <<fw, fets, modeVars, engine, flushTimer, current, prog, since, label, history>>

(* AutoFollow._tick: decide under the lock, act on it after its release.    *)
AutoTick ==
  LET enter == ~af.active /\ current = "high"
      exit  == af.active /\ current = "low" /\ ~holdoff
  IN
  /\ pc[AutoLoop] = "ready"
  /\ af.enabled
  /\ enter \/ exit
  /\ af' = [af EXCEPT !.active = enter]
  /\ holdoff' = (holdoff \/ enter)
  /\ goal' = [goal EXCEPT ![AutoLoop] = IF enter THEN af.target ELSE "discharge"]
  /\ Goto(AutoLoop, "acquire")
  /\ UNCHANGED <<fw, fets, modeVars, engine, flushTimer, current, prog, since, label, history>>

HoldoffEnds ==
  /\ holdoff
  /\ holdoff' = FALSE
  /\ UNCHANGED <<fw, fets, modeVars, engine, flushTimer, af, current, threads, since, label, history>>

(* The cycler's current moves between the thresholds (external). *)
CurrentMoves(level) ==
  /\ level # current
  /\ current' = level
  /\ UNCHANGED <<fw, fets, modeVars, engine, flushTimer, af, holdoff, threads, since, label, history>>

-----------------------------------------------------------------------------
(* _set_mode_internal *)
Acquire(t) ==
  /\ pc[t] = "acquire"
  /\ modeLock = None
  /\ IF goal[t] = mode
       THEN /\ goal' = [goal EXCEPT ![t] = None]
            /\ Goto(t, "ready")
            /\ UNCHANGED <<modeLock, dark>>
       ELSE /\ modeLock' = t
            /\ dark' = (fw.pins = AllOff)
            /\ Goto(t, CASE ~SkipDead(mode, goal[t]) -> "pause"
                         [] SkipDead(mode, goal[t]) /\ goal[t] = "discharge" -> "allon_E"
                         [] OTHER -> "setpulse")
            /\ UNCHANGED goal
  /\ UNCHANGED <<fw, fets, mode, debugStep, engine, flushTimer, afVars, prog, since, label, rewound>>

(* Seamless switch to DISCHARGE: E with the all-on cycle, Y, pause_silent. *)
ProgramAllOn(t) ==
  /\ pc[t] = "allon_E"
  /\ Send(t, [verb |-> "E", prog |-> <<AllOn>>], "allon_Y")
  /\ UNCHANGED <<fets, modeVars, engine, flushTimer, afVars, goal, prog, since, label>>

(* mutant: Y does not update the cached FET states.                         *)
AllOnNoHalt_NoCache(t) ==
  /\ pc[t] = "allon_Y"
  /\ Send(t, [verb |-> "Y", pins |-> AllOn], "silent") /\ UNCHANGED fets
  /\ UNCHANGED <<modeVars, engine, flushTimer, afVars, goal, prog, since, label>>

AllOnNoHalt(t) ==
  /\ pc[t] = "allon_Y"
  /\ Apply(t, "Y", AllOn, "silent")
  /\ UNCHANGED <<modeVars, engine, flushTimer, afVars, goal, prog, since, label>>

(* pause_silent, and the section of pause: paused is set and the pending    *)
(* flush cancelled; pause sends H afterwards if the engine was running.     *)
PauseEngine(t, next) ==
  /\ engine' = [engine EXCEPT !.paused = TRUE, !.pending = FALSE]
  /\ pc' = [Cancelled EXCEPT ![t] = next]
  /\ flushTimer' = None
  /\ UNCHANGED <<fw, fets, modeVars, afVars, goal, prog, since, label, history>>

PauseSilent(t) == pc[t] = "silent" /\ PauseEngine(t, "commit")

Pause(t) == pc[t] = "pause" /\ PauseEngine(t, IF engine.paused THEN "alloff" ELSE "halt")

StopSwitching(t) ==
  /\ pc[t] = "halt"
  /\ Send(t, [verb |-> "H"], "alloff")
  /\ fets' = AllOff
  /\ UNCHANGED <<modeVars, engine, flushTimer, afVars, goal, prog, since, label>>

(* all_off and the dead time, then the branch on the new mode. *)
AllOffDeadTime(t) ==
  /\ pc[t] = "alloff"
  /\ Apply(t, "S", AllOff, CASE goal[t] \in SwitchingModes -> "setpulse"
                             [] goal[t] = "discharge" -> "allon"
                             [] OTHER -> "commit")
  /\ debugStep' = IF goal[t] = "debug" THEN 0 - 1 ELSE debugStep
  /\ UNCHANGED <<mode, modeLock, engine, flushTimer, afVars, goal, prog, since, label>>

AllOnDirect(t) ==
  /\ pc[t] = "allon"
  /\ Apply(t, "S", AllOn, "commit")
  /\ UNCHANGED <<modeVars, engine, flushTimer, afVars, goal, prog, since, label>>

(* SequenceEngine.set_pulse_mode *)
SetPulseMode(t) ==
  /\ pc[t] = "setpulse"
  /\ Retune(t, [engine EXCEPT !.pulse = (goal[t] = "pulse_charge")], "resume")
  /\ label' = 0
  /\ UNCHANGED <<fw, fets, modeVars, afVars, goal, prog, since, history>>

(* The locked section of resume and of resume_live. *)
Resume(t) ==
  /\ pc[t] = "resume"
  /\ engine' = [engine EXCEPT !.paused = FALSE, !.pending = FALSE]
  /\ pc' = [Cancelled EXCEPT ![t] = "snap"]
  /\ flushTimer' = None
  /\ UNCHANGED <<fw, fets, modeVars, afVars, goal, prog, since, label, history>>

Commit(t) ==
  /\ pc[t] = "commit"
  /\ mode' = goal[t]
  /\ modeLock' = None
  /\ dark' = TRUE
  /\ goal' = [goal EXCEPT ![t] = None]
  /\ Goto(t, "ready")
  /\ UNCHANGED <<fw, fets, debugStep, engine, flushTimer, afVars, prog, since, label, rewound>>

-----------------------------------------------------------------------------
(* mutant: the seamless switch back programs with C.                        *)
Live_Never(t) == FALSE

(* _program_and_go (C, F, P, G) and _program_and_go_live (E, F, G), by a    *)
(* mode change or by a flush: read the cycle under the engine's lock, then  *)
(* send it without the lock.  P only measures the clock offset.             *)
Live(t) == t \in Drivers /\ SkipDead(mode, goal[t])

ReadCycle(t) ==
  /\ pc[t] = "snap"
  /\ prog' = [prog EXCEPT ![t] = [cycle |-> EngineCycle, us |-> EnginePeriod]]
  /\ Goto(t, IF Live(t) THEN "E" ELSE "C")
  /\ UNCHANGED <<fw, fets, modeVars, engine, flushTimer, afVars, goal, since, label, history>>

ProgramSequence(t) ==
  /\ pc[t] = "C"
  /\ Send(t, [verb |-> "C", prog |-> prog[t].cycle], "F")
  /\ UNCHANGED <<fets, modeVars, engine, flushTimer, afVars, goal, prog, since, label>>

ProgramSequenceLive(t) ==
  /\ pc[t] = "E"
  /\ Send(t, [verb |-> "E", prog |-> prog[t].cycle], "F")
  /\ UNCHANGED <<fets, modeVars, engine, flushTimer, afVars, goal, prog, since, label>>

SetStepPeriod(t) ==
  /\ pc[t] = "F"
  /\ Send(t, [verb |-> "F", us |-> prog[t].us], "G")
  /\ UNCHANGED <<fets, modeVars, engine, flushTimer, afVars, goal, prog, since, label>>

StartSwitching(t) ==
  /\ pc[t] = "G"
  /\ Send(t, [verb |-> "G"], "anchor")
  /\ since' = [since EXCEPT ![t] = 0]
  /\ UNCHANGED <<fets, modeVars, engine, flushTimer, afVars, goal, prog, label>>

(* mutant: the step count is not re-anchored.                               *)
Anchor_Keeps(t) ==
  /\ pc[t] = "anchor"
  /\ UNCHANGED label
  /\ since' = [since EXCEPT ![t] = 0]
  /\ prog' = [prog EXCEPT ![t] = None]
  /\ Goto(t, IF t \in Timers THEN "free" ELSE "commit")
  /\ UNCHANGED <<fw, fets, modeVars, engine, flushTimer, afVars, goal, history>>

(* The caller notes that step 0 was on the pins at the time of its G. *)
Anchor(t) ==
  /\ pc[t] = "anchor"
  /\ label' = since[t]
  /\ since' = [since EXCEPT ![t] = 0]
  /\ prog' = [prog EXCEPT ![t] = None]
  /\ Goto(t, IF t \in Timers THEN "free" ELSE "commit")
  /\ UNCHANGED <<fw, fets, modeVars, engine, flushTimer, afVars, goal, history>>

(* The debounce window of a Timer is over and its callback begins. *)
TimerFires(f) ==
  /\ pc[f] = "waiting"
  /\ Goto(f, "flush")
  /\ UNCHANGED <<fw, fets, modeVars, engine, flushTimer, afVars, goal, prog, since, label, history>>

(* mutant: a flush takes the pending change without sending it.             *)
Flush_Drops(f) ==
  /\ pc[f] = "flush"
  /\ Goto(f, "free")
  /\ engine' = [engine EXCEPT !.pending = FALSE]
  /\ flushTimer' = None
  /\ UNCHANGED <<fw, fets, modeVars, afVars, goal, prog, since, label, history>>

(* _flush, its section under the lock: nothing to do for a paused engine.   *)
Flush(f) ==
  /\ pc[f] = "flush"
  /\ Goto(f, IF ~engine.paused /\ engine.pending THEN "snap" ELSE "free")
  /\ engine' = [engine EXCEPT !.pending = FALSE]
  /\ flushTimer' = None
  /\ UNCHANGED <<fw, fets, modeVars, afVars, goal, prog, since, label, history>>

(* The firmware's timer interrupt; the Pi's count of steps is its elapsed   *)
(* time, which a running engine divides by the period.                      *)
FirmwareTick ==
  /\ fw.running
  /\ fw' = Tick(fw)
  /\ dark' = (dark \/ fw'.pins = AllOff)
  /\ label' = IF engine.paused THEN label ELSE (label + 1) % TickModulus
  /\ since' = [t \in Threads |->
                 IF pc[t] = "anchor" THEN (since[t] + 1) % TickModulus ELSE 0]
  /\ UNCHANGED <<fets, modeVars, engine, flushTimer, afVars, threads, rewound>>

-----------------------------------------------------------------------------
ClientCall(c) ==
  \/ \E m \in ModePicks : SetMode(c, m)
  \/ \E m \in SwitchingModes : SetAutoFollowTarget(c, m)
  \/ EnableAuto(c)
  \/ DisableAuto(c)
  \/ \E us \in StepTimes : SetFrequency(c, us)
  \/ \E i \in SequencePicks : SetSequence(c, i)
  \/ \E f \in DebugFets : SetFet(c, f)
  \/ DebugStep(c)

ClientStep(c) == Manual(c) \/ SetTarget(c)

ChangeMode(t) ==
  \/ ProgramAllOn(t)
  \/ AllOnNoHalt(t)
  \/ PauseSilent(t)
  \/ Pause(t)
  \/ StopSwitching(t)
  \/ AllOffDeadTime(t)
  \/ AllOnDirect(t)
  \/ SetPulseMode(t)
  \/ Resume(t)
  \/ Commit(t)

Program(t) ==
  \/ ReadCycle(t)
  \/ ProgramSequence(t)
  \/ ProgramSequenceLive(t)
  \/ SetStepPeriod(t)
  \/ StartSwitching(t)
  \/ Anchor(t)

Environment == HoldoffEnds \/ (\E level \in Levels : CurrentMoves(level)) \/ FirmwareTick

Step ==
  \/ \E c \in Clients : ClientCall(c) \/ ClientStep(c)
  \/ AutoTick
  \/ \E t \in Drivers : Acquire(t) \/ ChangeMode(t)
  \/ \E t \in Threads : Program(t)
  \/ \E f \in Timers : TimerFires(f) \/ Flush(f)
  \/ Environment

(* A flush is past the section under the lock and sends, while a mode       *)
(* change or another flush may be sending as well.                          *)
Flushing == {f \in Timers : pc[f] \in SendLabels}

Racing ==
  \/ Flushing # {} /\ modeLock # None
  \/ \E f, g \in Flushing : f # g

Next == Step /\ raced' = (raced \/ Racing')

Spec == Init /\ [][Next]_vars

(* Every thread that is inside a call gets on with it, the auto-follow loop *)
(* keeps polling, Timers fire and the hold-off is a matter of 2 seconds.    *)
(* Nothing makes a client call, the current move or a lock hand-over fair.  *)
Fairness ==
  /\ \A c \in Clients : WF_state(ClientStep(c))
  /\ WF_state(AutoTick)
  /\ \A t \in Drivers : WF_state(Acquire(t)) /\ WF_state(ChangeMode(t))
  /\ \A t \in Threads : WF_state(Program(t))
  /\ \A f \in Timers : WF_state(TimerFires(f)) /\ WF_state(Flush(f))
  /\ WF_state(HoldoffEnds)

FairSpec == Spec /\ Fairness

-----------------------------------------------------------------------------
TypeOK ==
  /\ fw \in [pins : States, seq : Programs \cup {<<>>, <<AllOn>>}, idx : 0..3,
             period : {0} \cup {s.us : s \in Snapshots}, running : BOOLEAN]
  /\ fets \in States
  /\ mode \in Modes /\ modeLock \in Drivers \cup {None} /\ debugStep \in {0 - 1} \cup 0..4
  /\ engine \in [paused : BOOLEAN, pulse : BOOLEAN, sequence : SequencePicks \cup {0},
                 stepTime : StepTimes, pending : BOOLEAN]
  /\ flushTimer \in Timers \cup {None}
  /\ af \in [enabled : BOOLEAN, active : BOOLEAN, target : SwitchingModes]
  /\ holdoff \in BOOLEAN /\ current \in Levels
  /\ \A t \in Drivers : pc[t] \in DriverLabels \cup SendLabels
  /\ \A t \in Timers : pc[t] \in TimerLabels \cup SendLabels
  /\ goal \in [Threads -> Modes \cup {None}]
  /\ prog \in [Threads -> Snapshots \cup {None}]
  /\ since \in [Threads -> 0..3] /\ label \in 0..3
  /\ {dark, rewound, raced} \subseteq BOOLEAN

(* Nobody is between two serial commands that belong together. *)
Settled == modeLock = None /\ Flushing = {}

Retuning == engine.pending \/ \E f \in Timers : pc[f] # "free"

(* pause "halt[s] switching on the RP2040 and leave[s] all FETs off": in    *)
(* IDLE nothing conducts and no cycle runs that could make it.              *)
IdleIsDark == Settled /\ mode = "idle" => fw.pins = AllOff /\ ~fw.running

(* What the server reports as the mode is what the bridge does, unless a    *)
(* flush raced.  DISCHARGE is transparent even when the firmware's timer    *)
(* was left running; the switching modes run the engine's own cycle at its  *)
(* own period; in IDLE and DEBUG no cycle runs underneath.                  *)
ModeMatchesBridge ==
  Settled /\ ~raced =>
    /\ mode = "idle" => fw.pins = AllOff
    /\ mode = "discharge" => fw.pins = AllOn /\ (fw.running => fw.seq = <<AllOn>>)
    /\ mode \in {"idle", "debug"} => ~fw.running
    /\ mode \in SwitchingModes /\ ~Retuning =>
         /\ fw.running /\ ~engine.paused
         /\ fw.seq = EngineCycle /\ fw.period = EnginePeriod
         /\ engine.pulse <=> mode = "pulse_charge"

(* While the engine is paused a status reports the driver's cached states:  *)
(* they are the states of the pins, across H, S, Y and the seamless path,   *)
(* unless a flush raced.                                                    *)
CacheIsTruth == Settled /\ ~raced /\ engine.paused => fets = fw.pins

(* Between any two modes but DISCHARGE and a switching mode all FETs were   *)
(* off at some point of the transition, before the new mode is announced.   *)
TransparentPair(a, b) ==
  \/ a = "discharge" /\ b \in SwitchingModes
  \/ b = "discharge" /\ a \in SwitchingModes

InterlockUnlessSeamless ==
  modeLock # None /\ pc[modeLock] = "commit" =>
    TransparentPair(mode, goal[modeLock]) \/ dark

(* The seamless transitions never open the circuit, if neither cycle that   *)
(* is involved has an all-off state and no flush raced.                     *)
Opens(cycle) == \E i \in DOMAIN cycle : cycle[i] = AllOff

NeverOpensCircuit ==
  [][ (/\ modeLock # None /\ modeLock' = modeLock /\ ~raced
       /\ TransparentPair(mode, goal[modeLock])
       /\ fw.pins # AllOff /\ ~Opens(fw.seq) /\ ~Opens(fw'.seq))
      => fw'.pins # AllOff ]_vars

(* The step the Pi attributes to a sample is the step the firmware is at,   *)
(* whenever the cycle was programmed with C and no flush raced.  E leaves   *)
(* s_seq_idx alone, so after a seamless start the labels may be off for as  *)
(* long as the mode lasts, and the next retuning puts them right again.     *)
LabelIsStep ==
  Settled /\ ~raced /\ rewound /\ mode \in SwitchingModes /\ ~Retuning =>
    label % Len(fw.seq) = fw.idx

(* Low or negative current leaves the FETs in pass-through: if it stays so  *)
(* under an enabled auto-follow, the mode ends in DISCHARGE.                *)
LowCurrentIsTransparent ==
  <>[](af.enabled /\ current = "low") => <>[](mode = "discharge")
=============================================================================
