--------------------------- MODULE ModeBridgeProofs ---------------------------
(***************************************************************************)
(* Proofs about ModeCore: the mode, the engine, the driver's cache and the *)
(* Pi's step labels agree with the H-bridge, until a flush races with      *)
(* another sender; and a seamless change never opens the circuit.          *)
(*                                                                         *)
(* The properties look at the moments when nobody holds the mode lock and no *)
(* flush sends.  The invariant adds what is true in between: what the holder *)
(* of the lock has achieved at each label of its change, and what a flush  *)
(* has sent so far.  It is lost in the step in which two senders overlap,  *)
(* which is the step that sets raced.                                      *)
(***************************************************************************)
EXTENDS ModeProofs

(* A paused engine has no pending change; only a mode change sends E. *)
PausedIsDone == engine.paused => ~engine.pending
TimersSendC  == \A f \in Timers : pc[f] # "E"

(* What a sender that reads the engine now would send. *)
Snap == [cycle |-> EngineCycle, us |-> EnginePeriod]

(* What a thread that sends a cycle has achieved: it sends what the engine *)
(* says, or another flush is due that will; after C the timer is stopped   *)
(* and the index 0; after G its own count of ticks is the index.           *)
Sending(t) ==
  /\ ~engine.paused
  /\ pc[t] # "snap" => prog[t] = Snap \/ engine.pending
  /\ pc[t] \in {"F", "G", "anchor"} => fw.seq = prog[t].cycle
  /\ pc[t] \in {"G", "anchor"} => fw.period = prog[t].us
  /\ pc[t] = "anchor" => fw.running
  /\ pc[t] \in {"F", "G"} /\ rewound => ~fw.running /\ fw.idx = 0
  /\ pc[t] = "anchor" /\ rewound => since[t] % Len(fw.seq) = fw.idx

(* The bridge of a switching mode. *)
Runs ==
  /\ fw.running
  /\ ~engine.pending => /\ fw.seq = EngineCycle /\ fw.period = EnginePeriod
                        /\ rewound => label % Len(fw.seq) = fw.idx

(* The bridge and the cached states of the other modes. *)
Quiet(m) ==
  /\ engine.paused
  /\ m = "idle" => fw.pins = AllOff /\ ~fw.running /\ fets = AllOff
  /\ m = "debug" => ~fw.running /\ fets = fw.pins
  /\ m = "discharge" => fw.pins = AllOn /\ fets = AllOn /\ (fw.running => fw.seq = <<AllOn>>)

(* The engine of a switching mode. *)
Busy(m) == ~engine.paused /\ (engine.pulse <=> m = "pulse_charge")

(* While the mode lock is free the bridge is what the mode says. *)
Rests ==
  modeLock = None =>
    IF mode \in SwitchingModes
      THEN Busy(mode) /\ (Flushing = {} => Runs)
      ELSE Quiet(mode)

(* At most one flush sends, and only while the mode lock is free. *)
Flushes ==
  \A f \in Flushing : modeLock = None /\ (\A g \in Flushing : g = f) /\ Sending(f)

(* What a mode change has achieved at each of its labels. *)
Changing(t) ==
  /\ pc[t] \in {"halt", "alloff", "allon", "setpulse", "resume"} => engine.paused
  /\ pc[t] = "resume" => (engine.pulse <=> goal[t] = "pulse_charge")
  /\ pc[t] \in SendLabels => Busy(goal[t]) /\ Sending(t)
  /\ pc[t] \in {"allon_Y", "silent"} => fw.seq = <<AllOn>>
  /\ pc[t] = "silent" => fw.pins = AllOn /\ fets = AllOn
  /\ pc[t] = "commit" => IF goal[t] \in SwitchingModes THEN Busy(goal[t]) /\ Runs ELSE Quiet(goal[t])

(* The inductive invariant. *)
Calm == Rests /\ Flushes /\ \A t \in Drivers : Changing(t)

CalmInv == ModeInv /\ PausedIsDone /\ TimersSendC /\ (~raced => Calm)

-----------------------------------------------------------------------------
(* Every step keeps a paused engine without a pending change. *)
LEMMA PausedKeeps ==
  ASSUME ModeInv, PausedIsDone, Step
  PROVE  PausedIsDone'
<1>1. CASE engine' = engine
  BY <1>1, Zenon DEF PausedIsDone
<1>2. ASSUME NEW t, NEW e \in EngineType, NEW l, Retune(t, e, l), e.paused = engine.paused,
             e.pending = engine.pending
      PROVE  PausedIsDone'
  <2>1. engine' = [e EXCEPT !.pending = e.pending \/ ~engine.paused]
    BY <1>2, Zenon DEF Retune
  <2>2. engine'.paused = engine.paused /\ engine'.pending = (engine.pending \/ ~engine.paused)
    BY <1>2, <2>1, SMT DEF EngineType
  <2> QED
    BY <2>2, Zenon DEF PausedIsDone
<1>3. CASE \E c \in Clients : \/ \E us \in StepTimes : SetFrequency(c, us)
                              \/ \E i \in SequencePicks : SetSequence(c, i)
  <2>1. \A us \in StepTimes : LET e == [engine EXCEPT !.stepTime = us]
                              IN  e \in EngineType /\ e.paused = engine.paused /\ e.pending = engine.pending
    BY EngineIs, Zenon DEF EngineType
  <2>2. \A i \in SequencePicks : LET e == [engine EXCEPT !.sequence = i]
                              IN  e \in EngineType /\ e.paused = engine.paused /\ e.pending = engine.pending
    BY EngineIs, Zenon DEF EngineType
  <2> QED
    BY <1>2, <1>3, <2>1, <2>2, Zenon DEF SetFrequency, SetSequence
<1>4. CASE \E t \in Drivers : SetPulseMode(t)
  <2>1. PICK t \in Drivers : SetPulseMode(t)
    BY <1>4
  <2>2. (goal[t] = "pulse_charge") \in BOOLEAN
    OBVIOUS
  <2>3. PICK e : e = [engine EXCEPT !.pulse = (goal[t] = "pulse_charge")]
    OBVIOUS
  <2>4. e \in EngineType /\ e.paused = engine.paused /\ e.pending = engine.pending
    BY <2>2, <2>3, EngineIs, Zenon DEF EngineType
  <2> QED
    BY <1>2, <2>1, <2>3, <2>4, Zenon DEF SetPulseMode
<1>5. CASE \/ \E t \in Drivers : PauseSilent(t) \/ Pause(t) \/ Resume(t)
           \/ \E f \in Timers : Flush(f)
  <2>1. engine'.pending = FALSE
    BY <1>5, EngineIs, Zenon DEF PauseSilent, Pause, Resume, PauseEngine, Flush, EngineType
  <2> QED
    BY <2>1, Zenon DEF PausedIsDone
<1> QED
  <2> USE DEF ClientCall, ClientStep, ChangeMode, Program, Environment
  <2>1. \/ engine' = engine
        \/ \E c \in Clients : \/ \E us \in StepTimes : SetFrequency(c, us)
                              \/ \E i \in SequencePicks : SetSequence(c, i)
        \/ \E t \in Drivers : SetPulseMode(t) \/ PauseSilent(t) \/ Pause(t) \/ Resume(t)
        \/ \E f \in Timers : Flush(f)
    BY Zenon DEF Step, SetMode, SetAutoFollowTarget, EnableAuto, DisableAuto, SetFet, DebugStep, Manual,
       SetTarget, AutoTick, Acquire, ProgramAllOn, AllOnNoHalt, StopSwitching, AllOffDeadTime,
       AllOnDirect, Commit, ReadCycle, ProgramSequence, ProgramSequenceLive, SetStepPeriod,
       StartSwitching, Anchor, TimerFires, HoldoffEnds, CurrentMoves, FirmwareTick
  <2> QED
    BY <1>1, <1>3, <1>4, <1>5, <2>1, Zenon

(* A Timer never gets to send E: that is a mode change's way. *)
LEMMA TimersKeep ==
  ASSUME ModeInv, TimersSendC, Step
  PROVE  TimersSendC'
<1>0. pc \in [Threads -> Labels \cup TimerLabels]
  BY Zenon DEF ModeInv, ThreadsOK, Labels
<1>1. CASE pc' = pc
  BY <1>1, Zenon DEF TimersSendC
<1>2. ASSUME NEW t \in Drivers, NEW l, Goto(t, l) PROVE TimersSendC'
  <2>1. \A f \in Timers : pc'[f] = pc[f]
    BY <1>0, <1>2, ThreadsAre, SMT DEF Goto
  <2> QED
    BY <2>1, Zenon DEF TimersSendC
<1>3. ASSUME NEW t \in Threads, NEW l \in {"C", "F", "G", "anchor", "free", "flush", "snap"},
             Goto(t, l)
      PROVE  TimersSendC'
  BY <1>0, <1>3, ThreadsAre, SMT DEF Goto, TimersSendC
<1>4. ASSUME NEW t \in Drivers, NEW l,
             \/ pc' = [Cancelled EXCEPT ![t] = l]
             \/ \E f \in Timers : pc' = [Cancelled EXCEPT ![f] = "waiting", ![t] = l]
      PROVE  TimersSendC'
  <2>1. \A f \in Timers : Cancelled[f] # "E"
    BY CancelledIs, SMT DEF ModeInv, TimersSendC
  <2>2. Cancelled \in [Threads -> Labels \cup TimerLabels]
    BY CancelledIs, Zenon DEF ModeInv, Labels
  <2>3. CASE pc' = [Cancelled EXCEPT ![t] = l]
    BY <2>1, <2>2, <2>3, ThreadsAre, SMT DEF TimersSendC
  <2>4. ASSUME NEW f \in Timers, pc' = [Cancelled EXCEPT ![f] = "waiting", ![t] = l]
        PROVE  TimersSendC'
    BY <2>1, <2>2, <2>4, ThreadsAre, SMT DEF TimersSendC
  <2> QED
    BY <1>4, <2>3, <2>4
<1>5. ASSUME NEW t \in Threads, Program(t) PROVE TimersSendC'
  <2>1. CASE t \in Drivers
    BY <1>2, <1>5, <2>1, Zenon DEF Program, ReadCycle, ProgramSequence, ProgramSequenceLive,
       SetStepPeriod, StartSwitching, Anchor, Send
  <2>2. CASE t \in Timers
    <3>1. ReadCycle(t) => Goto(t, "C")
      BY <2>2, ThreadsAre, Zenon DEF ReadCycle, Live
    <3>2. Anchor(t) => Goto(t, "free")
      BY <2>2, Zenon DEF Anchor
    <3>3. \E l \in {"C", "F", "G", "anchor", "free", "flush", "snap"} : Goto(t, l)
      BY <1>5, <3>1, <3>2, Zenon DEF Program, ProgramSequence, ProgramSequenceLive, SetStepPeriod,
         StartSwitching, Send
    <3> QED
      BY <1>3, <3>3
  <2> QED
    BY <2>1, <2>2, ThreadsAre DEF Threads
<1>6. ASSUME NEW t \in Drivers, NEW e, NEW l, Retune(t, e, l) PROVE TimersSendC'
  BY <1>2, <1>4, <1>6, Zenon DEF Retune
<1>7. ASSUME NEW c \in Clients, ClientCall(c) \/ ClientStep(c) PROVE TimersSendC'
  <2>1. c \in Drivers
    BY ThreadsAre
  <2>2. \/ pc' = pc \/ \E l : Goto(c, l)
        \/ \E e, l : Retune(c, e, l)
    BY <1>7, Zenon DEF ClientCall, ClientStep, SetMode, SetAutoFollowTarget, EnableAuto, DisableAuto,
       SetFrequency, SetSequence, SetFet, DebugStep, Manual, SetTarget, Apply, Send, threads
  <2> QED
    BY <1>1, <1>2, <1>6, <2>1, <2>2
<1>8. ASSUME NEW t \in Drivers, Acquire(t) \/ ChangeMode(t) PROVE TimersSendC'
  <2>1. \/ \E l : Goto(t, l)
        \/ \E l : pc' = [Cancelled EXCEPT ![t] = l]
        \/ \E e, l : Retune(t, e, l)
    BY <1>8, Zenon DEF Acquire, ChangeMode, ProgramAllOn, AllOnNoHalt, StopSwitching, AllOffDeadTime,
       AllOnDirect, Commit, PauseSilent, Pause, PauseEngine, Resume, SetPulseMode, Apply, Send
  <2> QED
    BY <1>2, <1>4, <1>6, <2>1
<1>9. ASSUME NEW f \in Timers, TimerFires(f) \/ Flush(f) PROVE TimersSendC'
  <2>1. \E l \in {"C", "F", "G", "anchor", "free", "flush", "snap"} : Goto(f, l)
    BY <1>9, Zenon DEF TimerFires, Flush
  <2> QED
    BY <1>3, <2>1, ThreadsAre
<1>10. CASE AutoTick
  BY <1>2, <1>10, ThreadsAre, Zenon DEF AutoTick
<1>11. CASE Environment
  BY <1>1, <1>11, Zenon DEF Environment, HoldoffEnds, CurrentMoves, FirmwareTick, threads
<1> QED
  BY <1>5, <1>7, <1>8, <1>9, <1>10, <1>11, Zenon DEF Step

-----------------------------------------------------------------------------
(* The Pi's count, taken modulo the cycle's length, moves with the         *)
(* firmware's index.                                                       *)
LEMMA TickStep ==
  ASSUME NEW n \in {2, 4}, NEW l \in 0..3, NEW i \in 0..3, l % n = i
  PROVE  ((l + 1) % TickModulus) % n = NextIdx(i, n)
<1>1. l \in {0, 1, 2, 3}
  BY SMT
<1>2. CASE n = 2
  BY <1>1, <1>2, SMT DEF TickModulus, NextIdx
<1>3. CASE n = 4
  BY <1>1, <1>3, SMT DEF TickModulus, NextIdx
<1> QED
  BY <1>2, <1>3

(* A thread that changes no mode has nothing to satisfy. *)
LEMMA IdleThread ==
  ASSUME NEW s \in Drivers, pc'[s] \notin ChangeLabels \cup SendLabels
  PROVE  Changing(s)'
  BY SMT DEF Changing, ChangeLabels, SendLabels

(* After a step of the lock's holder it is enough to look at the holder:   *)
(* as nothing raced, no flush sends.                                       *)
LEMMA HolderStep ==
  ASSUME ModeInv', NEW t \in Drivers, modeLock' = t, ~Racing', Changing(t)'
  PROVE  Calm'
<1>1. modeLock' # None
  BY ThreadsAre
<1>2. Flushing' = {}
  BY <1>1, Zenon DEF Racing
<1>3. ASSUME NEW s \in Drivers PROVE Changing(s)'
  <2>1. CASE s = t
    BY <2>1
  <2>2. CASE s # t
    BY <2>2, IdleThread, Zenon DEF ModeInv, Driving, Inside
  <2> QED
    BY <2>1, <2>2
<1> QED
  BY <1>1, <1>2, <1>3, Zenon DEF Calm, Rests, Flushes

(* With the lock free it is enough to look at the bridge and at the flush. *)
LEMMA FreeStep ==
  ASSUME ModeInv', modeLock' = None, Rests', Flushes'
  PROVE  Calm'
<1>1. ASSUME NEW s \in Drivers PROVE Changing(s)'
  BY ThreadsAre, IdleThread, Zenon DEF ModeInv, Driving, Inside
<1> QED
  BY <1>1, Zenon DEF Calm

(* Timers that send are left alone, and no other begins to. *)
StillSending == \A f \in Timers : pc[f] \in SendLabels \/ pc'[f] \in SendLabels => pc'[f] = pc[f]

(* While no Timer begins or stops sending the set of flushes stays. *)
LEMMA SameFlushing == StillSending => Flushing' = Flushing
  BY SMT DEF StillSending, Flushing

(* What Calm is about, besides the threads. *)
CalmRest == <<fw, fets, mode, modeLock, engine, label, rewound, prog, since>>

(* What a sending thread has achieved stays while nobody sends. *)
LEMMA SameSending ==
  ASSUME NEW t, pc'[t] = pc[t], Sending(t), UNCHANGED <<fw, rewound, prog, since, engine>>
  PROVE  Sending(t)'
  BY SMT DEF Sending, Snap, EngineCycle, EnginePeriod

(* A step that neither sends nor moves a sender or the holder keeps Calm. *)
LEMMA CalmFrame ==
  ASSUME CalmInv, ~raced, ModeInv', UNCHANGED CalmRest, StillSending,
         \A t \in Drivers : modeLock = t => pc'[t] = pc[t] /\ goal'[t] = goal[t]
  PROVE  Calm'
<1> USE DEF CalmRest
<1>1. Calm
  BY DEF CalmInv
<1>2. Flushing' = Flushing
  BY SameFlushing
<1>3. Runs' = Runs /\ (\A m : Busy(m)' = Busy(m) /\ Quiet(m)' = Quiet(m))
  BY SMT DEF Runs, Busy, Quiet, EngineCycle, EnginePeriod
<1>4. Rests'
  BY <1>1, <1>2, <1>3, SMT DEF Rests, Calm
<1>5. Flushes'
  <2>1. ASSUME NEW f \in Flushing PROVE Sending(f)'
    BY <1>1, <2>1, SameSending, SMT DEF Calm, Flushes, Flushing, StillSending
  <2> QED
    BY <1>1, <1>2, <2>1, Zenon DEF Calm, Flushes
<1>6. ASSUME NEW t \in Drivers PROVE Changing(t)'
  <2>1. CASE modeLock # t
    <3>1. modeLock' # t
      BY <2>1
    <3> QED
      BY <3>1, IdleThread, Zenon DEF ModeInv, Driving, Inside
  <2>2. CASE modeLock = t
    <3>1. pc'[t] = pc[t] /\ goal'[t] = goal[t] /\ Changing(t)
      BY <1>1, <2>2, Zenon DEF Calm
    <3>2. Sending(t) => Sending(t)'
      BY <3>1, SameSending
    <3> QED
      BY <1>3, <3>1, <3>2, SMT DEF Changing
  <2> QED
    BY <2>1, <2>2
<1> QED
  BY <1>4, <1>5, <1>6, Zenon DEF Calm

(* A thread outside the mode lock takes a step that sends nothing. *)
LEMMA OutsideCalm ==
  ASSUME CalmInv, ~raced, ModeInv', NEW c \in Drivers, pc[c] \in OutsideLabels, UNCHANGED CalmRest,
         pc' = pc \/ \E l : Goto(c, l),
         goal' = goal \/ \E m : goal' = [goal EXCEPT ![c] = m]
  PROVE  Calm'
<1>1. modeLock # c
  BY SMT DEF CalmInv, ModeInv, Driving, Inside, OutsideLabels, ChangeLabels, SendLabels
<1>2. /\ pc \in [Threads -> Labels \cup TimerLabels]
      /\ goal \in [Threads -> Modes \cup {None}]
  BY Zenon DEF CalmInv, ModeInv, ThreadsOK, Labels
<1>3. \A s \in Threads \ {c} : pc'[s] = pc[s] /\ goal'[s] = goal[s]
  BY <1>2, SMT DEF Goto
<1>4. StillSending
  BY <1>3, ThreadsAre, Zenon DEF StillSending
<1>5. \A t \in Drivers : modeLock = t => pc'[t] = pc[t] /\ goal'[t] = goal[t]
  BY <1>1, <1>3, ThreadsAre, Zenon
<1> QED
  BY <1>4, <1>5, CalmFrame, Zenon

(* So the decisions of clients and of auto-follow keep it. *)
LEMMA OutsideActsCalm ==
  ASSUME CalmInv, ~raced, ModeInv', NEW c \in Drivers,
         \/ \E m \in ModePicks : SetMode(c, m)
         \/ Manual(c)
         \/ SetTarget(c)
         \/ \E m \in SwitchingModes : SetAutoFollowTarget(c, m)
         \/ EnableAuto(c)
         \/ DisableAuto(c)
         \/ AutoTick /\ c = AutoLoop
         \/ Acquire(c) /\ goal[c] = mode
  PROVE  Calm'
<1>1. /\ UNCHANGED CalmRest
      /\ pc[c] \in {"ready", "manual", "target", "acquire"}
      /\ pc' = pc \/ \E l : Goto(c, l)
      /\ goal' = goal \/ \E m : goal' = [goal EXCEPT ![c] = m]
  <2>1. CASE \E m \in ModePicks : SetMode(c, m)
    BY <2>1, Zenon DEF SetMode, CalmRest, modeVars, history
  <2>2. CASE Manual(c)
    BY <2>2, Zenon DEF Manual, CalmRest, modeVars, history
  <2>3. CASE SetTarget(c)
    BY <2>3, Zenon DEF SetTarget, CalmRest, modeVars, history
  <2>4. CASE \E m \in SwitchingModes : SetAutoFollowTarget(c, m)
    BY <2>4, Zenon DEF SetAutoFollowTarget, CalmRest, modeVars, history
  <2>5. CASE EnableAuto(c)
    BY <2>5, Zenon DEF EnableAuto, CalmRest, modeVars, history
  <2>6. CASE DisableAuto(c)
    BY <2>6, Zenon DEF DisableAuto, CalmRest, modeVars, history, threads
  <2>7. CASE AutoTick /\ c = AutoLoop
    BY <2>7, Zenon DEF AutoTick, CalmRest, modeVars, history
  <2>8. CASE Acquire(c) /\ goal[c] = mode
    BY <2>8, Zenon DEF Acquire, CalmRest
  <2> QED
    BY <2>1, <2>2, <2>3, <2>4, <2>5, <2>6, <2>7, <2>8
<1>2. pc[c] \in OutsideLabels
  BY <1>1, Zenon DEF OutsideLabels
<1> QED
  BY <1>1, <1>2, OutsideCalm, Zenon

(* So do the hold-off, the current and a stutter. *)
LEMMA StandingCalm ==
  ASSUME CalmInv, ~raced, ModeInv',
         HoldoffEnds \/ (\E level \in Levels : CurrentMoves(level)) \/ UNCHANGED state
  PROVE  Calm'
<1>1. UNCHANGED CalmRest /\ pc' = pc /\ goal' = goal
  BY Zenon DEF HoldoffEnds, CurrentMoves, state, CalmRest, modeVars, history, threads
<1>2. StillSending
  BY <1>1, Zenon DEF StillSending
<1> QED
  BY <1>1, <1>2, CalmFrame, Zenon

-----------------------------------------------------------------------------
(* A client retunes the engine. *)
LEMMA RetuneTimers ==
  ASSUME ModeInv, NEW t \in Drivers, NEW e, NEW l, Retune(t, e, l)
  PROVE  StillSending
<1>1. "free" \notin SendLabels /\ "waiting" \notin SendLabels
  BY SMT DEF SendLabels
<1>2. CASE Goto(t, l)
  BY <1>2, ThreadsAre, SMT DEF Goto, StillSending, ModeInv, ThreadsOK
<1>3. ASSUME NEW f \in Timers, Cancelled[f] = "free",
             pc' = [Cancelled EXCEPT ![f] = "waiting", ![t] = l]
      PROVE  StillSending
  <2>1. /\ Cancelled \in [Threads -> Labels \cup TimerLabels]
        /\ \A s \in Timers : \/ Cancelled[s] = pc[s]
                             \/ pc[s] = "waiting" /\ Cancelled[s] = "free"
    BY CancelledIs, Zenon DEF ModeInv, Labels
  <2>2. pc[f] \notin SendLabels
    BY <1>1, <1>3, <2>1, Zenon
  <2>3. pc'[f] = "waiting" /\ \A s \in Timers \ {f} : pc'[s] = Cancelled[s]
    BY <1>3, <2>1, ThreadsAre, SMT
  <2>4. ASSUME NEW s \in Timers, pc[s] \in SendLabels \/ pc'[s] \in SendLabels
        PROVE  pc'[s] = pc[s]
    <3>1. s # f
      BY <1>1, <2>2, <2>3, <2>4, Zenon
    <3>2. pc'[s] = Cancelled[s]
      BY <2>3, <3>1, Zenon
    <3> QED
      BY <1>1, <2>1, <2>4, <3>2, Zenon
  <2> QED
    BY <2>4, Zenon DEF StillSending
<1> QED
  BY <1>2, <1>3, Zenon DEF Retune

(* A retuning of a running engine leaves a pending change, a paused one    *)
(* nothing to send.                                                        *)
LEMMA TuneCalm ==
  ASSUME CalmInv, ~raced, ModeInv', NEW c \in Clients,
         \/ \E us \in StepTimes : SetFrequency(c, us)
         \/ \E i \in SequencePicks : SetSequence(c, i)
  PROVE  Calm'
<1>1. c \in Drivers /\ c \in Threads /\ Calm /\ ModeInv /\ PausedIsDone
  BY ThreadsAre DEF CalmInv
<1>2. pc[c] = "ready" /\ UNCHANGED <<fw, fets, mode, modeLock, rewound, prog, since, goal>>
  BY Zenon DEF SetFrequency, SetSequence, modeVars, history
<1>3. PICK e \in EngineType : /\ Retune(c, e, "ready") /\ e.paused = engine.paused
                              /\ e.pulse = engine.pulse /\ e.pending = engine.pending
  <2>1. \A us \in StepTimes : LET e == [engine EXCEPT !.stepTime = us]
                              IN  /\ e \in EngineType /\ e.paused = engine.paused
                                  /\ e.pulse = engine.pulse /\ e.pending = engine.pending
    BY <1>1, EngineIs, Zenon DEF EngineType
  <2>2. \A i \in SequencePicks : LET e == [engine EXCEPT !.sequence = i]
                                 IN  /\ e \in EngineType /\ e.paused = engine.paused
                                     /\ e.pulse = engine.pulse /\ e.pending = engine.pending
    BY <1>1, EngineIs, Zenon DEF EngineType
  <2> QED
    BY <2>1, <2>2, Zenon DEF SetFrequency, SetSequence
<1>4. /\ engine'.paused = engine.paused /\ engine'.pulse = engine.pulse
      /\ ~engine.paused => engine'.pending
  <2>1. engine' = [e EXCEPT !.pending = e.pending \/ ~engine.paused]
    BY <1>3, Zenon DEF Retune
  <2>2. engine'.paused = engine.paused /\ engine'.pending = (engine.pending \/ ~engine.paused)
    BY <1>3, <2>1, SMT DEF EngineType
  <2>3. engine'.pulse = engine.pulse
    BY <1>3, <2>1, Zenon DEF EngineType
  <2> QED
    BY <2>2, <2>3, Zenon
<1>5. StillSending /\ Flushing' = Flushing
  BY <1>1, <1>3, RetuneTimers, SameFlushing, Zenon
<1>6. Moved(c, "ready")
  <2>1. "ready" \in Labels
    BY SMT DEF Labels, OutsideLabels
  <2> QED
    BY <1>1, <1>3, <2>1, RetuneIs, Zenon
<1>7. \A m : (Busy(m) => Busy(m)') /\ (Quiet(m) => Quiet(m)')
  BY <1>2, <1>4, SMT DEF Busy, Quiet
<1>8. Runs /\ ~engine.paused => Runs'
  BY <1>2, <1>4, Zenon DEF Runs
<1>9. ASSUME NEW t \in Threads, Sending(t), pc'[t] = pc[t] PROVE Sending(t)'
  BY <1>2, <1>4, <1>9, SMT DEF Sending
<1>10. Rests'
  BY <1>1, <1>2, <1>5, <1>7, <1>8, Zenon DEF Rests, Calm, Busy
<1>11. Flushes'
  <2>1. \A f \in Flushing : f \in Threads /\ pc'[f] = pc[f]
    BY <1>5, ThreadsAre, SMT DEF Flushing, StillSending
  <2> QED
    BY <1>1, <1>2, <1>5, <1>9, <2>1, Zenon DEF Flushes, Calm
<1>12. ASSUME NEW t \in Drivers PROVE Changing(t)'
  <2>1. CASE modeLock # t
    <3>1. modeLock' # t
      BY <1>2, <2>1
    <3> QED
      BY <3>1, IdleThread, Zenon DEF ModeInv, Driving, Inside
  <2>2. CASE modeLock = t
    <3>1. t # c
      BY <1>1, <1>2, <2>2, SMT DEF ModeInv, Driving, Inside, ChangeLabels, SendLabels
    <3>2. pc'[t] = pc[t] /\ goal'[t] = goal[t] /\ Changing(t) /\ t \in Threads
      BY <1>1, <1>2, <1>6, <3>1, ThreadsAre, Zenon DEF Calm, Moved
    <3>3. Sending(t) => Sending(t)'
      BY <1>9, <3>2
    <3>4. pc[t] = "commit" => IF goal[t] \in SwitchingModes THEN Busy(goal[t])' /\ Runs' ELSE Quiet(goal[t])'
      BY <1>7, <1>8, <3>2, Zenon DEF Changing, Busy
    <3>5. pc[t] \in SendLabels => Busy(goal[t])' /\ Sending(t)'
      BY <1>7, <3>2, <3>3, Zenon DEF Changing
    <3>6. UNCHANGED <<fw, fets>> /\ engine'.paused = engine.paused /\ engine'.pulse = engine.pulse
      BY <1>2, <1>4
    <3> QED
      BY <3>2, <3>4, <3>5, <3>6, Zenon DEF Changing
  <2> QED
    BY <2>1, <2>2
<1> QED
  BY <1>10, <1>11, <1>12, Zenon DEF Calm

-----------------------------------------------------------------------------
(* Timers. *)
LEMMA TimerFiresCalm ==
  ASSUME CalmInv, ~raced, ModeInv', NEW f \in Timers, TimerFires(f)
  PROVE  Calm'
<1>1. /\ pc[f] = "waiting" /\ pc' = [pc EXCEPT ![f] = "flush"]
      /\ UNCHANGED CalmRest /\ goal' = goal
  BY Zenon DEF TimerFires, Goto, CalmRest, modeVars, history
<1>2. pc \in [Threads -> Labels \cup TimerLabels] /\ f \in Threads /\ f \notin Drivers
  BY ThreadsAre, Zenon DEF CalmInv, ModeInv, ThreadsOK, Labels
<1>3. StillSending
  BY <1>1, <1>2, ThreadsAre, SMT DEF StillSending, SendLabels
<1>4. \A t \in Drivers : pc'[t] = pc[t]
  BY <1>1, <1>2, ThreadsAre, SMT
<1> QED
  BY <1>1, <1>3, <1>4, CalmFrame, Zenon

(* A flush that finds something to send becomes the only sender, else the  *)
(* bridge is as the mode says.                                             *)
LEMMA FlushCalm ==
  ASSUME CalmInv, ~raced, ModeInv', NEW f \in Timers, Flush(f), ~Racing'
  PROVE  Calm'
<1>1. Calm /\ ModeInv /\ PausedIsDone
  BY DEF CalmInv
<1>2. pc[f] = "flush" /\ UNCHANGED <<fw, fets, mode, modeLock, rewound, prog, since, goal, label>>
  BY Zenon DEF Flush, modeVars, history
<1>3. pc \in [Threads -> Labels \cup TimerLabels] /\ f \in Threads /\ f \notin Drivers
  BY ThreadsAre, Zenon DEF CalmInv, ModeInv, ThreadsOK, Labels
<1>4. engine' = [engine EXCEPT !.pending = FALSE] /\ engine \in EngineType
  BY <1>1, EngineIs, Zenon DEF Flush
<1>5. CASE ~engine.paused /\ engine.pending
  <2>1. pc' = [pc EXCEPT ![f] = "snap"]
    BY <1>5, Zenon DEF Flush, Goto
  <2>2. pc'[f] = "snap" /\ \A s \in Threads \ {f} : pc'[s] = pc[s]
    BY <1>3, <2>1, SMT
  <2>3. f \in Flushing'
    BY <2>2, SMT DEF Flushing, SendLabels
  <2>4. modeLock' = None /\ \A g \in Flushing' : g = f
    BY <2>3, Zenon DEF Racing
  <2>5. engine'.paused = engine.paused /\ engine'.pulse = engine.pulse
    BY <1>4, Zenon DEF EngineType
  <2>6. Sending(f)'
    BY <1>5, <2>2, <2>5, SMT DEF Sending
  <2>7. Flushes'
    <3>1. ASSUME NEW g \in Flushing' PROVE modeLock' = None /\ (\A h \in Flushing' : h = g) /\ Sending(g)'
      <4>1. g = f
        BY <2>4, <3>1
      <4>2. \A h \in Flushing' : h = g
        BY <2>4, <4>1
      <4>3. Sending(g)'
        BY <2>6, <4>1
      <4> QED
        BY <2>4, <4>2, <4>3
    <3> QED
      BY <3>1, Zenon DEF Flushes
  <2>8. Rests'
    <3>1. mode \in SwitchingModes /\ Busy(mode)
      BY <1>1, <1>2, <1>5, <2>4, Zenon DEF Calm, Rests, Quiet
    <3>2. mode' \in SwitchingModes /\ Busy(mode)' /\ Flushing' # {}
      BY <1>2, <2>3, <2>5, <3>1, Zenon DEF Busy
    <3> QED
      BY <3>2, Zenon DEF Rests
  <2> QED
    BY <2>4, <2>7, <2>8, FreeStep, Zenon
<1>6. CASE ~(~engine.paused /\ engine.pending)
  <2>1. pc' = [pc EXCEPT ![f] = "free"]
    BY <1>6, Zenon DEF Flush, Goto
  <2>2. engine.pending = FALSE
    BY <1>1, <1>4, <1>6, SMT DEF PausedIsDone, EngineType
  <2>3. engine' = engine
    BY <1>4, <2>2, Zenon DEF EngineType
  <2>4. StillSending
    BY <1>2, <1>3, <2>1, ThreadsAre, SMT DEF StillSending, SendLabels
  <2>5. \A t \in Drivers : pc'[t] = pc[t]
    BY <1>3, <2>1, ThreadsAre, SMT
  <2>6. UNCHANGED CalmRest
    BY <1>2, <2>3 DEF CalmRest
  <2> QED
    BY <1>2, <2>4, <2>5, <2>6, CalmFrame, Zenon
<1> QED
  BY <1>5, <1>6

-----------------------------------------------------------------------------
(* set_fet and debug_step. *)
LEMMA DebugCalm ==
  ASSUME CalmInv, ~raced, ModeInv', NEW c \in Clients,
         (\E f \in DebugFets : SetFet(c, f)) \/ DebugStep(c)
  PROVE  Calm'
<1>1. Calm /\ ModeInv /\ c \in Drivers /\ c \in Threads
  BY ThreadsAre DEF CalmInv
<1>2. PICK p : Send(c, [verb |-> "S", pins |-> p], "ready") /\ fets' = p
  BY Zenon DEF SetFet, DebugStep, Apply
<1>3. modeLock = None /\ mode = "debug" /\ mode' = mode /\ modeLock' = None /\ engine' = engine
  BY Zenon DEF SetFet, DebugStep, modeVars
<1>4. p \in States
  BY <1>2, Zenon DEF ModeInv, ServerOK
<1>5. fw'.pins = p /\ ~fw'.running
  <2>1. fw' = Handle(fw, [verb |-> "S", pins |-> p]) /\ FwOK(fw)
    BY <1>1, <1>2, Kept, Zenon DEF Send
  <2> QED
    BY <1>4, <2>1, HandleS, SMT
<1>6. "debug" \notin SwitchingModes
  BY SMT DEF SwitchingModes
<1>7. Quiet("debug")
  BY <1>1, <1>3, <1>6, Zenon DEF Calm, Rests
<1>8. Flushing = {}
  BY <1>1, <1>7, Zenon DEF Calm, Flushes, Sending, Quiet
<1>9. Flushing' = {}
  <2>1. \A f \in Timers : pc'[f] = pc[f]
    BY <1>1, <1>2, ThreadsAre, SMT DEF Send, Goto, ModeInv, ThreadsOK
  <2> QED
    BY <1>8, <2>1, SMT DEF Flushing
<1>10. Quiet("debug")'
  BY <1>2, <1>3, <1>5, <1>7, SMT DEF Quiet
<1>11. Rests' /\ Flushes'
  BY <1>3, <1>6, <1>9, <1>10, Zenon DEF Rests, Flushes
<1> QED
  BY <1>3, <1>11, FreeStep, Zenon

-----------------------------------------------------------------------------
(* A mode change, by the holder of the mode lock. *)
LEMMA HoldsLock ==
  ASSUME ModeInv, NEW t \in Drivers, pc[t] \in ChangeLabels \cup SendLabels
  PROVE  modeLock = t
  BY Zenon DEF ModeInv, Driving, Inside

(* The thread that gets the lock starts from a bridge that agrees with the *)
(* mode.                                                                   *)
LEMMA AcquireCalm ==
  ASSUME CalmInv, ~raced, ModeInv', NEW t \in Drivers, Acquire(t), ~Racing'
  PROVE  Calm'
<1>1. CASE goal[t] = mode
  BY <1>1, OutsideActsCalm, Zenon
<1>2. CASE goal[t] # mode
  <2>1. PICK l : l = CASE ~SkipDead(mode, goal[t]) -> "pause"
                       [] SkipDead(mode, goal[t]) /\ goal[t] = "discharge" -> "allon_E"
                       [] OTHER -> "setpulse"
    OBVIOUS
  <2>2. modeLock = None /\ modeLock' = t /\ Goto(t, l) /\ engine' = engine
    BY <1>2, <2>1, Zenon DEF Acquire
  <2>3. \/ l = "pause" \/ l = "allon_E"
        \/ SkipDead(mode, goal[t]) /\ goal[t] # "discharge" /\ l = "setpulse"
    BY <2>1, Zenon
  <2>4. pc'[t] = l
    BY <2>2, ThreadsAre, GotoIs, Zenon DEF CalmInv
  <2>5. l = "setpulse" => engine.paused
    <3>1. SUFFICES ASSUME l = "setpulse" PROVE engine.paused
      OBVIOUS
    <3>2. mode = "discharge"
      BY <2>3, <3>1, SMT DEF SkipDead
    <3>3. mode \notin SwitchingModes
      BY <3>2, SMT DEF SwitchingModes
    <3> QED
      BY <2>2, <3>3, Zenon DEF CalmInv, Calm, Rests, Quiet
  <2>6. Changing(t)'
    BY <2>2, <2>3, <2>4, <2>5, SMT DEF Changing, SendLabels
  <2> QED
    BY <2>2, <2>6, HolderStep, Zenon
<1> QED
  BY <1>1, <1>2

(* pause and pause_silent leave a paused engine behind. *)
LEMMA PauseCalm ==
  ASSUME CalmInv, ~raced, ModeInv', NEW t \in Drivers, PauseSilent(t) \/ Pause(t), ~Racing'
  PROVE  Calm'
<1>1. Calm /\ ModeInv /\ t \in Threads
  BY ThreadsAre DEF CalmInv
<1>2. PICK l : /\ pc' = [Cancelled EXCEPT ![t] = l]
               /\ \/ pc[t] = "silent" /\ l = "commit"
                  \/ pc[t] = "pause" /\ l \in {"alloff", "halt"}
  BY SMT DEF PauseSilent, Pause, PauseEngine
<1>3. UNCHANGED <<fw, fets, mode, modeLock, goal>> /\ engine' = [engine EXCEPT !.paused = TRUE, !.pending = FALSE]
  BY Zenon DEF PauseSilent, Pause, PauseEngine, modeVars
<1>4. engine'.paused
  BY <1>1, <1>3, EngineIs, Zenon DEF EngineType
<1>5. modeLock' = t
  BY <1>1, <1>2, <1>3, HoldsLock, SMT DEF ChangeLabels
<1>6. pc'[t] = l
  BY <1>1, <1>2, CancelledIs, SMT DEF ModeInv
<1>7. Changing(t)'
  <2>1. CASE pc[t] = "pause"
    BY <1>2, <1>4, <1>6, <2>1, SMT DEF Changing, SendLabels
  <2>2. CASE pc[t] = "silent"
    <3>1. goal[t] = "discharge"
      BY <1>1, <2>2, Kept, SMT DEF Driving, Path
    <3>2. fw.pins = AllOn /\ fets = AllOn /\ fw.seq = <<AllOn>>
      BY <1>1, <2>2, SMT DEF Calm, Changing
    <3>3. Quiet("discharge")'
      BY <1>3, <1>4, <3>2, SMT DEF Quiet
    <3>4. goal'[t] = "discharge" /\ "discharge" \notin SwitchingModes /\ pc'[t] = "commit"
      BY <1>2, <1>3, <1>6, <2>2, <3>1, SMT DEF SwitchingModes
    <3> QED
      BY <3>3, <3>4, SMT DEF Changing, SendLabels
  <2> QED
    BY <1>2, <2>1, <2>2
<1> QED
  BY <1>5, <1>7, HolderStep, Zenon

(* set_pulse_mode of a paused engine, or in a seamless change of a         *)
(* transparent one.                                                        *)
LEMMA SetPulseModeCalm ==
  ASSUME CalmInv, ~raced, ModeInv', NEW t \in Drivers, SetPulseMode(t), ~Racing'
  PROVE  Calm'
<1>1. Calm /\ ModeInv /\ t \in Threads
  BY ThreadsAre DEF CalmInv
<1>2. pc[t] = "setpulse" /\ UNCHANGED <<modeLock, goal>>
  BY Zenon DEF SetPulseMode, modeVars
<1>3. engine.paused
  BY <1>1, <1>2, SMT DEF Calm, Changing
<1>4. PICK e : e = [engine EXCEPT !.pulse = (goal[t] = "pulse_charge")]
  OBVIOUS
<1>5. e \in EngineType /\ e.paused = engine.paused /\ e.pulse = (goal[t] = "pulse_charge")
  <2>1. (goal[t] = "pulse_charge") \in BOOLEAN
    OBVIOUS
  <2> QED
    BY <1>1, <1>4, <2>1, EngineIs, Zenon DEF EngineType
<1>6. Retune(t, e, "resume")
  BY <1>4, Zenon DEF SetPulseMode
<1>7. engine'.paused /\ engine'.pulse = (goal[t] = "pulse_charge")
  <2>1. engine' = [e EXCEPT !.pending = e.pending \/ ~engine.paused]
    BY <1>6, Zenon DEF Retune
  <2> QED
    BY <1>3, <1>5, <2>1, Zenon DEF EngineType
<1>8. pc'[t] = "resume"
  <2>1. Goto(t, "resume")
    BY <1>3, <1>6, Zenon DEF Retune
  <2> QED
    BY <1>1, <2>1, GotoIs, Zenon
<1>9. modeLock' = t
  BY <1>1, <1>2, HoldsLock, SMT DEF ChangeLabels
<1>10. Changing(t)'
  <2>1. engine'.paused /\ (engine'.pulse <=> goal'[t] = "pulse_charge")
    BY <1>2, <1>7, Zenon
  <2> QED
    BY <1>8, <2>1, SMT DEF Changing, SendLabels
<1> QED
  BY <1>9, <1>10, HolderStep, Zenon

(* From resume on the engine runs and is of the goal's kind. *)
LEMMA ResumeCalm ==
  ASSUME CalmInv, ~raced, ModeInv', NEW t \in Drivers, Resume(t), ~Racing'
  PROVE  Calm'
<1>1. Calm /\ ModeInv /\ t \in Threads
  BY ThreadsAre DEF CalmInv
<1>2. /\ pc[t] = "resume" /\ UNCHANGED <<modeLock, goal>> /\ pc' = [Cancelled EXCEPT ![t] = "snap"]
      /\ engine' = [engine EXCEPT !.paused = FALSE, !.pending = FALSE]
  BY Zenon DEF Resume, modeVars
<1>3. engine.pulse <=> goal[t] = "pulse_charge"
  BY <1>1, <1>2, SMT DEF Calm, Changing
<1>4. ~engine'.paused /\ engine'.pulse = engine.pulse
  BY <1>1, <1>2, EngineIs, Zenon DEF EngineType
<1>5. pc'[t] = "snap"
  BY <1>1, <1>2, CancelledIs, SMT DEF ModeInv
<1>6. modeLock' = t
  BY <1>1, <1>2, HoldsLock, SMT DEF ChangeLabels
<1>7. Changing(t)'
  BY <1>2, <1>3, <1>4, <1>5, SMT DEF Changing, Busy, Sending
<1> QED
  BY <1>6, <1>7, HolderStep, Zenon

-----------------------------------------------------------------------------
(* The commands of a mode change. *)
LEMMA ProgramAllOnCalm ==
  ASSUME CalmInv, ~raced, ModeInv', NEW t \in Drivers, ProgramAllOn(t), ~Racing'
  PROVE  Calm'
<1>1. Calm /\ ModeInv /\ t \in Threads
  BY ThreadsAre DEF CalmInv
<1>2. /\ pc[t] = "allon_E" /\ Send(t, [verb |-> "E", prog |-> <<AllOn>>], "allon_Y")
      /\ UNCHANGED <<modeLock, engine, goal>>
  BY Zenon DEF ProgramAllOn, Apply, modeVars
<1>3. fw'.seq = <<AllOn>>
  <2>1. fw' = Handle(fw, [verb |-> "E", prog |-> <<AllOn>>]) /\ FwOK(fw)
    BY <1>1, <1>2, Kept, Zenon DEF Send
  <2> QED
    BY <2>1, Constants, HandleE, SMT
<1>4. pc'[t] = "allon_Y"
  BY <1>1, <1>2, GotoIs, Zenon DEF Send
<1>5. modeLock' = t
  BY <1>1, <1>2, HoldsLock, SMT DEF ChangeLabels
<1>6. Changing(t)'
  BY <1>1, <1>2, <1>3, <1>4, SMT DEF Calm, Changing, SendLabels
<1> QED
  BY <1>5, <1>6, HolderStep, Zenon

(* Y under the all-on cycle is transparent, and the driver knows it. *)
LEMMA AllOnNoHaltCalm ==
  ASSUME CalmInv, ~raced, ModeInv', NEW t \in Drivers, AllOnNoHalt(t), ~Racing'
  PROVE  Calm'
<1>1. Calm /\ ModeInv /\ t \in Threads
  BY ThreadsAre DEF CalmInv
<1>2. /\ pc[t] = "allon_Y" /\ Send(t, [verb |-> "Y", pins |-> AllOn], "silent") /\ fets' = AllOn
      /\ UNCHANGED <<modeLock, engine, goal>>
  BY Zenon DEF AllOnNoHalt, Apply, modeVars
<1>3. fw'.seq = fw.seq /\ fw'.pins = AllOn
  <2>1. fw' = Handle(fw, [verb |-> "Y", pins |-> AllOn]) /\ FwOK(fw)
    BY <1>1, <1>2, Kept, Zenon DEF Send
  <2> QED
    BY <2>1, Constants, HandleY, SMT
<1>4. pc'[t] = "silent"
  BY <1>1, <1>2, GotoIs, Zenon DEF Send
<1>5. modeLock' = t
  BY <1>1, <1>2, HoldsLock, SMT DEF ChangeLabels
<1>6. Changing(t)'
  BY <1>1, <1>2, <1>3, <1>4, SMT DEF Calm, Changing, SendLabels
<1> QED
  BY <1>5, <1>6, HolderStep, Zenon

(* H leaves the timer stopped. *)
LEMMA StopSwitchingCalm ==
  ASSUME CalmInv, ~raced, ModeInv', NEW t \in Drivers, StopSwitching(t), ~Racing'
  PROVE  Calm'
<1>1. Calm /\ ModeInv /\ t \in Threads
  BY ThreadsAre DEF CalmInv
<1>2. /\ pc[t] = "halt" /\ Send(t, [verb |-> "H"], "alloff")
      /\ UNCHANGED <<modeLock, engine, goal>>
  BY Zenon DEF StopSwitching, Apply, modeVars
<1>3. fw'.pins = AllOff
  <2>1. fw' = Handle(fw, [verb |-> "H"]) /\ FwOK(fw)
    BY <1>1, <1>2, Kept, Zenon DEF Send
  <2> QED
    BY <2>1, Constants, HandleH, SMT
<1>4. pc'[t] = "alloff"
  BY <1>1, <1>2, GotoIs, Zenon DEF Send
<1>5. modeLock' = t
  BY <1>1, <1>2, HoldsLock, SMT DEF ChangeLabels
<1>6. Changing(t)'
  BY <1>1, <1>2, <1>3, <1>4, SMT DEF Calm, Changing, SendLabels
<1> QED
  BY <1>5, <1>6, HolderStep, Zenon

(* S with AllOn after all_off is transparent. *)
LEMMA AllOnDirectCalm ==
  ASSUME CalmInv, ~raced, ModeInv', NEW t \in Drivers, AllOnDirect(t), ~Racing'
  PROVE  Calm'
<1>1. Calm /\ ModeInv /\ t \in Threads
  BY ThreadsAre DEF CalmInv
<1>2. /\ pc[t] = "allon" /\ Send(t, [verb |-> "S", pins |-> AllOn], "commit") /\ fets' = AllOn
      /\ UNCHANGED <<modeLock, engine, goal>>
  BY Zenon DEF AllOnDirect, Apply, modeVars
<1>3. fw'.pins = AllOn /\ ~fw'.running
  <2>1. fw' = Handle(fw, [verb |-> "S", pins |-> AllOn]) /\ FwOK(fw)
    BY <1>1, <1>2, Kept, Zenon DEF Send
  <2> QED
    BY <2>1, Constants, HandleS, SMT
<1>4. pc'[t] = "commit"
  BY <1>1, <1>2, GotoIs, Zenon DEF Send
<1>5. modeLock' = t
  BY <1>1, <1>2, HoldsLock, SMT DEF ChangeLabels
<1>6. Changing(t)'
  <2>1. goal'[t] = "discharge" /\ "discharge" \notin SwitchingModes
    BY <1>1, <1>2, Kept, SMT DEF Driving, Path, SwitchingModes
  <2>2. Quiet("discharge")'
    BY <1>1, <1>2, <1>3, SMT DEF Calm, Changing, Quiet
  <2> QED
    BY <1>4, <2>1, <2>2, SMT DEF Changing, SendLabels
<1> QED
  BY <1>5, <1>6, HolderStep, Zenon

(* all_off stops the timer and darkens the pins: IDLE and DEBUG start      *)
(* there.                                                                  *)
LEMMA AllOffDeadTimeCalm ==
  ASSUME CalmInv, ~raced, ModeInv', NEW t \in Drivers, AllOffDeadTime(t), ~Racing'
  PROVE  Calm'
<1>1. Calm /\ ModeInv /\ t \in Threads
  BY ThreadsAre DEF CalmInv
<1>2. PICK l : l = CASE goal[t] \in SwitchingModes -> "setpulse"
                     [] goal[t] = "discharge" -> "allon"
                     [] OTHER -> "commit"
  OBVIOUS
<1>3. \/ l = "setpulse" \/ l = "allon"
      \/ goal[t] \notin SwitchingModes /\ goal[t] # "discharge" /\ l = "commit"
  BY <1>2, SMT DEF SwitchingModes
<1>4. /\ pc[t] = "alloff" /\ Send(t, [verb |-> "S", pins |-> AllOff], l) /\ fets' = AllOff
      /\ UNCHANGED <<modeLock, engine, goal>>
  BY <1>2, Zenon DEF AllOffDeadTime, Apply
<1>5. fw'.pins = AllOff /\ ~fw'.running
  <2>1. fw' = Handle(fw, [verb |-> "S", pins |-> AllOff]) /\ FwOK(fw)
    BY <1>1, <1>4, Kept, Zenon DEF Send
  <2> QED
    BY <2>1, Constants, HandleS, SMT
<1>6. pc'[t] = l
  BY <1>1, <1>4, GotoIs, Zenon DEF Send
<1>7. modeLock' = t
  BY <1>1, <1>4, HoldsLock, SMT DEF ChangeLabels
<1>8. engine'.paused
  BY <1>1, <1>4, SMT DEF Calm, Changing
<1>9. Changing(t)'
  <2>1. CASE l = "setpulse" \/ l = "allon"
    BY <1>6, <1>8, <2>1, SMT DEF Changing, SendLabels
  <2>2. CASE goal[t] \notin SwitchingModes /\ goal[t] # "discharge" /\ l = "commit"
    <3>1. goal'[t] = goal[t]
      BY <1>4
    <3>2. Quiet(goal[t])'
      BY <1>4, <1>5, <1>8, <2>2, <3>1, SMT DEF Quiet
    <3> QED
      BY <1>6, <2>2, <3>1, <3>2, SMT DEF Changing, SendLabels
  <2> QED
    BY <1>3, <2>1, <2>2
<1> QED
  BY <1>7, <1>9, HolderStep, Zenon

(* What the change has achieved is what the announced mode says. *)
LEMMA CommitCalm ==
  ASSUME CalmInv, ~raced, ModeInv', NEW t \in Drivers, Commit(t), ~Racing'
  PROVE  Calm'
<1>1. Calm /\ ModeInv /\ t \in Threads /\ t # None
  BY ThreadsAre DEF CalmInv
<1>2. /\ pc[t] = "commit" /\ mode' = goal[t] /\ modeLock' = None
      /\ UNCHANGED <<fw, fets, engine, label, rewound>>
  BY Zenon DEF Commit
<1>3. modeLock = t
  BY <1>1, <1>2, HoldsLock, SMT DEF ChangeLabels
<1>4. IF goal[t] \in SwitchingModes THEN Busy(goal[t]) /\ Runs ELSE Quiet(goal[t])
  BY <1>1, <1>2, SMT DEF Calm, Changing
<1>5. Runs' = Runs
  BY <1>2, SMT DEF Runs, EngineCycle, EnginePeriod
<1>6. Rests'
  BY <1>2, <1>4, <1>5, SMT DEF Rests, Busy, Quiet
<1>7. Flushing' = {}
  <2>1. Flushing = {}
    BY <1>1, <1>3, Zenon DEF Calm, Flushes
  <2>2. \A f \in Timers : pc'[f] = pc[f]
    BY <1>1, ThreadsAre, SMT DEF Commit, Goto, ModeInv, ThreadsOK
  <2> QED
    BY <2>1, <2>2, SMT DEF Flushing
<1> QED
  BY <1>2, <1>6, <1>7, FreeStep, Zenon DEF Flushes

-----------------------------------------------------------------------------
(* Programming a cycle. *)
LEMMA SendingNow ==
  ASSUME CalmInv, ~raced, NEW t \in Threads, pc[t] \in SendLabels
  PROVE  /\ Sending(t)
         /\ t \in Drivers => modeLock = t /\ Busy(goal[t])
         /\ t \in Timers => /\ modeLock = None /\ (\A g \in Flushing : g = t) /\ t \in Flushing
                            /\ mode \in SwitchingModes /\ Busy(mode)
<1>1. CASE t \in Drivers
  BY <1>1, HoldsLock, ThreadsAre, Zenon DEF CalmInv, Calm, Changing
<1>2. CASE t \in Timers
  <2>1. t \in Flushing
    BY <1>2, Zenon DEF Flushing
  <2>2. Sending(t) /\ modeLock = None /\ \A g \in Flushing : g = t
    BY <2>1, Zenon DEF CalmInv, Calm, Flushes
  <2>3. mode \in SwitchingModes /\ Busy(mode)
    BY <2>2, Zenon DEF CalmInv, Calm, Rests, Quiet, Sending
  <2> QED
    BY <1>2, <2>1, <2>2, <2>3, ThreadsAre, Zenon
<1> QED
  BY <1>1, <1>2, Zenon DEF Threads

(* After a command of a sender it is enough to look at that sender:        *)
(* nothing raced, so nobody else sends.                                    *)
LEMMA SenderStep ==
  ASSUME CalmInv, ~raced, ModeInv', NEW t \in Threads, pc[t] \in SendLabels,
         pc'[t] \in SendLabels, \A s \in Threads \ {t} : pc'[s] = pc[s],
         UNCHANGED <<mode, modeLock, engine, goal>>, Sending(t)', ~Racing'
  PROVE  Calm'
<1>1. Busy(goal[t])' = Busy(goal[t]) /\ Busy(mode)' = Busy(mode)
  BY Zenon DEF Busy
<1>2. CASE t \in Drivers
  <2>1. modeLock' = t /\ Busy(goal[t])'
    BY <1>1, <1>2, SendingNow, Zenon
  <2>2. Changing(t)'
    BY <2>1, SMT DEF Changing, SendLabels
  <2> QED
    BY <1>2, <2>1, <2>2, HolderStep, Zenon
<1>3. CASE t \in Timers
  <2>1. modeLock' = None /\ (\A g \in Flushing : g = t) /\ mode' \in SwitchingModes /\ Busy(mode)'
    BY <1>1, <1>3, SendingNow, Zenon
  <2>2. \A g \in Flushing' : g = t
    BY <2>1, ThreadsAre, SMT DEF Flushing
  <2>3. t \in Flushing'
    BY <1>3, SMT DEF Flushing
  <2>4. Rests'
    BY <2>1, <2>3, Zenon DEF Rests
  <2>5. Flushes'
    <3>1. ASSUME NEW g \in Flushing' PROVE (\A h \in Flushing' : h = g) /\ Sending(g)'
      <4>1. g = t
        BY <2>2, <3>1
      <4> QED
        BY <2>2, <4>1
    <3> QED
      BY <2>1, <3>1, Zenon DEF Flushes
  <2> QED
    BY <2>1, <2>4, <2>5, FreeStep, Zenon
<1> QED
  BY <1>2, <1>3, Zenon DEF Threads

(* Goto leaves the other threads alone. *)
LEMMA GotoElsewhere ==
  ASSUME ModeInv, NEW t \in Threads, NEW l, Goto(t, l)
  PROVE  pc'[t] = l /\ \A s \in Threads \ {t} : pc'[s] = pc[s]
  BY SMT DEF Goto, ModeInv, ThreadsOK

(* The snapshot is the engine's, as it is read. *)
LEMMA ReadCycleCalm ==
  ASSUME CalmInv, ~raced, ModeInv', NEW t \in Threads, ReadCycle(t), ~Racing'
  PROVE  Calm'
<1>1. ModeInv /\ pc[t] = "snap" /\ pc[t] \in SendLabels
  BY SMT DEF CalmInv, ReadCycle, SendLabels
<1>2. PICK l \in {"C", "E"} : Goto(t, l)
  BY Zenon DEF ReadCycle
<1>3. UNCHANGED <<fw, mode, modeLock, engine, goal, rewound>> /\ prog' = [prog EXCEPT ![t] = Snap]
  BY Zenon DEF ReadCycle, modeVars, history, Snap
<1>4. pc'[t] = l /\ \A s \in Threads \ {t} : pc'[s] = pc[s]
  BY <1>1, <1>2, GotoElsewhere, Zenon
<1>5. prog'[t] = Snap'
  BY <1>1, <1>3, SMT DEF ModeInv, ThreadsOK, Snap, EngineCycle, EnginePeriod
<1>6. ~engine.paused
  BY <1>1, SendingNow, Zenon DEF Sending
<1>7. Sending(t)'
  BY <1>3, <1>4, <1>5, <1>6, SMT DEF Sending
<1>8. pc'[t] \in SendLabels
  BY <1>4, SMT DEF SendLabels
<1> QED
  BY <1>1, <1>3, <1>4, <1>7, <1>8, SenderStep, Zenon

(* A snapshot's cycle has 2 or 4 states and its period is set. *)
LEMMA SnapshotsAre ==
  ASSUME NEW s \in Snapshots
  PROVE  /\ s.cycle \in Programs /\ s.cycle # <<>> /\ Len(s.cycle) \in {2, 4}
         /\ s.us # 0 /\ s.us \in Periods
<1>1. s.cycle \in Programs /\ s.us \in StepTimes \cup {2 * us : us \in StepTimes}
  BY SMT DEF Snapshots
<1>2. s.cycle # <<>> /\ Len(s.cycle) \in {2, 4}
  BY <1>1, CyclesAre, Zenon DEF Cycles, IsCycle
<1>3. \A us \in StepTimes : us \in Nat /\ us # 0 /\ 2 * us # 0
  BY PicksAssumption, SMT DEF PicksAreLegal
<1>4. s.us # 0
  BY <1>1, <1>3, SMT
<1> QED
  BY <1>1, <1>2, <1>4, Zenon DEF Periods

(* After C the sender's cycle is loaded, and rewound. *)
LEMMA ProgramSequenceCalm ==
  ASSUME CalmInv, ~raced, ModeInv', NEW t \in Threads, ProgramSequence(t), ~Racing'
  PROVE  Calm'
<1>1. ModeInv /\ pc[t] = "C" /\ pc[t] \in SendLabels /\ pc[t] \in SendLabels \ {"snap"}
  BY SMT DEF CalmInv, ProgramSequence, SendLabels
<1>2. /\ Send(t, [verb |-> "C", prog |-> prog[t].cycle], "F")
      /\ UNCHANGED <<mode, modeLock, engine, goal, prog>>
  BY Zenon DEF ProgramSequence, modeVars
<1>3. pc'[t] = "F" /\ \A s \in Threads \ {t} : pc'[s] = pc[s]
  BY <1>1, <1>2, GotoElsewhere, Zenon DEF Send
<1>4. Sending(t)
  BY <1>1, SendingNow
<1>5. prog[t] \in Snapshots /\ prog[t].cycle \in Cycles /\ prog[t].us \in Periods
  BY <1>1, Held, Zenon DEF ModeInv, ThreadsOK
<1>6. fw'.seq = prog[t].cycle /\ ~fw'.running /\ fw'.idx = 0
  <2>1. fw' = Handle(fw, [verb |-> "C", prog |-> prog[t].cycle]) /\ FwOK(fw)
    BY <1>1, <1>2, Kept, Zenon DEF Send
  <2> QED
    BY <1>5, <2>1, HandleC, SMT
<1>7. rewound'
  <2>1. rewound' = ("C" = "C" \/ (rewound /\ "C" # "E"))
    BY <1>2, Zenon DEF Send
  <2> QED
    BY <2>1, Zenon
<1>8. prog'[t] = prog[t] /\ Snap' = Snap
  BY <1>2, SMT DEF Snap, EngineCycle, EnginePeriod
<1>9. Sending(t)'
  BY <1>1, <1>2, <1>3, <1>4, <1>6, <1>7, <1>8, SMT DEF Sending
<1>10. pc'[t] \in SendLabels
  BY <1>3, SMT DEF SendLabels
<1> QED
  BY <1>1, <1>2, <1>3, <1>9, <1>10, SenderStep, Zenon

(* After E it is loaded, not rewound. *)
LEMMA ProgramSequenceLiveCalm ==
  ASSUME CalmInv, ~raced, ModeInv', NEW t \in Threads, ProgramSequenceLive(t), ~Racing'
  PROVE  Calm'
<1>1. ModeInv /\ pc[t] = "E" /\ pc[t] \in SendLabels /\ pc[t] \in SendLabels \ {"snap"}
  BY SMT DEF CalmInv, ProgramSequenceLive, SendLabels
<1>2. /\ Send(t, [verb |-> "E", prog |-> prog[t].cycle], "F")
      /\ UNCHANGED <<mode, modeLock, engine, goal, prog>>
  BY Zenon DEF ProgramSequenceLive, modeVars
<1>3. pc'[t] = "F" /\ \A s \in Threads \ {t} : pc'[s] = pc[s]
  BY <1>1, <1>2, GotoElsewhere, Zenon DEF Send
<1>4. Sending(t)
  BY <1>1, SendingNow
<1>5. prog[t] \in Snapshots /\ prog[t].cycle \in Cycles /\ prog[t].us \in Periods
  BY <1>1, Held, Zenon DEF ModeInv, ThreadsOK
<1>6. fw'.seq = prog[t].cycle
  <2>1. fw' = Handle(fw, [verb |-> "E", prog |-> prog[t].cycle]) /\ FwOK(fw)
    BY <1>1, <1>2, Kept, Zenon DEF Send
  <2> QED
    BY <1>5, <2>1, HandleE, SMT
<1>7. ~rewound'
  <2>1. rewound' = ("E" = "C" \/ (rewound /\ "E" # "E"))
    BY <1>2, Zenon DEF Send
  <2> QED
    BY <2>1, Zenon
<1>8. prog'[t] = prog[t] /\ Snap' = Snap
  BY <1>2, SMT DEF Snap, EngineCycle, EnginePeriod
<1>9. Sending(t)'
  BY <1>1, <1>2, <1>3, <1>4, <1>6, <1>7, <1>8, SMT DEF Sending
<1>10. pc'[t] \in SendLabels
  BY <1>3, SMT DEF SendLabels
<1> QED
  BY <1>1, <1>2, <1>3, <1>9, <1>10, SenderStep, Zenon

(* After F its period is set. *)
LEMMA SetStepPeriodCalm ==
  ASSUME CalmInv, ~raced, ModeInv', NEW t \in Threads, SetStepPeriod(t), ~Racing'
  PROVE  Calm'
<1>1. ModeInv /\ pc[t] = "F" /\ pc[t] \in SendLabels /\ pc[t] \in SendLabels \ {"snap"}
  BY SMT DEF CalmInv, SetStepPeriod, SendLabels
<1>2. /\ Send(t, [verb |-> "F", us |-> prog[t].us], "G")
      /\ UNCHANGED <<mode, modeLock, engine, goal, prog>>
  BY Zenon DEF SetStepPeriod, modeVars
<1>3. pc'[t] = "G" /\ \A s \in Threads \ {t} : pc'[s] = pc[s]
  BY <1>1, <1>2, GotoElsewhere, Zenon DEF Send
<1>4. Sending(t)
  BY <1>1, SendingNow
<1>5. prog[t] \in Snapshots /\ prog[t].cycle \in Cycles /\ prog[t].us \in Periods
  BY <1>1, Held, Zenon DEF ModeInv, ThreadsOK
<1>6. /\ fw'.seq = fw.seq /\ fw'.period = prog[t].us
      /\ fw'.running = fw.running /\ fw'.idx = fw.idx
  <2>1. fw' = Handle(fw, [verb |-> "F", us |-> prog[t].us]) /\ FwOK(fw)
    BY <1>1, <1>2, Kept, Zenon DEF Send
  <2> QED
    BY <1>5, <2>1, HandleF, SMT
<1>7. rewound' => rewound
  <2>1. rewound' = ("F" = "C" \/ (rewound /\ "F" # "E"))
    BY <1>2, Zenon DEF Send
  <2> QED
    BY <2>1, Zenon
<1>8. prog'[t] = prog[t] /\ Snap' = Snap
  BY <1>2, SMT DEF Snap, EngineCycle, EnginePeriod
<1>9. Sending(t)'
  BY <1>1, <1>2, <1>3, <1>4, <1>6, <1>7, <1>8, SMT DEF Sending
<1>10. pc'[t] \in SendLabels
  BY <1>3, SMT DEF SendLabels
<1> QED
  BY <1>1, <1>2, <1>3, <1>9, <1>10, SenderStep, Zenon

(* After G it runs, and the sender's tick count starts with the index. *)
LEMMA StartSwitchingCalm ==
  ASSUME CalmInv, ~raced, ModeInv', NEW t \in Threads, StartSwitching(t), ~Racing'
  PROVE  Calm'
<1>1. ModeInv /\ pc[t] = "G" /\ pc[t] \in SendLabels /\ pc[t] \in SendLabels \ {"snap"}
  BY SMT DEF CalmInv, StartSwitching, SendLabels
<1>2. /\ Send(t, [verb |-> "G"], "anchor")
      /\ UNCHANGED <<mode, modeLock, engine, goal, prog>>
  BY Zenon DEF StartSwitching, modeVars
<1>3. pc'[t] = "anchor" /\ \A s \in Threads \ {t} : pc'[s] = pc[s]
  BY <1>1, <1>2, GotoElsewhere, Zenon DEF Send
<1>4. Sending(t)
  BY <1>1, SendingNow
<1>5. prog[t] \in Snapshots /\ prog[t].cycle \in Cycles /\ prog[t].us \in Periods
  BY <1>1, Held, Zenon DEF ModeInv, ThreadsOK
<1>6. /\ fw'.seq = fw.seq /\ fw'.period = fw.period /\ fw'.idx = fw.idx
      /\ fw.seq # <<>> /\ fw.period # 0 => fw'.running
  <2>1. fw' = Handle(fw, [verb |-> "G"]) /\ FwOK(fw)
    BY <1>1, <1>2, Kept, Zenon DEF Send
  <2> QED
    BY <1>5, <2>1, HandleG, SMT
<1>7. rewound' => rewound
  <2>1. rewound' = ("G" = "C" \/ (rewound /\ "G" # "E"))
    BY <1>2, Zenon DEF Send
  <2> QED
    BY <2>1, Zenon
<1>8. prog'[t] = prog[t] /\ Snap' = Snap
  BY <1>2, SMT DEF Snap, EngineCycle, EnginePeriod
<1>9. Sending(t)'
  <2>1. fw.seq = prog[t].cycle /\ fw.period = prog[t].us /\ (rewound => fw.idx = 0)
    BY <1>1, <1>4, SMT DEF Sending
  <2>2. PICK n \in {2, 4} : n = Len(fw'.seq)
    BY <1>5, <1>6, <2>1, SnapshotsAre, Zenon
  <2>3. 0 % n = 0
    BY SMT
  <2>4. since'[t] = 0
    BY <1>1, SMT DEF StartSwitching, ModeInv, ThreadsOK
  <2>5. rewound' => since'[t] % Len(fw'.seq) = fw'.idx
    BY <1>6, <1>7, <2>1, <2>2, <2>3, <2>4, Zenon
  <2>6. fw'.running
    BY <1>5, <1>6, <2>1, SnapshotsAre, Zenon
  <2>7. ~engine'.paused /\ (prog'[t] = Snap' \/ engine'.pending)
    BY <1>1, <1>2, <1>4, <1>8, SMT DEF Sending
  <2> QED
    BY <1>3, <1>6, <1>8, <2>1, <2>5, <2>6, <2>7, SMT DEF Sending
<1>10. pc'[t] \in SendLabels
  BY <1>3, SMT DEF SendLabels
<1> QED
  BY <1>1, <1>2, <1>3, <1>9, <1>10, SenderStep, Zenon

(* After the anchoring the bridge does what the engine says, or a change   *)
(* is pending that will see to it.                                         *)
LEMMA AnchorCalm ==
  ASSUME CalmInv, ~raced, ModeInv', NEW t \in Threads, Anchor(t), ~Racing'
  PROVE  Calm'
<1>1. ModeInv /\ pc[t] = "anchor" /\ pc[t] \in SendLabels /\ pc[t] \in SendLabels \ {"snap"}
  BY SMT DEF CalmInv, Anchor, SendLabels
<1>2. UNCHANGED <<fw, fets, mode, modeLock, engine, goal, rewound>> /\ label' = since[t]
  BY Zenon DEF Anchor, modeVars, history
<1>3. PICK l : Goto(t, l) /\ l = IF t \in Timers THEN "free" ELSE "commit"
  BY Zenon DEF Anchor
<1>4. pc'[t] = l /\ \A s \in Threads \ {t} : pc'[s] = pc[s]
  BY <1>1, <1>3, GotoElsewhere, Zenon
<1>5. Sending(t)
  BY <1>1, SendingNow
<1>6. Runs'
  <2>1. /\ fw.running /\ fw.seq = prog[t].cycle /\ fw.period = prog[t].us
        /\ prog[t] = Snap \/ engine.pending
        /\ rewound => since[t] % Len(fw.seq) = fw.idx
    BY <1>1, <1>5, SMT DEF Sending
  <2>2. prog[t] = Snap => prog[t].cycle = EngineCycle /\ prog[t].us = EnginePeriod
    BY SMT DEF Snap
  <2>3. EngineCycle' = EngineCycle /\ EnginePeriod' = EnginePeriod
    BY <1>2 DEF EngineCycle, EnginePeriod
  <2> QED
    BY <1>2, <2>1, <2>2, <2>3, Zenon DEF Runs
<1>7. Busy(goal[t])' = Busy(goal[t]) /\ Busy(mode)' = Busy(mode)
  BY <1>2, Zenon DEF Busy
<1>8. CASE t \in Drivers
  <2>1. l = "commit" /\ goal[t] \in SwitchingModes /\ modeLock' = t /\ Busy(goal[t])'
    BY <1>1, <1>2, <1>3, <1>7, <1>8, SendingNow, ThreadsAre, Kept, Zenon DEF Driving, Path
  <2>2. goal'[t] = goal[t]
    BY <1>2
  <2>3. Changing(t)'
    BY <1>4, <1>6, <2>1, <2>2, SMT DEF Changing, SendLabels
  <2> QED
    BY <1>8, <2>1, <2>3, HolderStep, Zenon
<1>9. CASE t \in Timers
  <2>1. /\ l = "free" /\ modeLock' = None /\ mode' \in SwitchingModes /\ Busy(mode)'
        /\ \A g \in Flushing : g = t
    BY <1>1, <1>2, <1>3, <1>7, <1>9, SendingNow, Zenon
  <2>2. Flushing' = {}
    BY <1>4, <2>1, ThreadsAre, SMT DEF Flushing, SendLabels
  <2>3. Rests' /\ Flushes'
    BY <1>6, <2>1, <2>2, Zenon DEF Rests, Flushes
  <2> QED
    BY <2>1, <2>3, FreeStep, Zenon
<1> QED
  BY <1>8, <1>9, Zenon DEF Threads

-----------------------------------------------------------------------------
(* The firmware's interrupt. *)
LEMMA FirmwareTickCalm ==
  ASSUME CalmInv, ~raced, ModeInv', FirmwareTick
  PROVE  Calm'
<1>1. ModeInv /\ Calm /\ FwOK(fw) /\ fw.running /\ fw' = Tick(fw)
  BY Zenon DEF CalmInv, ModeInv, FirmwareTick
<1>2. UNCHANGED <<fets, mode, modeLock, engine, pc, goal, prog, rewound>>
  BY Zenon DEF FirmwareTick, modeVars, threads
<1>3. /\ fw'.running /\ fw'.seq = fw.seq /\ fw'.period = fw.period
      /\ fw.seq # <<>> => fw'.idx = NextIdx(fw.idx, Len(fw.seq))
      /\ fw.seq = <<AllOn>> => fw'.pins = AllOn
  BY <1>1, TickKeeps, Zenon
<1>4. EngineCycle' = EngineCycle /\ EnginePeriod' = EnginePeriod /\ Snap' = Snap
  BY <1>2, Zenon DEF Snap, EngineCycle, EnginePeriod
<1>5. fw.idx \in 0..3 /\ label \in 0..3 /\ since \in [Threads -> 0..3]
  BY <1>1, FwFields, Zenon DEF FwOK, ModeInv, ServerOK, ThreadsOK
<1>6. Flushing' = Flushing
  BY <1>2, Zenon DEF Flushing
<1>7. Runs /\ ~engine.paused => Runs'
  <2>1. SUFFICES ASSUME Runs, ~engine.paused PROVE Runs'
    OBVIOUS
  <2>2. ASSUME ~engine.pending, rewound PROVE label' % Len(fw'.seq) = fw'.idx
    <3>1. fw.seq = EngineCycle /\ label % Len(fw.seq) = fw.idx
      BY <2>1, <2>2, Zenon DEF Runs
    <3>2. EngineCycle = Snap.cycle /\ Snap \in Snapshots
      BY <1>1, ReadCycleIs, SMT DEF Snap
    <3>3. PICK n \in {2, 4} : n = Len(fw.seq) /\ fw.seq # <<>>
      BY <3>1, <3>2, SnapshotsAre, Zenon
    <3>4. label' = (label + 1) % TickModulus
      BY <2>1, Zenon DEF FirmwareTick
    <3>5. label' % n = NextIdx(fw.idx, n)
      BY <1>5, <3>1, <3>3, <3>4, TickStep, Zenon
    <3> QED
      BY <1>3, <3>3, <3>5, Zenon
  <2> QED
    BY <1>2, <1>3, <1>4, <2>1, <2>2, Zenon DEF Runs
<1>8. ASSUME NEW m, Quiet(m) PROVE Quiet(m)'
  BY <1>1, <1>2, <1>3, <1>8, SMT DEF Quiet
<1>9. ASSUME NEW m PROVE Busy(m)' = Busy(m)
  BY <1>2, Zenon DEF Busy
<1>10. ASSUME NEW t \in Threads, Sending(t), pc[t] \in SendLabels PROVE Sending(t)'
  <2>1. ASSUME pc[t] = "anchor", rewound PROVE since'[t] % Len(fw'.seq) = fw'.idx
    <3>1. fw.seq = prog[t].cycle /\ since[t] % Len(fw.seq) = fw.idx
      BY <1>10, <2>1, SMT DEF Sending
    <3>2. prog[t] \in Snapshots
      BY <1>1, <2>1, SMT DEF ModeInv, ThreadsOK, SendLabels
    <3>3. PICK n \in {2, 4} : n = Len(fw.seq) /\ fw.seq # <<>>
      BY <3>1, <3>2, SnapshotsAre, Zenon
    <3>4. since'[t] = (since[t] + 1) % TickModulus /\ since[t] \in 0..3
      BY <1>5, <2>1, SMT DEF FirmwareTick
    <3>5. PICK v \in 0..3 : v = since[t]
      BY <3>4, Zenon
    <3>6. ((v + 1) % TickModulus) % n = NextIdx(fw.idx, n)
      BY <1>5, <3>1, <3>3, <3>5, TickStep, Zenon
    <3>7. since'[t] % n = NextIdx(fw.idx, n)
      BY <3>4, <3>5, <3>6, Zenon
    <3> QED
      BY <1>3, <3>3, <3>7, Zenon
  <2> QED
    BY <1>1, <1>2, <1>3, <1>4, <1>10, <2>1, SMT DEF Sending
<1>11. Rests'
  BY <1>1, <1>2, <1>6, <1>7, <1>8, <1>9, Zenon DEF Rests, Calm, Busy
<1>12. Flushes'
  <2>1. \A f \in Flushing : f \in Threads /\ pc[f] \in SendLabels
    BY ThreadsAre, Zenon DEF Flushing
  <2> QED
    BY <1>1, <1>2, <1>6, <1>10, <2>1, Zenon DEF Flushes, Calm
<1>13. ASSUME NEW t \in Drivers PROVE Changing(t)'
  <2>1. Changing(t) /\ t \in Threads
    BY <1>1, ThreadsAre, Zenon DEF Calm
  <2>2. pc[t] \in SendLabels => Busy(goal[t])' /\ Sending(t)'
    BY <1>2, <1>9, <1>10, <2>1, Zenon DEF Changing
  <2>3. pc[t] = "commit" => IF goal[t] \in SwitchingModes THEN Busy(goal[t])' /\ Runs' ELSE Quiet(goal[t])'
    BY <1>2, <1>7, <1>8, <1>9, <2>1, Zenon DEF Changing, Busy
  <2> QED
    BY <1>2, <1>3, <2>1, <2>2, <2>3, Zenon DEF Changing
<1> QED
  BY <1>11, <1>12, <1>13, Zenon DEF Calm

-----------------------------------------------------------------------------
(* The server starts calm. *)
LEMMA CalmInitially == Init => CalmInv
<1> SUFFICES ASSUME Init PROVE CalmInv
  OBVIOUS
<1>1. ModeInv
  BY Initially
<1>2. engine.paused /\ ~engine.pending
  BY SMT DEF Init
<1>3. \A t \in Drivers : pc[t] = "ready"
  BY ThreadsAre, SMT DEF Init
<1>4. \A f \in Timers : pc[f] = "free"
  BY ThreadsAre, SMT DEF Init
<1>5. Flushing = {}
  BY <1>4, SMT DEF Flushing, SendLabels
<1>6. Rests
  <2>1. mode = "idle" /\ mode \notin SwitchingModes
    BY SMT DEF Init, SwitchingModes
  <2>2. fw.pins = AllOff /\ ~fw.running /\ fets = AllOff
    BY Zenon DEF Init, Booted
  <2> QED
    BY <1>2, <2>1, <2>2, SMT DEF Rests, Quiet
<1>7. Calm
  BY <1>3, <1>5, <1>6, SMT DEF Calm, Flushes, Changing, SendLabels
<1> QED
  BY <1>1, <1>2, <1>4, <1>7, SMT DEF CalmInv, PausedIsDone, TimersSendC

(* Every step that does not race keeps Calm. *)
LEMMA CalmStep ==
  ASSUME CalmInv, ~raced, ModeInv', Step, ~Racing'
  PROVE  Calm'
<1>1. ASSUME NEW c \in Clients, ClientCall(c) \/ ClientStep(c) PROVE Calm'
  BY <1>1, ThreadsAre, OutsideActsCalm, TuneCalm, DebugCalm, Zenon DEF ClientCall, ClientStep
<1>2. CASE AutoTick
  BY <1>2, ThreadsAre, OutsideActsCalm, Zenon
<1>3. ASSUME NEW t \in Drivers, ChangeMode(t) PROVE Calm'
  BY <1>3, ProgramAllOnCalm, AllOnNoHaltCalm, PauseCalm, StopSwitchingCalm, AllOffDeadTimeCalm,
     AllOnDirectCalm, SetPulseModeCalm, ResumeCalm, CommitCalm, Zenon DEF ChangeMode
<1>4. ASSUME NEW t \in Threads, Program(t) PROVE Calm'
  BY <1>4, ReadCycleCalm, ProgramSequenceCalm, ProgramSequenceLiveCalm, SetStepPeriodCalm,
     StartSwitchingCalm, AnchorCalm, Zenon DEF Program
<1>5. CASE Environment
  BY <1>5, StandingCalm, FirmwareTickCalm, Zenon DEF Environment
<1> QED
  BY <1>1, <1>2, <1>3, <1>4, <1>5, AcquireCalm, TimerFiresCalm, FlushCalm, Zenon DEF Step

(* Until a flush races, Calm holds. *)
THEOREM CalmInvariance == Spec => []CalmInv
<1>1. CalmInv /\ [Next]_vars => CalmInv'
  <2>1. SUFFICES ASSUME CalmInv, [Next]_vars PROVE CalmInv'
    OBVIOUS
  <2>2. CASE Next
    <3>1. Step /\ raced' = (raced \/ Racing')
      BY <2>2 DEF Next
    <3>2. raced' \in BOOLEAN
      BY <3>1, SMT
    <3>3. ModeInv'
      BY <2>1, <3>1, <3>2, StepKeeps, Zenon DEF CalmInv
    <3>4. PausedIsDone' /\ TimersSendC'
      BY <2>1, <3>1, PausedKeeps, TimersKeep, Zenon DEF CalmInv
    <3>5. ~raced' => Calm'
      BY <2>1, <3>1, <3>3, CalmStep, Zenon
    <3> QED
      BY <3>3, <3>4, <3>5, Zenon DEF CalmInv
  <2>3. CASE UNCHANGED vars
    <3>1. UNCHANGED state /\ raced' = raced
      BY <2>3 DEF vars
    <3>2. ModeInv'
      <4>1. raced' \in BOOLEAN
        BY <2>1, <3>1, Zenon DEF CalmInv, ModeInv, HistoryOK
      <4> QED
        BY <2>1, <3>1, <4>1, StandingKeeps, Zenon DEF CalmInv
    <3>3. PausedIsDone' /\ TimersSendC'
      BY <2>1, <3>1, SMT DEF CalmInv, PausedIsDone, TimersSendC, state, threads
    <3>4. ~raced' => Calm'
      BY <2>1, <3>1, <3>2, StandingCalm, Zenon
    <3> QED
      BY <3>2, <3>3, <3>4, Zenon DEF CalmInv
  <2> QED
    BY <2>1, <2>2, <2>3
<1> QED
  BY CalmInitially, <1>1, PTL DEF Spec

(* What the server reports as the mode is what the H-bridge does, unless a *)
(* flush raced: for any number of clients and Timers and any order of      *)
(* their calls.                                                            *)
THEOREM BridgeFollowsMode == Spec => []ModeMatchesBridge
<1>1. CalmInv => ModeMatchesBridge
  <2>1. SUFFICES ASSUME CalmInv, Settled, ~raced
        PROVE  /\ mode = "idle" => fw.pins = AllOff
               /\ mode = "discharge" => fw.pins = AllOn /\ (fw.running => fw.seq = <<AllOn>>)
               /\ mode \in {"idle", "debug"} => ~fw.running
               /\ mode \in SwitchingModes /\ ~Retuning =>
                    /\ fw.running /\ ~engine.paused
                    /\ fw.seq = EngineCycle /\ fw.period = EnginePeriod
                    /\ engine.pulse <=> mode = "pulse_charge"
    BY Zenon DEF ModeMatchesBridge
  <2>2. IF mode \in SwitchingModes THEN Busy(mode) /\ Runs ELSE Quiet(mode)
    BY <2>1, Zenon DEF CalmInv, Calm, Rests, Settled
  <2>3. CASE mode \in SwitchingModes
    <3>1. mode \notin {"idle", "debug", "discharge"}
      BY <2>3, SMT DEF SwitchingModes
    <3> QED
      BY <2>2, <2>3, <3>1, SMT DEF Busy, Runs, Retuning
  <2>4. CASE mode \notin SwitchingModes
    BY <2>2, <2>4, SMT DEF Quiet
  <2> QED
    BY <2>3, <2>4
<1> QED
  BY <1>1, CalmInvariance, PTL

(* While the engine is paused the FET states a status reports are those of *)
(* the pins, unless a flush raced.                                         *)
THEOREM CacheTrue == Spec => []CacheIsTruth
<1>1. CalmInv => CacheIsTruth
  <2>1. SUFFICES ASSUME CalmInv, Settled, ~raced, engine.paused PROVE fets = fw.pins
    BY Zenon DEF CacheIsTruth
  <2>2. IF mode \in SwitchingModes THEN Busy(mode) /\ Runs ELSE Quiet(mode)
    BY <2>1, Zenon DEF CalmInv, Calm, Rests, Settled
  <2>3. mode \notin SwitchingModes /\ Quiet(mode)
    BY <2>1, <2>2, Zenon DEF Busy
  <2>4. mode \in {"idle", "debug", "discharge"}
    BY <2>1, <2>3, SMT DEF CalmInv, ModeInv, ServerOK, Modes, SwitchingModes
  <2> QED
    BY <2>3, <2>4, SMT DEF Quiet
<1> QED
  BY <1>1, CalmInvariance, PTL

(* The step the Pi attributes to a sample is the firmware's, if C loaded   *)
(* the cycle and no flush raced.                                           *)
THEOREM LabelsTrue == Spec => []LabelIsStep
<1>1. CalmInv => LabelIsStep
  BY Zenon DEF CalmInv, Calm, Rests, Runs, Settled, LabelIsStep, Retuning
<1> QED
  BY <1>1, CalmInvariance, PTL

-----------------------------------------------------------------------------
(* F, G and an interrupt drive a state of the loaded cycle, or nothing.     *)
LEMMA DrivesCycle ==
  ASSUME NEW f, FwOK(f), NEW g, NEW us,
         \/ g = Handle(f, [verb |-> "F", us |-> us])
         \/ g = Handle(f, [verb |-> "G"])
         \/ g = Tick(f)
  PROVE  g.pins = f.pins \/ \E i \in DOMAIN f.seq : g.pins = f.seq[i]
<1>1. f \in FwType /\ f.idx \in 0..3
  BY FwFields, Zenon DEF FwOK
<1>2. CASE f.seq = <<>>
  BY <1>1, <1>2, Zenon DEF FwType, Handle, SetPeriod, Start, CanStart, Tick, Advance
<1>3. CASE f.seq # <<>>
  <2>1. IsCycle(f.seq)
    BY <1>1, <1>3, FwFields, CyclesAre, Zenon
  <2>2. PICK n \in {1, 2, 4} : n = Len(f.seq)
    BY <2>1, Zenon DEF IsCycle
  <2>3. DOMAIN f.seq = 1..n
    BY <2>1, <2>2, Zenon DEF IsCycle
  <2>4. f.idx + 1 \in 1..n /\ NextIdx(f.idx, n) + 1 \in 1..n
    <3>1. f.idx < n
      BY <1>3, <2>2, Zenon DEF FwOK
    <3> QED
      BY <1>1, <3>1, NextIsIn, SMT
  <2>5. \/ g.pins = f.pins \/ g.pins = f.seq[f.idx + 1]
        \/ g.pins = f.seq[NextIdx(f.idx, n) + 1]
    BY <1>1, <1>3, <2>2, Zenon DEF FwType, Handle, SetPeriod, Start, Tick, Advance
  <2> QED
    BY <2>3, <2>4, <2>5, Zenon
<1> QED
  BY <1>2, <1>3

(* With the mode lock held only these steps reach the firmware's core. *)
LEMMA OnlyCommandsDrive ==
  ASSUME CalmInv, Step, modeLock # None, fw' # fw
  PROVE  \/ \E t \in Drivers : ProgramAllOn(t) \/ AllOnNoHalt(t) \/ StopSwitching(t)
                               \/ AllOffDeadTime(t) \/ AllOnDirect(t)
         \/ \E t \in Threads : \/ ProgramSequence(t) \/ ProgramSequenceLive(t)
                               \/ SetStepPeriod(t) \/ StartSwitching(t)
         \/ FirmwareTick
  BY Zenon DEF Step, ClientCall, ClientStep, ChangeMode, Program, Environment,
     SetMode, SetAutoFollowTarget, EnableAuto, DisableAuto, SetFrequency, SetSequence, SetFet,
     DebugStep, Manual, SetTarget, AutoTick, Acquire, PauseSilent, Pause, PauseEngine, SetPulseMode,
     Resume, Commit, ReadCycle, Anchor, TimerFires, Flush, HoldoffEnds, CurrentMoves

(* Who is inside a mode change holds the lock. *)
LEMMA HolderIsInside ==
  ASSUME CalmInv, NEW t \in Drivers, pc[t] \in ChangeLabels \cup SendLabels
  PROVE  modeLock = t
  BY Zenon DEF CalmInv, ModeInv, Driving, Inside

(* The pairs without dead time are those _set_mode_internal treats as      *)
(* transparent.                                                            *)
LEMMA SkippingIs ==
  ASSUME NEW t \in Drivers
  PROVE  TransparentPair(mode, goal[t]) <=> Skips(t)
  BY SMT DEF TransparentPair, Skips, SkipDead, SwitchingModes

(* During a seamless change neither H, nor all_off, nor C reaches the      *)
(* firmware: the first two belong to interlocked changes, C to flushes,    *)
(* which would have raced.                                                 *)
LEMMA SeamlessKeepsClosed ==
  ASSUME CalmInv, ~raced, Step, modeLock # None, TransparentPair(mode, goal[modeLock]),
         fw.pins # AllOff, ~Opens(fw.seq)
  PROVE  fw'.pins # AllOff
<1>1. FwOK(fw) /\ AllOn \in States /\ AllOn # AllOff /\ <<AllOn>> \in Cycles
  BY Zeros, SMT DEF CalmInv, ModeInv, Cycles, AllOn, AllOff, Fets
<1>2. \A i \in DOMAIN fw.seq : fw.seq[i] # AllOff
  BY DEF Opens
<1>3. ASSUME NEW t \in Drivers, ProgramAllOn(t) PROVE fw'.pins # AllOff
  <2>1. fw' = Handle(fw, [verb |-> "E", prog |-> <<AllOn>>])
    BY <1>3, Zenon DEF ProgramAllOn, Send
  <2> QED
    BY <1>1, <2>1, HandleE, ZenonT(60)
<1>4. ASSUME NEW t \in Drivers, AllOnNoHalt(t) PROVE fw'.pins # AllOff
  <2>1. fw' = Handle(fw, [verb |-> "Y", pins |-> AllOn])
    BY <1>4, Zenon DEF AllOnNoHalt, Apply, Send
  <2> QED
    BY <1>1, <2>1, HandleY, ZenonT(60)
<1>5. ASSUME NEW t \in Drivers, StopSwitching(t) \/ AllOffDeadTime(t) \/ AllOnDirect(t)
      PROVE  FALSE
  <2>1. pc[t] \in {"halt", "alloff", "allon"}
    BY <1>5, SMT DEF StopSwitching, AllOffDeadTime, AllOnDirect
  <2>2. modeLock = t
    BY <2>1, HolderIsInside, SMT DEF ChangeLabels
  <2>3. ~Skips(t)
    BY <2>1, SMT DEF CalmInv, ModeInv, Driving, Path
  <2> QED
    BY <2>2, <2>3, SkippingIs, Zenon
<1>6. ASSUME NEW t \in Threads, ProgramSequence(t) PROVE FALSE
  <2>1. pc[t] = "C" /\ pc[t] \in SendLabels
    BY <1>6, SMT DEF ProgramSequence, SendLabels
  <2>2. CASE t \in Timers
    BY <2>1, <2>2, Zenon DEF CalmInv, Calm, Flushes, Flushing
  <2>3. CASE t \in Drivers
    <3>1. modeLock = t
      BY <2>1, <2>3, HolderIsInside, Zenon
    <3>2. ~Skips(t)
      BY <2>1, <2>3, SMT DEF CalmInv, ModeInv, Driving, Path
    <3> QED
      BY <2>3, <3>1, <3>2, SkippingIs, Zenon
  <2> QED
    BY <2>2, <2>3, Zenon DEF Threads
<1>7. ASSUME NEW t \in Threads, ProgramSequenceLive(t) PROVE fw'.pins # AllOff
  <2>1. pc[t] \in SendLabels \ {"snap"}
    BY <1>7, SMT DEF ProgramSequenceLive, SendLabels
  <2>2. prog[t] \in Snapshots
    BY <2>1, Zenon DEF CalmInv, ModeInv, ThreadsOK
  <2>3. prog[t].cycle \in Cycles
    BY <2>2, Zenon DEF Snapshots, Cycles
  <2>4. fw' = Handle(fw, [verb |-> "E", prog |-> prog[t].cycle])
    BY <1>7, Zenon DEF ProgramSequenceLive, Send
  <2>5. fw'.pins = fw.pins
    BY <1>1, <2>3, <2>4, HandleE
  <2> QED
    BY <2>5
<1>8. ASSUME NEW t \in Threads, SetStepPeriod(t) \/ StartSwitching(t) PROVE fw'.pins # AllOff
  <2>1. \/ \E us : fw' = Handle(fw, [verb |-> "F", us |-> us])
        \/ fw' = Handle(fw, [verb |-> "G"])
    BY <1>8, Zenon DEF SetStepPeriod, StartSwitching, Send
  <2>2. fw'.pins = fw.pins \/ \E i \in DOMAIN fw.seq : fw'.pins = fw.seq[i]
    <3>1. CASE \E us : fw' = Handle(fw, [verb |-> "F", us |-> us])
      BY <1>1, <3>1, DrivesCycle
    <3>2. CASE fw' = Handle(fw, [verb |-> "G"])
      BY <1>1, <3>2, DrivesCycle
    <3> QED
      BY <2>1, <3>1, <3>2
  <2> QED
    BY <1>2, <2>2, Zenon
<1>9. CASE FirmwareTick
  <2>1. fw' = Tick(fw)
    BY <1>9, Zenon DEF FirmwareTick
  <2>2. fw'.pins = fw.pins \/ \E i \in DOMAIN fw.seq : fw'.pins = fw.seq[i]
    BY <1>1, <2>1, DrivesCycle
  <2> QED
    BY <1>2, <2>2, Zenon
<1> QED
  BY <1>3, <1>4, <1>5, <1>6, <1>7, <1>8, <1>9, OnlyCommandsDrive, Zenon

(* A seamless change never opens the circuit, if the loaded cycle has no   *)
(* all-off state and no flush raced: no command it sends, and no interrupt *)
(* between them, turns all FETs off.                                       *)
THEOREM SeamlessNeverOpens == Spec => NeverOpensCircuit
<1> DEFINE Closed == (/\ modeLock # None /\ modeLock' = modeLock /\ ~raced
                      /\ TransparentPair(mode, goal[modeLock])
                      /\ fw.pins # AllOff /\ ~Opens(fw.seq) /\ ~Opens(fw'.seq))
                     => fw'.pins # AllOff
<1>1. CalmInv /\ [Next]_vars => [Closed]_vars
  <2>1. SUFFICES ASSUME CalmInv, Next PROVE Closed
    OBVIOUS
  <2> QED
    BY <2>1, SeamlessKeepsClosed, Zenon DEF Next
<1>2. Spec => [][Closed]_vars
  BY <1>1, CalmInvariance, PTL DEF Spec
<1> QED
  BY <1>2 DEF NeverOpensCircuit
===============================================================================
