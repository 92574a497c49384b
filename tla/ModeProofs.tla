------------------------------ MODULE ModeProofs ------------------------------
(***************************************************************************)
(* Proofs about ModeCore for every number of clients and Timers and every  *)
(* choice of modes, sequences, step times and debug calls.                 *)
(*                                                                         *)
(* InterlockUnlessSeamless says something of the last label of a mode      *)
(* change only.  Its strengthening says who holds the mode lock (exactly the *)
(* thread inside a mode change), which labels a change that skips the dead *)
(* time may be at and which the others, and from where on an interlocked   *)
(* change has seen all FETs off.  It holds whatever the flushes send.      *)
(***************************************************************************)
EXTENDS ModeCore, TLAPS

(* The cycles the server sends, and the periods; a cycle is never empty. *)
Cycles  == Programs \cup {<<AllOn>>}
Periods == {s.us : s \in Snapshots}

IsCycle(p) == /\ p # <<>> /\ Len(p) \in {1, 2, 4} /\ DOMAIN p = 1..Len(p)
              /\ \A k \in 1..Len(p) : p[k] \in States

(* A function on 1..n is a sequence of length n. *)
LEMMA FunctionIsSequence ==
  ASSUME NEW n \in Nat, NEW p \in [1..n -> States]
  PROVE  p \in Seq(States) /\ Len(p) = n
  BY SMT

(* STATE_DEFS lists sets of FETs. *)
LEMMA StatesAre == \A i \in 0..5 : STATE_DEFS[i] \in States
  BY SMT DEF STATE_DEFS, States, Fets, AllOn, AllOff

(* Four indices pack to a cycle of four states. *)
LEMMA PackedFour ==
  ASSUME NEW a \in 0..5, NEW b \in 0..5, NEW c \in 0..5, NEW d \in 0..5
  PROVE  IsCycle(Packed(<<a, b, c, d>>)) /\ Len(Packed(<<a, b, c, d>>)) = 4
<1>1. PICK p : p = Packed(<<a, b, c, d>>)
  OBVIOUS
<1>2. <<a, b, c, d>> \in [1..4 -> 0..5]
  BY SMT
<1>3. PICK q \in [1..4 -> 0..5] : q = <<a, b, c, d>>
  BY <1>2
<1>4. p \in [1..4 -> States]
  BY <1>1, <1>3, StatesAre, SMT DEF Packed
<1>5. Len(p) = 4
  BY <1>4, FunctionIsSequence, SMT
<1>6. DOMAIN p = 1..4 /\ p # <<>> /\ \A k \in 1..4 : p[k] \in States
  BY <1>4, <1>5, SMT
<1> QED
  BY <1>1, <1>5, <1>6, Zenon DEF IsCycle

(* Two indices pack to a cycle of two states. *)
LEMMA PackedTwo ==
  ASSUME NEW a \in 0..5, NEW b \in 0..5
  PROVE  IsCycle(Packed(<<a, b>>)) /\ Len(Packed(<<a, b>>)) = 2
<1>1. PICK p : p = Packed(<<a, b>>)
  OBVIOUS
<1>2. <<a, b>> \in [1..2 -> 0..5]
  BY SMT
<1>3. PICK q \in [1..2 -> 0..5] : q = <<a, b>>
  BY <1>2
<1>4. p \in [1..2 -> States]
  BY <1>1, <1>3, StatesAre, SMT DEF Packed
<1>5. Len(p) = 2
  BY <1>4, FunctionIsSequence, SMT
<1>6. DOMAIN p = 1..2 /\ p # <<>> /\ \A k \in 1..2 : p[k] \in States
  BY <1>4, <1>5, SMT
<1> QED
  BY <1>1, <1>5, <1>6, Zenon DEF IsCycle

(* Every entry of SEQUENCES is four indices into STATE_DEFS. *)
LEMMA SequenceShape ==
  \A i \in 0..7 : \E a, b, c, d \in 0..5 : SEQUENCES[i] = <<a, b, c, d>>
<1>0. SUFFICES ASSUME NEW i \in 0..7
      PROVE  \E a, b, c, d \in 0..5 : SEQUENCES[i] = <<a, b, c, d>>
  OBVIOUS
<1>1. \A j \in {0, 1, 2, 3, 4, 5} : j \in 0..5
  BY SMT
<1>2. CASE i = 0
  <2>1. SEQUENCES[i] = <<5, 5, 5, 5>>
    BY <1>2, SMT DEF SEQUENCES
  <2> QED
    BY <1>1, <2>1, Zenon
<1>3. CASE i = 1
  <2>1. SEQUENCES[i] = <<0, 1, 2, 3>>
    BY <1>3, SMT DEF SEQUENCES
  <2> QED
    BY <1>1, <2>1, Zenon
<1>4. CASE i = 2
  <2>1. SEQUENCES[i] = <<0, 1, 3, 2>>
    BY <1>4, SMT DEF SEQUENCES
  <2> QED
    BY <1>1, <2>1, Zenon
<1>5. CASE i = 3
  <2>1. SEQUENCES[i] = <<0, 2, 1, 3>>
    BY <1>5, SMT DEF SEQUENCES
  <2> QED
    BY <1>1, <2>1, Zenon
<1>6. CASE i = 4
  <2>1. SEQUENCES[i] = <<0, 2, 3, 1>>
    BY <1>6, SMT DEF SEQUENCES
  <2> QED
    BY <1>1, <2>1, Zenon
<1>7. CASE i = 5
  <2>1. SEQUENCES[i] = <<0, 3, 1, 2>>
    BY <1>7, SMT DEF SEQUENCES
  <2> QED
    BY <1>1, <2>1, Zenon
<1>8. CASE i = 6
  <2>1. SEQUENCES[i] = <<0, 3, 2, 1>>
    BY <1>8, SMT DEF SEQUENCES
  <2> QED
    BY <1>1, <2>1, Zenon
<1>9. CASE i = 7
  <2>1. SEQUENCES[i] = <<4, 4, 4, 4>>
    BY <1>9, SMT DEF SEQUENCES
  <2> QED
    BY <1>1, <2>1, Zenon
<1>10. i \in {0, 1, 2, 3, 4, 5, 6, 7}
  BY SMT
<1> QED
  BY <1>2, <1>3, <1>4, <1>5, <1>6, <1>7, <1>8, <1>9, <1>10

(* So every entry of SEQUENCES packs to a cycle of four states. *)
LEMMA SequencesAre ==
  ASSUME NEW i \in 0..7
  PROVE  IsCycle(Packed(SEQUENCES[i])) /\ Len(Packed(SEQUENCES[i])) = 4
<1>1. PICK a \in 0..5, b \in 0..5, c \in 0..5, d \in 0..5 : SEQUENCES[i] = <<a, b, c, d>>
  BY SequenceShape, Zenon
<1>2. IsCycle(Packed(<<a, b, c, d>>)) /\ Len(Packed(<<a, b, c, d>>)) = 4
  BY PackedFour, Zenon
<1> QED
  BY <1>1, <1>2, Zenon

(* Every cycle the server ever sends has 1, 2 or 4 states, the engine's    *)
(* own 2 or 4.                                                             *)
LEMMA CyclesAre ==
  /\ \A p \in Cycles : IsCycle(p)
  /\ \A p \in Programs : Len(p) \in {2, 4}
<1>1. \A i \in 0..7 : IsCycle(Packed(SEQUENCES[i])) /\ Len(Packed(SEQUENCES[i])) = 4
  BY SequencesAre, Zenon
<1>2. IsCycle(Packed(PULSE_CHARGE_SEQUENCE)) /\ Len(Packed(PULSE_CHARGE_SEQUENCE)) = 2
  BY PackedTwo, SMT DEF PULSE_CHARGE_SEQUENCE
<1>3. IsCycle(<<AllOn>>)
  BY SMT DEF IsCycle, AllOn, States
<1>4. \A i \in SequencePicks \cup {0} : i \in 0..7
  BY PicksAssumption, SMT DEF PicksAreLegal, SEQUENCES
<1>5. \A p \in Programs : IsCycle(p) /\ Len(p) \in {2, 4}
  BY <1>1, <1>2, <1>4, SMT DEF Programs
<1> QED
  BY <1>3, <1>5, Zenon DEF Cycles

(* The firmware's core, as far as the server's commands can bring it. *)
FwType == [pins : States, seq : Cycles \cup {<<>>}, idx : 0..3, period : {0} \cup Periods,
           running : BOOLEAN]

FwOK(f) == /\ f \in FwType
           /\ IF f.seq = <<>> THEN f.idx = 0 ELSE f.idx < Len(f.seq)

(* The values a boot and a halt give to the fields are in their types. *)
LEMMA Zeros == 0 \in 0..3 /\ AllOff \in States /\ AllOn \in States /\ 0 \in {0} \cup Periods
  BY SMT DEF AllOff, AllOn, States

(* The fields of a typed core are typed. *)
LEMMA FwFields ==
  ASSUME NEW f \in FwType
  PROVE  /\ f.pins \in States /\ f.seq \in Cycles \cup {<<>>} /\ f.idx \in 0..3
         /\ f.period \in {0} \cup Periods /\ f.running \in BOOLEAN
  BY Zenon DEF FwType

(* While a cycle is loaded the index points into it; the all-on cycle has  *)
(* one state.                                                              *)
LEMMA CycleFacts ==
  ASSUME NEW f, FwOK(f)
  PROVE  /\ f.seq # <<>> => /\ Len(f.seq) \in {1, 2, 4} /\ f.idx + 1 \in 1..Len(f.seq)
                            /\ \A k \in 1..Len(f.seq) : f.seq[k] \in States
         /\ f.seq = <<AllOn>> => f.seq # <<>> /\ Len(f.seq) = 1 /\ f.seq[1] = AllOn
<1>1. f.seq # <<>> => IsCycle(f.seq)
  BY FwFields, CyclesAre, Zenon DEF FwOK
<1>2. f.idx \in 0..3
  BY FwFields DEF FwOK
<1>3. ASSUME f.seq # <<>>
      PROVE  /\ Len(f.seq) \in {1, 2, 4} /\ f.idx + 1 \in 1..Len(f.seq)
             /\ \A k \in 1..Len(f.seq) : f.seq[k] \in States
  <2>1. /\ Len(f.seq) \in {1, 2, 4} /\ f.idx < Len(f.seq)
        /\ \A k \in 1..Len(f.seq) : f.seq[k] \in States
    BY <1>1, <1>3, Zenon DEF IsCycle, FwOK
  <2> QED
    BY <1>2, <2>1, SMT
<1>4. ASSUME f.seq = <<AllOn>>
      PROVE  f.seq # <<>> /\ Len(f.seq) = 1 /\ f.seq[1] = AllOn
  BY <1>4, SMT
<1> QED
  BY <1>3, <1>4, Zenon

(* S drives the pins and stops the timer; the loaded cycle stays. *)
LEMMA HandleS ==
  ASSUME NEW f, FwOK(f), NEW p \in States, NEW g, g = Handle(f, [verb |-> "S", pins |-> p])
  PROVE  /\ FwOK(g) /\ g.pins = p /\ ~g.running
         /\ g.seq = f.seq /\ g.idx = f.idx /\ g.period = f.period
<1>1. /\ g \in FwType /\ g.pins = p /\ ~g.running
      /\ g.seq = f.seq /\ g.idx = f.idx /\ g.period = f.period
  BY Zenon DEF FwOK, FwType, Handle, SetDirect
<1> QED
  BY <1>1, Zenon DEF FwOK

(* Y drives the pins and leaves the timer and the cycle alone. *)
LEMMA HandleY ==
  ASSUME NEW f, FwOK(f), NEW p \in States, NEW g, g = Handle(f, [verb |-> "Y", pins |-> p])
  PROVE  /\ FwOK(g) /\ g.pins = p /\ g.running = f.running
         /\ g.seq = f.seq /\ g.idx = f.idx /\ g.period = f.period
<1>1. /\ g \in FwType /\ g.pins = p /\ g.running = f.running
      /\ g.seq = f.seq /\ g.idx = f.idx /\ g.period = f.period
  BY Zenon DEF FwOK, FwType, Handle, SetDirectNoHalt
<1> QED
  BY <1>1, Zenon DEF FwOK

(* H turns all pins off and stops the timer; the loaded cycle stays. *)
LEMMA HandleH ==
  ASSUME NEW f, FwOK(f), NEW g, g = Handle(f, [verb |-> "H"])
  PROVE  /\ FwOK(g) /\ g.pins = AllOff /\ ~g.running
         /\ g.seq = f.seq /\ g.idx = f.idx /\ g.period = f.period
<1>1. /\ g \in FwType /\ g.pins = AllOff /\ ~g.running
      /\ g.seq = f.seq /\ g.idx = f.idx /\ g.period = f.period
  BY Zeros, Zenon DEF FwOK, FwType, Handle, Halt
<1> QED
  BY <1>1, Zenon DEF FwOK

(* C stops the timer, darkens the pins, loads the cycle and rewinds it. *)
LEMMA HandleC ==
  ASSUME NEW f, FwOK(f), NEW p \in Cycles, NEW g, g = Handle(f, [verb |-> "C", prog |-> p])
  PROVE  /\ FwOK(g) /\ g.pins = AllOff /\ ~g.running
         /\ g.seq = p /\ g.idx = 0 /\ g.period = f.period
<1>1. /\ g \in FwType /\ g.pins = AllOff /\ ~g.running
      /\ g.seq = p /\ g.idx = 0 /\ g.period = f.period
  BY Zeros, Zenon DEF FwOK, FwType, Handle, ProgramCycle, Halt
<1>2. p # <<>> /\ Len(p) \in {1, 2, 4}
  BY CyclesAre DEF IsCycle
<1> QED
  BY <1>1, <1>2, SMT DEF FwOK

(* E swaps the cycle and touches neither the pins nor the timer. *)
LEMMA HandleE ==
  ASSUME NEW f, FwOK(f), NEW p \in Cycles, NEW g, g = Handle(f, [verb |-> "E", prog |-> p])
  PROVE  /\ FwOK(g) /\ g.pins = f.pins /\ g.running = f.running
         /\ g.seq = p /\ g.period = f.period
<1>1. PICK i : i = IF f.idx >= Len(p) THEN 0 ELSE f.idx
  OBVIOUS
<1>2. p # <<>> /\ Len(p) \in {1, 2, 4}
  BY CyclesAre DEF IsCycle
<1>3. f.idx \in 0..3
  BY FwFields DEF FwOK
<1>4. i \in 0..3 /\ i < Len(p)
  BY <1>1, <1>2, <1>3, SMT
<1>5. /\ g \in FwType /\ g.pins = f.pins /\ g.running = f.running
      /\ g.seq = p /\ g.period = f.period /\ g.idx = i
  BY <1>1, <1>4, Zenon DEF FwOK, FwType, Handle, ProgramCycleLive
<1> QED
  BY <1>2, <1>4, <1>5, Zenon DEF FwOK

(* F sets the period; pins only move when the timer runs. *)
LEMMA HandleF ==
  ASSUME NEW f, FwOK(f), NEW us \in Periods, NEW g, g = Handle(f, [verb |-> "F", us |-> us])
  PROVE  /\ FwOK(g) /\ g.period = us /\ g.running = f.running
         /\ g.seq = f.seq /\ g.idx = f.idx
         /\ ~f.running => g.pins = f.pins
<1>1. f.seq # <<>> => f.seq[f.idx + 1] \in States
  BY CycleFacts
<1>2. PICK h : h = [f EXCEPT !.period = us]
  OBVIOUS
<1>3. /\ h \in FwType /\ h.pins = f.pins /\ h.seq = f.seq /\ h.idx = f.idx /\ h.period = us
      /\ h.running = f.running
  BY <1>2, Zenon DEF FwOK, FwType
<1>4. CASE ~f.running \/ ~CanStart(h)
  <2>1. g = h
    BY <1>2, <1>4, Zenon DEF Handle, SetPeriod, Start
  <2> QED
    BY <1>3, <2>1, Zenon DEF FwOK
<1>5. CASE f.running /\ CanStart(h)
  <2>1. g = [h EXCEPT !.pins = h.seq[h.idx + 1], !.running = TRUE]
    BY <1>2, <1>5, Zenon DEF Handle, SetPeriod, Start
  <2>2. h.seq[h.idx + 1] \in States
    BY <1>1, <1>3, <1>5, Zenon DEF CanStart
  <2>3. g \in FwType /\ g.seq = f.seq /\ g.idx = f.idx /\ g.period = us /\ g.running
    BY <1>3, <2>1, <2>2, Zenon DEF FwType
  <2> QED
    BY <1>5, <2>3, Zenon DEF FwOK
<1> QED
  BY <1>4, <1>5

(* G runs a loaded cycle whose period is set, from where the index stands. *)
LEMMA HandleG ==
  ASSUME NEW f, FwOK(f), NEW g, g = Handle(f, [verb |-> "G"])
  PROVE  /\ FwOK(g) /\ g.seq = f.seq /\ g.idx = f.idx /\ g.period = f.period
         /\ f.seq # <<>> /\ f.period # 0 => g.running
<1>1. CASE ~CanStart(f)
  BY <1>1, Zenon DEF Handle, Start, CanStart
<1>2. CASE CanStart(f)
  <2>1. g = [f EXCEPT !.pins = f.seq[f.idx + 1], !.running = TRUE]
    BY <1>2, Zenon DEF Handle, Start
  <2>2. f.seq[f.idx + 1] \in States
    BY <1>2, CycleFacts DEF CanStart
  <2>3. g \in FwType /\ g.seq = f.seq /\ g.idx = f.idx /\ g.period = f.period /\ g.running
    BY <2>1, <2>2, Zenon DEF FwOK, FwType
  <2> QED
    BY <2>3, Zenon DEF FwOK
<1> QED
  BY <1>1, <1>2

(* The next index of a cycle is an index of it. *)
LEMMA NextIsIn ==
  ASSUME NEW n \in Nat, n \in {1, 2, 4}, NEW j \in 0..3, j < n
  PROVE  NextIdx(j, n) \in 0..3 /\ NextIdx(j, n) < n
<1>1. CASE j + 1 >= n
  BY <1>1, SMT DEF NextIdx
<1>2. CASE ~(j + 1 >= n)
  BY <1>2, SMT DEF NextIdx
<1> QED
  BY <1>1, <1>2

(* An interrupt moves the index one on; under the all-on cycle it drives   *)
(* AllOn.                                                                  *)
LEMMA TickKeeps ==
  ASSUME NEW f, FwOK(f), f.running, NEW g, g = Tick(f)
  PROVE  /\ FwOK(g) /\ g.running /\ g.seq = f.seq /\ g.period = f.period
         /\ f.seq # <<>> => g.idx = NextIdx(f.idx, Len(f.seq))
         /\ f.seq = <<AllOn>> => g.pins = AllOn
<1>1. CASE f.seq = <<>>
  <2>1. g = f
    BY <1>1, Zenon DEF Tick, Advance
  <2>2. f.seq # <<AllOn>>
    BY <1>1, CycleFacts
  <2> QED
    BY <1>1, <2>1, <2>2
<1>2. CASE f.seq # <<>>
  <2>1. PICK n \in Nat : n = Len(f.seq) /\ n \in {1, 2, 4}
    BY <1>2, CycleFacts
  <2>2. f.idx \in 0..3 /\ f.idx < n
    BY <1>2, <2>1, FwFields, Zenon DEF FwOK
  <2>3. PICK i \in 0..3 : i = NextIdx(f.idx, n) /\ i < n
    BY <2>1, <2>2, NextIsIn, Zenon
  <2>4. g = [f EXCEPT !.idx = i, !.pins = f.seq[i + 1]]
    BY <1>2, <2>1, <2>3, Zenon DEF Tick, Advance
  <2>5. f.seq[i + 1] \in States
    BY <1>2, <2>1, <2>3, CycleFacts
  <2>6. f.seq = <<AllOn>> => i + 1 = 1 /\ f.seq[1] = AllOn
    BY <2>1, <2>3, CycleFacts
  <2>7. /\ g \in FwType /\ g.seq = f.seq /\ g.idx = i /\ g.period = f.period
        /\ g.running = f.running /\ g.pins = f.seq[i + 1]
    BY <2>4, <2>5, Zenon DEF FwOK, FwType
  <2>8. FwOK(g)
    BY <1>2, <2>1, <2>3, <2>7, Zenon DEF FwOK
  <2> QED
    BY <2>1, <2>3, <2>6, <2>7, <2>8, Zenon
<1> QED
  BY <1>1, <1>2

-----------------------------------------------------------------------------
(* The labels inside _set_mode_internal and outside of it. *)
ChangeLabels == {"allon_E", "allon_Y", "silent", "pause", "halt", "alloff", "allon",
                 "setpulse", "resume", "commit"}
OutsideLabels == {"ready", "manual", "target", "acquire"}

(* Types: the server's fields, the threads, the histories. *)
ServerOK ==
  /\ fets \in States
  /\ mode \in Modes /\ modeLock \in Drivers \cup {None} /\ debugStep \in {0 - 1} \cup 0..4
  /\ engine \in [paused : BOOLEAN, pulse : BOOLEAN, sequence : SequencePicks \cup {0},
                 stepTime : StepTimes, pending : BOOLEAN]
  /\ flushTimer \in Timers \cup {None}
  /\ af \in [enabled : BOOLEAN, active : BOOLEAN, target : SwitchingModes]
  /\ holdoff \in BOOLEAN /\ current \in Levels /\ label \in 0..3

ThreadsOK ==
  /\ pc \in [Threads -> OutsideLabels \cup ChangeLabels \cup SendLabels \cup TimerLabels]
  /\ \A t \in Drivers : pc[t] \in OutsideLabels \cup ChangeLabels \cup SendLabels
  /\ \A t \in Timers : pc[t] \in TimerLabels \cup SendLabels
  /\ goal \in [Threads -> Modes \cup {None}]
  /\ prog \in [Threads -> Snapshots \cup {None}]
  /\ \A t \in Threads : pc[t] \in SendLabels \ {"snap"} => prog[t] \in Snapshots
  /\ since \in [Threads -> 0..3]

HistoryOK == dark \in BOOLEAN /\ rewound \in BOOLEAN /\ raced \in BOOLEAN

(* A driver is inside a mode change exactly while it holds the lock; its   *)
(* goal is a mode, and another than the one it changes from.               *)
Inside(s) == pc[s] \in ChangeLabels \cup SendLabels

Aims(s) ==
  /\ pc[s] # "ready" => goal[s] \in Modes
  /\ pc[s] = "target" => goal[s] \in SwitchingModes
  /\ modeLock = s => goal[s] # mode

Skips(s) == SkipDead(mode, goal[s])

(* The way of a seamless change, and that of an interlocked one. *)
Path(s) ==
  /\ pc[s] \in {"allon_E", "allon_Y", "silent"} => Skips(s) /\ goal[s] = "discharge"
  /\ pc[s] \in {"pause", "halt", "alloff", "allon", "C"} => ~Skips(s)
  /\ pc[s] = "allon" => goal[s] = "discharge"
  /\ pc[s] \in {"setpulse", "resume"} \cup SendLabels => goal[s] \in SwitchingModes
  /\ pc[s] = "E" => Skips(s)

(* Past all_off an interlocked change has been dark. *)
Darkened(s) ==
  pc[s] \in {"allon", "setpulse", "resume", "commit"} \cup SendLabels /\ ~Skips(s) => dark

Driving(s) == (Inside(s) <=> modeLock = s) /\ Aims(s) /\ Path(s) /\ Darkened(s)

(* The inductive invariant. *)
ModeInv ==
  FwOK(fw) /\ ServerOK /\ ThreadsOK /\ HistoryOK /\ \A s \in Drivers : Driving(s)

(* The parts of the invariant that are about types give TypeOK. *)
LEMMA TypeParts == FwOK(fw) /\ ServerOK /\ ThreadsOK /\ HistoryOK => TypeOK
<1>1. FwOK(fw) => fw \in [pins : States, seq : Programs \cup {<<>>, <<AllOn>>}, idx : 0..3,
             period : {0} \cup {s.us : s \in Snapshots}, running : BOOLEAN]
  <2>1. Cycles \cup {<<>>} = Programs \cup {<<>>, <<AllOn>>}
    BY Zenon DEF Cycles
  <2> QED
    BY <2>1, Zenon DEF FwOK, FwType, Periods
<1>2. OutsideLabels \cup ChangeLabels \subseteq DriverLabels
  BY SMT DEF OutsideLabels, ChangeLabels, DriverLabels
<1> QED
  BY <1>1, <1>2, SMT DEF TypeOK, ServerOK, ThreadsOK, HistoryOK

(* A thread is a driver or a Timer and never both; None is no thread and   *)
(* no mode.                                                                *)
LEMMA ThreadsAre ==
  /\ \A t \in Drivers : t \in Threads /\ t \notin Timers /\ t # None
  /\ \A t \in Timers : t \in Threads /\ t \notin Drivers /\ t # None
  /\ \A c \in Clients : c \in Drivers
  /\ AutoLoop \in Drivers
  /\ None \notin Modes
<1>1. "auto" \notin Timers /\ None # "auto" /\ None \notin Modes
  BY ThreadsAssumption, Zenon DEF ThreadsDiffer
<1>2. \A t \in Timers : t \notin Clients /\ t # None
  BY ThreadsAssumption, Zenon DEF ThreadsDiffer
<1>3. \A t \in Clients : t # None
  BY ThreadsAssumption, Zenon DEF ThreadsDiffer
<1>4. \A t : t \in Drivers <=> t \in Clients \/ t = "auto"
  BY SMT DEF Drivers, AutoLoop
<1>5. \A t : t \in Threads <=> t \in Drivers \/ t \in Timers
  BY SMT DEF Threads
<1>6. AutoLoop = "auto"
  BY DEF AutoLoop
<1> QED
  BY <1>1, <1>2, <1>3, <1>4, <1>5, <1>6, Zenon

(* A step that leaves a driver, its goal and the mode alone keeps what     *)
(* holds of it.                                                            *)
LEMMA Others ==
  ASSUME NEW s \in Drivers, Driving(s), pc'[s] = pc[s], goal'[s] = goal[s],
         mode' = mode, modeLock' = modeLock, dark => dark'
  PROVE  Driving(s)'
  BY SMT DEF Driving, Inside, Aims, Path, Darkened, Skips, SkipDead

(* A thread that does not hold the mode lock. *)
LEMMA Outsider ==
  ASSUME NEW s \in Drivers, Driving(s), ThreadsOK, modeLock # s, pc'[s] = pc[s],
         goal'[s] = goal[s], modeLock' # s
  PROVE  Driving(s)'
<1>1. pc[s] \in OutsideLabels
  BY SMT DEF Driving, Inside, ThreadsOK
<1> QED
  BY <1>1, SMT DEF Driving, Inside, Aims, Path, Darkened, OutsideLabels, ChangeLabels, SendLabels

(* Cancelling a flush frees at most a waiting Timer and touches no driver. *)
LEMMA CancelledIs ==
  ASSUME ThreadsOK, ServerOK
  PROVE  /\ Cancelled \in [Threads -> OutsideLabels \cup ChangeLabels \cup SendLabels \cup TimerLabels]
         /\ \A s \in Drivers : Cancelled[s] = pc[s]
         /\ \A s \in Timers : \/ Cancelled[s] = pc[s]
                              \/ pc[s] = "waiting" /\ Cancelled[s] = "free"
<1>1. CASE Cancelled = pc
  BY <1>1, SMT DEF ThreadsOK
<1>2. CASE flushTimer \in Timers /\ pc[flushTimer] = "waiting" /\ Cancelled = [pc EXCEPT ![flushTimer] = "free"]
  <2>1. "free" \in TimerLabels
    BY SMT DEF TimerLabels
  <2> QED
    BY <1>2, <2>1, ThreadsAre, SMT DEF ThreadsOK
<1> QED
  BY <1>1, <1>2, Zenon DEF Cancelled, ServerOK

(* The calls and decisions that take no lock of the ModeController. *)
Rest == <<fw, fets, mode, modeLock, debugStep, engine, flushTimer, current, prog, since, label,
          dark, rewound>>

(* The driver t goes to l with the goal m, both outside the mode lock. *)
Outward(t, l, m) ==
  /\ pc[t] \in OutsideLabels /\ l \in OutsideLabels /\ m \in Modes \cup {None}
  /\ l # "ready" => m \in Modes
  /\ l = "target" => m \in SwitchingModes
  /\ pc' = [pc EXCEPT ![t] = l] /\ goal' = [goal EXCEPT ![t] = m]
  /\ af' \in [enabled : BOOLEAN, active : BOOLEAN, target : SwitchingModes]
  /\ holdoff' \in BOOLEAN /\ UNCHANGED Rest

(* A step of one driver among the labels outside the mode lock keeps the   *)
(* invariant.                                                              *)
LEMMA OutsideStep ==
  ASSUME ModeInv, NEW t \in Drivers, NEW l, NEW m, Outward(t, l, m), raced' \in BOOLEAN
  PROVE  ModeInv'
<1>1. FwOK(fw)' /\ ServerOK' /\ HistoryOK'
  BY SMT DEF ModeInv, ServerOK, HistoryOK, FwOK, Outward, Rest
<1>2. ThreadsOK'
  BY ThreadsAre, SMT DEF ModeInv, ThreadsOK, OutsideLabels, SendLabels, Outward, Rest
<1>3. Driving(t)'
  <2>1. pc'[t] = l /\ goal'[t] = m
    BY ThreadsAre, SMT DEF ModeInv, ThreadsOK, Outward
  <2>2. modeLock # t
    BY SMT DEF ModeInv, Driving, Inside, OutsideLabels, ChangeLabels, SendLabels, Outward
  <2> QED
    BY <2>1, <2>2, SMT DEF Driving, Inside, Aims, Path, Darkened, OutsideLabels, ChangeLabels,
                           SendLabels, Outward, Rest
<1>4. ASSUME NEW s \in Drivers, s # t PROVE Driving(s)'
  <2>1. pc'[s] = pc[s] /\ goal'[s] = goal[s]
    BY <1>4, ThreadsAre, SMT DEF ModeInv, ThreadsOK, Outward
  <2>2. mode' = mode /\ modeLock' = modeLock /\ dark' = dark
    BY DEF Outward, Rest
  <2> QED
    BY <2>1, <2>2, Others, Zenon DEF ModeInv
<1> QED
  BY <1>1, <1>2, <1>3, <1>4, Zenon DEF ModeInv

(* One thread moves; a Timer may be cancelled or started on the way. *)
Labels == OutsideLabels \cup ChangeLabels \cup SendLabels

Moved(t, l) ==
  /\ pc' \in [Threads -> Labels \cup TimerLabels]
  /\ pc'[t] = l
  /\ \A s \in Drivers \ {t} : pc'[s] = pc[s]
  /\ \A s \in Timers \ {t} : pc'[s] = pc[s] \/ pc'[s] \in {"free", "waiting"}

(* Goto moves one thread. *)
LEMMA GotoMoves ==
  ASSUME ModeInv, NEW t \in Threads, NEW l \in Labels \cup TimerLabels, Goto(t, l)
  PROVE  Moved(t, l)
  BY ThreadsAre, SMT DEF ModeInv, ThreadsOK, Goto, Moved, Labels

(* So do the forms of pc' with a cancelled, or a new, Timer. *)
LEMMA CancelMoves ==
  ASSUME ModeInv, NEW t \in Drivers, NEW l \in Labels,
         \/ pc' = [Cancelled EXCEPT ![t] = l]
         \/ \E f \in Timers : pc' = [Cancelled EXCEPT ![f] = "waiting", ![t] = l]
  PROVE  Moved(t, l)
<1>1. /\ Cancelled \in [Threads -> Labels \cup TimerLabels]
      /\ \A s \in Drivers : Cancelled[s] = pc[s]
      /\ \A s \in Timers : Cancelled[s] = pc[s] \/ Cancelled[s] = "free"
  BY CancelledIs, Zenon DEF ModeInv, Labels
<1>2. CASE pc' = [Cancelled EXCEPT ![t] = l]
  BY <1>1, <1>2, ThreadsAre, SMT DEF Moved
<1>3. ASSUME NEW f \in Timers, pc' = [Cancelled EXCEPT ![f] = "waiting", ![t] = l]
      PROVE  Moved(t, l)
  <2>1. "waiting" \in TimerLabels
    BY SMT DEF TimerLabels
  <2> QED
    BY <1>1, <1>3, <2>1, ThreadsAre, SMT DEF Moved
<1> QED
  BY <1>2, <1>3

(* A step that moves one thread and leaves mode and lock alone keeps the   *)
(* invariant, if what that thread must satisfy holds afterwards.           *)
LEMMA ThreadMoves ==
  ASSUME ModeInv, NEW t \in Threads, NEW l, Moved(t, l),
         t \in Drivers => l \in Labels /\ Driving(t)',
         t \in Timers => l \in TimerLabels \cup SendLabels,
         UNCHANGED <<goal, mode, modeLock>>, dark => dark',
         prog' \in [Threads -> Snapshots \cup {None}],
         \A s \in Threads \ {t} : prog'[s] = prog[s],
         l \in SendLabels \ {"snap"} => prog'[t] \in Snapshots,
         since' \in [Threads -> 0..3],
         FwOK(fw)', ServerOK', HistoryOK'
  PROVE  ModeInv'
<1>1. ThreadsOK'
  <2>1. pc' \in [Threads -> OutsideLabels \cup ChangeLabels \cup SendLabels \cup TimerLabels]
    BY SMT DEF Moved, Labels
  <2>2. \A s \in Drivers : pc'[s] \in OutsideLabels \cup ChangeLabels \cup SendLabels
    BY SMT DEF ModeInv, ThreadsOK, Moved, Labels
  <2>3. \A s \in Timers : pc'[s] \in TimerLabels \cup SendLabels
    BY SMT DEF ModeInv, ThreadsOK, Moved, TimerLabels
  <2>4. \A s \in Threads : pc'[s] \in SendLabels \ {"snap"} => prog'[s] \in Snapshots
    <3>1. \A s \in Threads \ {t} : pc'[s] = pc[s] \/ pc'[s] \in {"free", "waiting"}
      BY SMT DEF Moved, Threads
    <3>2. "free" \notin SendLabels /\ "waiting" \notin SendLabels
      BY SMT DEF SendLabels
    <3>3. pc'[t] = l
      BY DEF Moved
    <3> QED
      BY <3>1, <3>2, <3>3, Zenon DEF ModeInv, ThreadsOK
  <2>5. goal' \in [Threads -> Modes \cup {None}]
    BY Zenon DEF ModeInv, ThreadsOK
  <2> QED
    BY <2>1, <2>2, <2>3, <2>4, <2>5, Zenon DEF ThreadsOK
<1>2. ASSUME NEW s \in Drivers, s # t PROVE Driving(s)'
  <2>1. pc'[s] = pc[s] /\ goal'[s] = goal[s] /\ mode' = mode /\ modeLock' = modeLock
    BY <1>2, Zenon DEF Moved
  <2> QED
    BY <2>1, Others, Zenon DEF ModeInv
<1> QED
  BY <1>1, <1>2, Zenon DEF ModeInv

(* One serial command, by a mode change or by a flush. *)
LEMMA CommandKeeps ==
  ASSUME ModeInv, NEW t \in Threads, NEW c, NEW l, Send(t, c, l),
         t \in Drivers => l \in Labels /\ Driving(t)',
         t \in Timers => l \in SendLabels,
         UNCHANGED <<mode, modeLock, engine, flushTimer, afVars, goal, prog, label>>,
         l \in SendLabels \ {"snap"} => prog[t] \in Snapshots,
         since' \in [Threads -> 0..3], fets' \in States, debugStep' \in {0 - 1} \cup 0..4,
         FwOK(fw'), c.verb \in {"S", "Y", "C", "E", "F", "G", "H"}, raced' \in BOOLEAN
  PROVE  ModeInv'
<1>1. Moved(t, l)
  BY GotoMoves, SMT DEF Send, Labels, Threads
<1>2. ServerOK'
  BY SMT DEF ModeInv, ServerOK, afVars
<1>3. dark' = (dark \/ fw'.pins = AllOff) /\ rewound' = (c.verb = "C" \/ (rewound /\ c.verb # "E"))
  BY Zenon DEF Send
<1>4. HistoryOK' /\ (dark => dark')
  BY <1>3, SMT DEF HistoryOK, ModeInv
<1>5. FwOK(fw)' /\ prog' = prog /\ prog \in [Threads -> Snapshots \cup {None}]
  BY Zenon DEF ModeInv, ThreadsOK
<1> QED
  BY <1>1, <1>2, <1>4, <1>5, ThreadMoves, Zenon

-----------------------------------------------------------------------------
(* The calls and decisions outside the mode lock. *)
LEMMA ModeNames == "discharge" \in Modes /\ \A m \in SwitchingModes : m \in Modes
  BY SMT DEF SwitchingModes, Modes

(* The calls of a client that only decide and set auto-follow's fields     *)
(* keep it.                                                                *)
LEMMA ClientCallKeeps ==
  ASSUME ModeInv, NEW c \in Clients, raced' \in BOOLEAN,
         \/ \E m \in ModePicks : SetMode(c, m)
         \/ Manual(c)
         \/ SetTarget(c)
         \/ \E m \in SwitchingModes : SetAutoFollowTarget(c, m)
         \/ EnableAuto(c)
  PROVE  ModeInv'
<1>1. c \in Drivers
  BY ThreadsAre
<1>2. af \in [enabled : BOOLEAN, active : BOOLEAN, target : SwitchingModes] /\ holdoff \in BOOLEAN
  BY DEF ModeInv, ServerOK
<1>3. goal \in [Threads -> Modes \cup {None}] /\ Aims(c)
  BY <1>1, Zenon DEF ModeInv, ThreadsOK, Driving
<1>4. goal = [goal EXCEPT ![c] = goal[c]] /\ goal[c] \in Modes \cup {None}
  BY <1>1, <1>3, ThreadsAre, SMT
<1>5. ASSUME NEW m \in ModePicks, SetMode(c, m) PROVE ModeInv'
  <2>1. PICK l : l = IF af.enabled /\ m \in SwitchingModes THEN "target" ELSE "manual"
    OBVIOUS
  <2>2. UNCHANGED Rest /\ UNCHANGED <<af, holdoff>>
    BY <1>5, Zenon DEF SetMode, Rest, modeVars, afVars, history
  <2>3. m \in Modes
    BY PicksAssumption DEF PicksAreLegal
  <2>4. Outward(c, l, m)
    BY <1>2, <1>5, <2>1, <2>2, <2>3, SMT DEF SetMode, Goto, Outward, OutsideLabels
  <2> QED
    BY <1>1, <2>4, OutsideStep, Zenon
<1>6. ASSUME Manual(c) PROVE ModeInv'
  <2>1. af' \in [enabled : BOOLEAN, active : BOOLEAN, target : SwitchingModes]
    BY <1>2, <1>6, Zenon DEF Manual
  <2>2. UNCHANGED Rest /\ UNCHANGED <<goal, holdoff>>
    BY <1>6, Zenon DEF Manual, Rest, modeVars, history
  <2>3. Outward(c, "acquire", goal[c])
    BY <1>2, <1>3, <1>4, <1>6, <2>1, <2>2, SMT DEF Manual, Goto, Outward, OutsideLabels, Aims
  <2> QED
    BY <1>1, <2>3, OutsideStep, Zenon
<1>7. ASSUME SetTarget(c) PROVE ModeInv'
  <2>1. goal[c] \in SwitchingModes /\ goal[c] \in Modes
    BY <1>3, <1>7, SMT DEF SetTarget, Aims
  <2>2. af' \in [enabled : BOOLEAN, active : BOOLEAN, target : SwitchingModes]
    BY <1>2, <1>7, <2>1, Zenon DEF SetTarget
  <2>3. UNCHANGED Rest /\ UNCHANGED holdoff
    BY <1>7, Zenon DEF SetTarget, Rest, modeVars, history
  <2>4. pc[c] = "target"
    BY <1>7 DEF SetTarget
  <2>5. \/ pc' = [pc EXCEPT ![c] = "acquire"] /\ goal' = goal
        \/ pc' = [pc EXCEPT ![c] = "ready"] /\ goal' = [goal EXCEPT ![c] = None]
    BY <1>7, Zenon DEF SetTarget, Goto
  <2>6. Outward(c, "acquire", goal[c]) \/ Outward(c, "ready", None)
    BY <1>2, <1>4, <2>1, <2>2, <2>3, <2>4, <2>5, SMT DEF Outward, OutsideLabels
  <2> QED
    BY <1>1, <2>6, OutsideStep, Zenon
<1>8. ASSUME NEW m \in SwitchingModes, SetAutoFollowTarget(c, m) PROVE ModeInv'
  <2>1. UNCHANGED Rest /\ UNCHANGED <<af, holdoff>> /\ m \in Modes
    BY <1>8, ModeNames, Zenon DEF SetAutoFollowTarget, Rest, modeVars, afVars, history
  <2>2. Outward(c, "target", m)
    BY <1>2, <1>8, <2>1, SMT DEF SetAutoFollowTarget, Goto, Outward, OutsideLabels
  <2> QED
    BY <1>1, <2>2, OutsideStep, Zenon
<1>9. ASSUME EnableAuto(c) PROVE ModeInv'
  <2>1. af' \in [enabled : BOOLEAN, active : BOOLEAN, target : SwitchingModes]
    BY <1>2, <1>9, Zenon DEF EnableAuto
  <2>2. UNCHANGED Rest /\ UNCHANGED holdoff
    BY <1>9, Zenon DEF EnableAuto, Rest, modeVars, history
  <2>3. Outward(c, "acquire", "discharge")
    BY <1>2, <1>9, <2>1, <2>2, ModeNames, SMT DEF EnableAuto, Goto, Outward, OutsideLabels
  <2> QED
    BY <1>1, <2>3, OutsideStep, Zenon
<1> QED
  BY <1>5, <1>6, <1>7, <1>8, <1>9

(* A decision of the auto-follow loop keeps it. *)
LEMMA AutoTickKeeps ==
  ASSUME ModeInv, AutoTick, raced' \in BOOLEAN
  PROVE  ModeInv'
<1>1. PICK m : m = IF ~af.active /\ current = "high" THEN af.target ELSE "discharge"
  OBVIOUS
<1>2. af \in [enabled : BOOLEAN, active : BOOLEAN, target : SwitchingModes] /\ holdoff \in BOOLEAN
  BY DEF ModeInv, ServerOK
<1>3. (~af.active /\ current = "high") \in BOOLEAN
  OBVIOUS
<1>4. af' \in [enabled : BOOLEAN, active : BOOLEAN, target : SwitchingModes]
  BY <1>2, <1>3, Zenon DEF AutoTick
<1>5. m \in Modes
  BY <1>1, <1>2, ModeNames, SMT
<1>6. holdoff' \in BOOLEAN
  BY <1>2, SMT DEF AutoTick
<1>7. UNCHANGED Rest
  BY Zenon DEF AutoTick, Rest, modeVars, history
<1>8. Outward(AutoLoop, "acquire", m)
  BY <1>1, <1>4, <1>5, <1>6, <1>7, SMT DEF AutoTick, Goto, Outward, OutsideLabels
<1> QED
  BY <1>8, ThreadsAre, OutsideStep, Zenon

(* Steps that move no thread. *)
LEMMA StandingKeeps ==
  ASSUME ModeInv, raced' \in BOOLEAN,
         \/ \E c \in Clients : DisableAuto(c)
         \/ HoldoffEnds
         \/ \E level \in Levels : CurrentMoves(level)
         \/ UNCHANGED state
  PROVE  ModeInv'
<1> USE DEF modeVars, history, afVars, threads, state
<1>1. /\ UNCHANGED <<fw, fets, mode, modeLock, debugStep, engine, flushTimer, pc, goal, prog,
                     since, label, dark, rewound>>
      /\ af' = af \/ af' = [af EXCEPT !.enabled = FALSE, !.active = FALSE]
      /\ holdoff' = holdoff \/ holdoff' = FALSE
      /\ current' \in Levels
  BY SMT DEF DisableAuto, HoldoffEnds, CurrentMoves, ModeInv, ServerOK
<1>2. af' \in [enabled : BOOLEAN, active : BOOLEAN, target : SwitchingModes] /\ holdoff' \in BOOLEAN
  BY <1>1, Zenon DEF ModeInv, ServerOK
<1>3. FwOK(fw)' /\ ServerOK' /\ ThreadsOK' /\ HistoryOK'
  BY <1>1, <1>2, SMT DEF ModeInv, ServerOK, ThreadsOK, HistoryOK
<1>4. ASSUME NEW s \in Drivers PROVE Driving(s)'
  BY <1>1, Others, Zenon DEF ModeInv
<1> QED
  BY <1>3, <1>4, Zenon DEF ModeInv

(* An interrupt of the firmware keeps it. *)
LEMMA TickKeepsInv ==
  ASSUME ModeInv, FirmwareTick, raced' \in BOOLEAN
  PROVE  ModeInv'
<1> USE DEF modeVars, afVars, threads
<1>1. FwOK(fw')
  BY TickKeeps, Zenon DEF FirmwareTick, ModeInv
<1>2. label' \in 0..3
  BY SMT DEF FirmwareTick, ModeInv, ServerOK, TickModulus
<1>3. ServerOK'
  BY <1>2, SMT DEF FirmwareTick, ModeInv, ServerOK
<1>4. since' \in [Threads -> 0..3]
  BY SMT DEF FirmwareTick, ModeInv, ThreadsOK, TickModulus
<1>5. ThreadsOK'
  BY <1>4, SMT DEF FirmwareTick, ModeInv, ThreadsOK
<1>6. HistoryOK' /\ (dark => dark')
  BY SMT DEF FirmwareTick, ModeInv, HistoryOK
<1>7. ASSUME NEW s \in Drivers PROVE Driving(s)'
  BY <1>6, Others, Zenon DEF ModeInv, FirmwareTick
<1> QED
  BY <1>1, <1>3, <1>5, <1>6, <1>7, Zenon DEF ModeInv

-----------------------------------------------------------------------------
(* The serial commands. *)
CommandRest == <<mode, modeLock, engine, flushTimer, af, holdoff, current, goal, prog, label>>

Commands(t, c, l) == /\ Send(t, c, l) /\ c.verb \in {"S", "Y", "C", "E", "F", "G", "H"}
                     /\ UNCHANGED CommandRest
                     /\ fets' \in States /\ debugStep' \in {0 - 1} \cup 0..4
                     /\ since' \in [Threads -> 0..3]

(* After Goto the thread is where it was sent. *)
LEMMA GotoIs ==
  ASSUME ModeInv, NEW t \in Threads, NEW l, Goto(t, l)
  PROVE  pc'[t] = l
  BY Zenon DEF ModeInv, ThreadsOK, Goto

(* What is left to show of a command. *)
LEMMA DriverCommands ==
  ASSUME ModeInv, NEW t \in Drivers, NEW c, NEW l \in OutsideLabels \cup ChangeLabels,
         Commands(t, c, l), FwOK(fw'), Driving(t)', raced' \in BOOLEAN
  PROVE  ModeInv'
<1>1. UNCHANGED <<mode, modeLock, engine, flushTimer, afVars, goal, prog, label>>
  BY Zenon DEF Commands, CommandRest, afVars
<1>2. l \notin SendLabels /\ l \in Labels
  BY SMT DEF OutsideLabels, ChangeLabels, SendLabels, Labels
<1> QED
  BY <1>1, <1>2, ThreadsAre, CommandKeeps, Zenon DEF Commands

(* Parts of the invariant that most commands leave alone. *)
LEMMA Kept ==
  ModeInv => /\ fets \in States /\ debugStep \in {0 - 1} \cup 0..4 /\ since \in [Threads -> 0..3]
             /\ FwOK(fw) /\ \A t \in Drivers : Driving(t)
  BY Zenon DEF ModeInv, ServerOK, ThreadsOK

(* The constant commands and states are of their types. *)
LEMMA Constants ==
  /\ AllOff \in States /\ AllOn \in States /\ <<AllOn>> \in Cycles
  /\ "S" \in {"S", "Y", "C", "E", "F", "G", "H"} /\ "Y" \in {"S", "Y", "C", "E", "F", "G", "H"}
  /\ "C" \in {"S", "Y", "C", "E", "F", "G", "H"} /\ "E" \in {"S", "Y", "C", "E", "F", "G", "H"}
  /\ "F" \in {"S", "Y", "C", "E", "F", "G", "H"} /\ "G" \in {"S", "Y", "C", "E", "F", "G", "H"}
  /\ "H" \in {"S", "Y", "C", "E", "F", "G", "H"}
  BY Zeros, SMT DEF Cycles

(* set_fet keeps the invariant. *)
LEMMA SetFetKeeps ==
  ASSUME ModeInv, NEW c \in Clients, NEW f \in DebugFets, SetFet(c, f), raced' \in BOOLEAN
  PROVE  ModeInv'
<1>1. c \in Drivers /\ c \in Threads /\ c # None
  BY ThreadsAre
<1>2. PICK on \in BOOLEAN : Apply(c, "S", IF on THEN fets \cup {f} ELSE fets \ {f}, "ready")
  BY Zenon DEF SetFet
<1>3. PICK p : p = IF on THEN fets \cup {f} ELSE fets \ {f}
  OBVIOUS
<1>4. p \in States
  BY <1>3, Kept, PicksAssumption, SMT DEF PicksAreLegal, States
<1>5. Commands(c, [verb |-> "S", pins |-> p], "ready")
  BY <1>2, <1>3, <1>4, Kept, Zenon DEF SetFet, Apply, Commands, CommandRest, modeVars, afVars
<1>6. FwOK(fw')
  BY <1>4, <1>5, HandleS, Kept, Zenon DEF Commands, Send
<1>7. Driving(c)'
  <2>1. pc'[c] = "ready"
    BY <1>1, <1>5, GotoIs, Zenon DEF Commands, Send
  <2>2. modeLock' # c
    BY <1>1, <1>5, SMT DEF SetFet, Commands, CommandRest
  <2> QED
    BY <2>1, <2>2, SMT DEF Driving, Inside, Aims, Path, Darkened, ChangeLabels, SendLabels
<1> QED
  BY <1>1, <1>5, <1>6, <1>7, DriverCommands, SMT DEF OutsideLabels

(* debug_step keeps it; the step is a remainder modulo 5. *)
LEMMA DebugStepKeeps ==
  ASSUME ModeInv, NEW c \in Clients, DebugStep(c), raced' \in BOOLEAN
  PROVE  ModeInv'
<1>1. c \in Drivers /\ c \in Threads /\ c # None
  BY ThreadsAre
<1>2. PICK step : step = (debugStep + 1) % 5
  OBVIOUS
<1>3. step \in 0..4
  BY <1>2, Kept, SMT
<1>4. PICK p : p = IF step < 4 THEN {<<"P1", "P2", "N1", "N2">>[step + 1]} ELSE AllOff
  OBVIOUS
<1>5. p \in States
  BY <1>3, <1>4, SMT DEF States, Fets, AllOff
<1>6. Commands(c, [verb |-> "S", pins |-> p], "ready")
  <2>1. Apply(c, "S", p, "ready") /\ debugStep' = step
    BY <1>2, <1>4, Zenon DEF DebugStep
  <2>2. step \in {0 - 1} \cup 0..4
    BY <1>3, Zenon
  <2> QED
    BY <1>5, <2>1, <2>2, Kept, Constants, Zenon DEF DebugStep, Apply, Commands, CommandRest, modeVars, afVars
<1>7. FwOK(fw')
  BY <1>5, <1>6, HandleS, Kept, Zenon DEF Commands, Send
<1>8. Driving(c)'
  <2>1. pc'[c] = "ready"
    BY <1>1, <1>6, GotoIs, Zenon DEF Commands, Send
  <2>2. modeLock' # c
    BY <1>1, <1>6, SMT DEF DebugStep, Commands, CommandRest
  <2> QED
    BY <2>1, <2>2, SMT DEF Driving, Inside, Aims, Path, Darkened, ChangeLabels, SendLabels
<1> QED
  BY <1>1, <1>6, <1>7, <1>8, DriverCommands, SMT DEF OutsideLabels

(* The E of a seamless switch to DISCHARGE keeps it. *)
LEMMA ProgramAllOnKeeps ==
  ASSUME ModeInv, NEW t \in Drivers, ProgramAllOn(t), raced' \in BOOLEAN
  PROVE  ModeInv'
<1>1. t \in Threads /\ pc[t] = "allon_E"
  BY ThreadsAre DEF ProgramAllOn
<1>2. Commands(t, [verb |-> "E", prog |-> <<AllOn>>], "allon_Y")
  BY Kept, Constants, Zenon DEF ProgramAllOn, Commands, CommandRest, modeVars, afVars
<1>3. FwOK(fw')
  BY <1>2, HandleE, Kept, Constants, Zenon DEF Commands, Send
<1>4. Driving(t)'
  <2>1. pc'[t] = "allon_Y"
    BY <1>1, <1>2, GotoIs, Zenon DEF Commands, Send
  <2>2. UNCHANGED <<mode, modeLock, goal>> /\ (dark => dark')
    BY <1>2, Zenon DEF Commands, CommandRest, Send
  <2> QED
    BY <1>1, <2>1, <2>2, Kept, SMT DEF Driving, Inside, Aims, Path, Darkened, Skips, SkipDead,
                                       ChangeLabels, SendLabels
<1> QED
  BY <1>2, <1>3, <1>4, DriverCommands, SMT DEF ChangeLabels

(* Its Y keeps it. *)
LEMMA AllOnNoHaltKeeps ==
  ASSUME ModeInv, NEW t \in Drivers, AllOnNoHalt(t), raced' \in BOOLEAN
  PROVE  ModeInv'
<1>1. t \in Threads /\ pc[t] = "allon_Y"
  BY ThreadsAre DEF AllOnNoHalt
<1>2. Commands(t, [verb |-> "Y", pins |-> AllOn], "silent")
  BY Kept, Constants, Zenon DEF AllOnNoHalt, Apply, Commands, CommandRest, modeVars, afVars
<1>3. FwOK(fw')
  BY <1>2, HandleY, Kept, Constants, Zenon DEF Commands, Send
<1>4. Driving(t)'
  <2>1. pc'[t] = "silent"
    BY <1>1, <1>2, GotoIs, Zenon DEF Commands, Send
  <2>2. UNCHANGED <<mode, modeLock, goal>> /\ (dark => dark')
    BY <1>2, Zenon DEF Commands, CommandRest, Send
  <2> QED
    BY <1>1, <2>1, <2>2, Kept, SMT DEF Driving, Inside, Aims, Path, Darkened, Skips, SkipDead,
                                       ChangeLabels, SendLabels
<1> QED
  BY <1>2, <1>3, <1>4, DriverCommands, SMT DEF ChangeLabels

(* The H of pause keeps it. *)
LEMMA StopSwitchingKeeps ==
  ASSUME ModeInv, NEW t \in Drivers, StopSwitching(t), raced' \in BOOLEAN
  PROVE  ModeInv'
<1>1. t \in Threads /\ pc[t] = "halt"
  BY ThreadsAre DEF StopSwitching
<1>2. Commands(t, [verb |-> "H"], "alloff")
  BY Kept, Constants, Zenon DEF StopSwitching, Commands, CommandRest, modeVars, afVars
<1>3. FwOK(fw')
  BY <1>2, HandleH, Kept, Constants, Zenon DEF Commands, Send
<1>4. Driving(t)'
  <2>1. pc'[t] = "alloff"
    BY <1>1, <1>2, GotoIs, Zenon DEF Commands, Send
  <2>2. UNCHANGED <<mode, modeLock, goal>> /\ (dark => dark')
    BY <1>2, Zenon DEF Commands, CommandRest, Send
  <2> QED
    BY <1>1, <2>1, <2>2, Kept, SMT DEF Driving, Inside, Aims, Path, Darkened, Skips, SkipDead,
                                       ChangeLabels, SendLabels
<1> QED
  BY <1>2, <1>3, <1>4, DriverCommands, SMT DEF ChangeLabels

(* The S of an interlocked switch to DISCHARGE keeps it. *)
LEMMA AllOnDirectKeeps ==
  ASSUME ModeInv, NEW t \in Drivers, AllOnDirect(t), raced' \in BOOLEAN
  PROVE  ModeInv'
<1>1. t \in Threads /\ pc[t] = "allon"
  BY ThreadsAre DEF AllOnDirect
<1>2. Commands(t, [verb |-> "S", pins |-> AllOn], "commit")
  BY Kept, Constants, Zenon DEF AllOnDirect, Apply, Commands, CommandRest, modeVars, afVars
<1>3. FwOK(fw')
  BY <1>2, HandleS, Kept, Constants, Zenon DEF Commands, Send
<1>4. Driving(t)'
  <2>1. pc'[t] = "commit"
    BY <1>1, <1>2, GotoIs, Zenon DEF Commands, Send
  <2>2. UNCHANGED <<mode, modeLock, goal>> /\ (dark => dark')
    BY <1>2, Zenon DEF Commands, CommandRest, Send
  <2> QED
    BY <1>1, <2>1, <2>2, Kept, SMT DEF Driving, Inside, Aims, Path, Darkened, Skips, SkipDead,
                                       ChangeLabels, SendLabels
<1> QED
  BY <1>2, <1>3, <1>4, DriverCommands, SMT DEF ChangeLabels

(* all_off keeps it: this is where an interlocked change becomes dark. *)
LEMMA AllOffDeadTimeKeeps ==
  ASSUME ModeInv, NEW t \in Drivers, AllOffDeadTime(t), raced' \in BOOLEAN
  PROVE  ModeInv'
<1>1. t \in Threads /\ pc[t] = "alloff"
  BY ThreadsAre DEF AllOffDeadTime
<1>2. PICK l : l = CASE goal[t] \in SwitchingModes -> "setpulse"
                     [] goal[t] = "discharge" -> "allon"
                     [] OTHER -> "commit"
  OBVIOUS
<1>3. \/ goal[t] \in SwitchingModes /\ l = "setpulse"
      \/ goal[t] = "discharge" /\ l = "allon"
      \/ goal[t] \notin SwitchingModes /\ l = "commit"
  BY <1>2, SMT DEF SwitchingModes
<1>4. debugStep' \in {0 - 1} \cup 0..4
  BY Kept, SMT DEF AllOffDeadTime
<1>5. Commands(t, [verb |-> "S", pins |-> AllOff], l)
  BY <1>2, <1>4, Kept, Constants, Zenon
     DEF AllOffDeadTime, Apply, Commands, CommandRest, modeVars, afVars
<1>6. FwOK(fw') /\ fw'.pins = AllOff
  <2>1. fw' = Handle(fw, [verb |-> "S", pins |-> AllOff]) /\ FwOK(fw) /\ AllOff \in States
    BY <1>5, Kept, Constants, Zenon DEF Commands, Send
  <2> QED
    BY <2>1, HandleS, SMT
<1>7. Driving(t)'
  <2>1. pc'[t] = l
    BY <1>1, <1>5, GotoIs, Zenon DEF Commands, Send
  <2>2. UNCHANGED <<mode, modeLock, goal>> /\ dark'
    BY <1>5, <1>6, Zenon DEF Commands, CommandRest, Send
  <2> QED
    BY <1>1, <1>3, <2>1, <2>2, Kept, SMT DEF Driving, Inside, Aims, Path, Darkened, Skips,
                                       ChangeLabels, SendLabels
<1> QED
  BY <1>3, <1>5, <1>6, <1>7, DriverCommands, SMT DEF ChangeLabels

-----------------------------------------------------------------------------
(* Programming a cycle, by a mode change or by a flush. *)
LEMMA ProgramCommands ==
  ASSUME ModeInv, NEW t \in Threads, NEW c, NEW l \in SendLabels \ {"snap"},
         pc[t] \in SendLabels \ {"snap"}, pc[t] = "E" \/ l # "E", pc[t] = "C" \/ l # "C",
         Commands(t, c, l), FwOK(fw'), raced' \in BOOLEAN
  PROVE  ModeInv'
<1>1. UNCHANGED <<mode, modeLock, engine, flushTimer, afVars, goal, prog, label>>
  BY Zenon DEF Commands, CommandRest, afVars
<1>2. l \in SendLabels /\ l \in Labels /\ prog[t] \in Snapshots
  BY SMT DEF Labels, ModeInv, ThreadsOK
<1>3. t \in Drivers => Driving(t)'
  <2>1. SUFFICES ASSUME t \in Drivers PROVE Driving(t)'
    OBVIOUS
  <2>2. pc'[t] = l
    BY GotoIs, Zenon DEF Commands, Send
  <2>3. dark => dark'
    BY Zenon DEF Commands, Send
  <2> QED
    BY <1>1, <2>1, <2>2, <2>3, Kept, SMT DEF Driving, Inside, Aims, Path, Darkened, Skips,
                                       ChangeLabels, SendLabels
<1> QED
  BY <1>1, <1>2, <1>3, CommandKeeps, Zenon DEF Commands

(* The engine's cycle and period are a snapshot a thread may send. *)
LEMMA ReadCycleIs ==
  ASSUME ModeInv
  PROVE  [cycle |-> EngineCycle, us |-> EnginePeriod] \in Snapshots
<1>1. engine.sequence \in SequencePicks \cup {0} /\ engine.stepTime \in StepTimes
  BY SMT DEF ModeInv, ServerOK
<1>2. EngineCycle \in Programs
  BY <1>1, Zenon DEF EngineCycle, Programs
<1>3. EnginePeriod \in StepTimes \cup {2 * us : us \in StepTimes}
  BY <1>1, SMT DEF EnginePeriod
<1> QED
  BY <1>2, <1>3, Zenon DEF Snapshots

(* What a sending thread holds is a cycle and a period. *)
LEMMA Held ==
  ASSUME ModeInv, NEW t \in Threads, pc[t] \in SendLabels \ {"snap"}
  PROVE  prog[t].cycle \in Cycles /\ prog[t].us \in Periods
<1>1. prog[t] \in Snapshots
  BY Zenon DEF ModeInv, ThreadsOK
<1>2. \A s \in Snapshots : s.cycle \in Programs
  BY SMT DEF Snapshots
<1> QED
  BY <1>1, <1>2, Zenon DEF Cycles, Periods

(* C keeps the invariant: only a flush or an interlocked change sends it. *)
LEMMA ProgramSequenceKeeps ==
  ASSUME ModeInv, NEW t \in Threads, ProgramSequence(t), raced' \in BOOLEAN
  PROVE  ModeInv'
<1>1. pc[t] = "C" /\ pc[t] \in SendLabels \ {"snap"} /\ "F" \in SendLabels \ {"snap"}
  BY SMT DEF ProgramSequence, SendLabels
<1>2. Commands(t, [verb |-> "C", prog |-> prog[t].cycle], "F")
  BY <1>1, Kept, Constants, Zenon DEF ProgramSequence, Commands, CommandRest, modeVars, afVars
<1>3. FwOK(fw')
  BY <1>1, <1>2, HandleC, Held, Kept, Zenon DEF Commands, Send
<1> QED
  BY <1>1, <1>2, <1>3, ProgramCommands, SMT

(* E keeps it: only a seamless change sends it. *)
LEMMA ProgramSequenceLiveKeeps ==
  ASSUME ModeInv, NEW t \in Threads, ProgramSequenceLive(t), raced' \in BOOLEAN
  PROVE  ModeInv'
<1>1. pc[t] = "E" /\ pc[t] \in SendLabels \ {"snap"} /\ "F" \in SendLabels \ {"snap"}
  BY SMT DEF ProgramSequenceLive, SendLabels
<1>2. Commands(t, [verb |-> "E", prog |-> prog[t].cycle], "F")
  BY <1>1, Kept, Constants, Zenon DEF ProgramSequenceLive, Commands, CommandRest, modeVars, afVars
<1>3. FwOK(fw')
  BY <1>1, <1>2, HandleE, Held, Kept, Zenon DEF Commands, Send
<1> QED
  BY <1>1, <1>2, <1>3, ProgramCommands, SMT

(* F keeps it. *)
LEMMA SetStepPeriodKeeps ==
  ASSUME ModeInv, NEW t \in Threads, SetStepPeriod(t), raced' \in BOOLEAN
  PROVE  ModeInv'
<1>1. pc[t] = "F" /\ pc[t] \in SendLabels \ {"snap"} /\ "G" \in SendLabels \ {"snap"}
  BY SMT DEF SetStepPeriod, SendLabels
<1>2. Commands(t, [verb |-> "F", us |-> prog[t].us], "G")
  BY <1>1, Kept, Constants, Zenon DEF SetStepPeriod, Commands, CommandRest, modeVars, afVars
<1>3. FwOK(fw')
  BY <1>1, <1>2, HandleF, Held, Kept, Zenon DEF Commands, Send
<1> QED
  BY <1>1, <1>2, <1>3, ProgramCommands, SMT

(* G keeps it. *)
LEMMA StartSwitchingKeeps ==
  ASSUME ModeInv, NEW t \in Threads, StartSwitching(t), raced' \in BOOLEAN
  PROVE  ModeInv'
<1>1. pc[t] = "G" /\ pc[t] \in SendLabels \ {"snap"} /\ "anchor" \in SendLabels \ {"snap"}
  BY SMT DEF StartSwitching, SendLabels
<1>4. since' \in [Threads -> 0..3]
  BY Kept, SMT DEF StartSwitching
<1>2. Commands(t, [verb |-> "G"], "anchor")
  BY <1>1, <1>4, Kept, Constants, Zenon DEF StartSwitching, Commands, CommandRest, modeVars, afVars
<1>3. FwOK(fw')
  BY <1>1, <1>2, HandleG, Held, Kept, Zenon DEF Commands, Send
<1> QED
  BY <1>1, <1>2, <1>3, ProgramCommands, SMT

(* Reading the engine's cycle keeps it; the label chosen is the one Path   *)
(* asks for.                                                               *)
LEMMA ReadCycleKeeps ==
  ASSUME ModeInv, NEW t \in Threads, ReadCycle(t), raced' \in BOOLEAN
  PROVE  ModeInv'
<1>1. PICK l : l = IF Live(t) THEN "E" ELSE "C"
  OBVIOUS
<1>2. l \in {"E", "C"} /\ l \in SendLabels /\ l \in Labels /\ l \in Labels \cup TimerLabels
  BY <1>1, SMT DEF SendLabels, Labels
<1>3. Goto(t, l) /\ pc[t] = "snap"
  BY <1>1, Zenon DEF ReadCycle
<1>4. Moved(t, l) /\ pc'[t] = l
  BY <1>2, <1>3, GotoMoves, GotoIs, Zenon
<1>5. UNCHANGED <<fw, fets, mode, modeLock, debugStep, engine, flushTimer, af, holdoff, current,
                  goal, since, label, dark, rewound>>
  BY Zenon DEF ReadCycle, modeVars, afVars, history
<1>6. /\ prog' \in [Threads -> Snapshots \cup {None}] /\ prog'[t] \in Snapshots
      /\ \A s \in Threads \ {t} : prog'[s] = prog[s]
  <2>1. PICK v \in Snapshots : prog' = [prog EXCEPT ![t] = v]
    BY ReadCycleIs, Zenon DEF ReadCycle
  <2> QED
    BY <2>1, SMT DEF ModeInv, ThreadsOK
<1>7. t \in Drivers => l \in Labels /\ Driving(t)'
  <2>1. SUFFICES ASSUME t \in Drivers PROVE Driving(t)'
    BY <1>2, Zenon
  <2>2. l = "E" <=> Skips(t)
    BY <1>1, <2>1, SMT DEF Live, Skips
  <2> QED
    BY <1>2, <1>3, <1>4, <1>5, <2>1, <2>2, Kept, SMT
       DEF Driving, Inside, Aims, Path, Darkened, Skips, ChangeLabels, SendLabels
<1>8. ServerOK' /\ HistoryOK' /\ FwOK(fw)'
  BY <1>5, SMT DEF ModeInv, ServerOK, HistoryOK
<1>9. since' \in [Threads -> 0..3]
  BY <1>5, Kept
<1> QED
  BY <1>2, <1>4, <1>5, <1>6, <1>7, <1>8, <1>9, ThreadMoves, Zenon

(* The end of a programming keeps it: back to the mode change, or a free   *)
(* Timer.                                                                  *)
LEMMA AnchorKeeps ==
  ASSUME ModeInv, NEW t \in Threads, Anchor(t), raced' \in BOOLEAN
  PROVE  ModeInv'
<1>1. PICK l : l = IF t \in Timers THEN "free" ELSE "commit"
  OBVIOUS
<1>2. /\ l \in Labels \cup TimerLabels /\ l \notin SendLabels
      /\ t \in Timers => l \in TimerLabels
      /\ t \in Drivers => l \in Labels /\ l = "commit"
  BY <1>1, ThreadsAre, SMT DEF SendLabels, Labels, ChangeLabels, TimerLabels
<1>3. Goto(t, l) /\ pc[t] = "anchor"
  BY <1>1, Zenon DEF Anchor
<1>4. Moved(t, l) /\ pc'[t] = l
  BY <1>2, <1>3, GotoMoves, GotoIs, Zenon
<1>5. UNCHANGED <<fw, fets, mode, modeLock, debugStep, engine, flushTimer, af, holdoff, current,
                  goal, dark, rewound>>
  BY Zenon DEF Anchor, modeVars, afVars, history
<1>6. /\ prog' \in [Threads -> Snapshots \cup {None}]
      /\ \A s \in Threads \ {t} : prog'[s] = prog[s]
  BY SMT DEF Anchor, ModeInv, ThreadsOK
<1>7. t \in Drivers => l \in Labels /\ Driving(t)'
  BY <1>2, <1>3, <1>4, <1>5, Kept, SMT
     DEF Driving, Inside, Aims, Path, Darkened, Skips, ChangeLabels, SendLabels
<1>8. label' \in 0..3 /\ since' \in [Threads -> 0..3]
  BY Kept, SMT DEF Anchor
<1>9. ServerOK' /\ HistoryOK' /\ FwOK(fw)'
  BY <1>5, <1>8, SMT DEF ModeInv, ServerOK, HistoryOK
<1> QED
  BY <1>2, <1>4, <1>5, <1>6, <1>7, <1>8, <1>9, ThreadMoves, Zenon

-----------------------------------------------------------------------------
(* The sections under the engine's lock. *)
EngineType == [paused : BOOLEAN, pulse : BOOLEAN, sequence : SequencePicks \cup {0},
               stepTime : StepTimes, pending : BOOLEAN]

EngineRest == <<fw, fets, mode, modeLock, debugStep, af, holdoff, current, goal, prog, since,
                dark, rewound>>

(* A step that moves one thread and only changes the engine keeps it. *)
LEMMA EngineKeeps ==
  ASSUME ModeInv, NEW t \in Threads, NEW l, Moved(t, l), UNCHANGED EngineRest,
         t \in Drivers => l \in OutsideLabels \cup ChangeLabels \cup {"snap"} /\ Driving(t)',
         t \in Timers => l \in {"free", "waiting", "flush", "snap"},
         engine' \in EngineType, flushTimer' \in Timers \cup {None}, label' \in 0..3,
         raced' \in BOOLEAN
  PROVE  ModeInv'
<1>1. /\ t \in Drivers => l \in Labels /\ Driving(t)'
      /\ t \in Timers => l \in TimerLabels \cup SendLabels
      /\ l \notin SendLabels \ {"snap"}
  BY ThreadsAre, SMT DEF Labels, OutsideLabels, ChangeLabels, SendLabels, TimerLabels, Threads
<1>2. UNCHANGED <<goal, mode, modeLock>> /\ (dark => dark') /\ prog' = prog /\ since' = since
  BY DEF EngineRest
<1>3. prog' \in [Threads -> Snapshots \cup {None}] /\ since' \in [Threads -> 0..3]
  BY <1>2, Zenon DEF ModeInv, ThreadsOK
<1>4. ServerOK'
  BY SMT DEF EngineRest, ModeInv, ServerOK, EngineType
<1>5. HistoryOK' /\ FwOK(fw)'
  BY SMT DEF EngineRest, ModeInv, HistoryOK
<1> QED
  BY <1>1, <1>2, <1>3, <1>4, <1>5, ThreadMoves, Zenon

(* The common end of the engine's setters moves the caller and starts at   *)
(* most one Timer.                                                         *)
LEMMA RetuneIs ==
  ASSUME ModeInv, NEW t \in Drivers, NEW l \in Labels, NEW e \in EngineType, Retune(t, e, l)
  PROVE  Moved(t, l) /\ engine' \in EngineType /\ flushTimer' \in Timers \cup {None}
<1>1. engine' \in EngineType
  <2>1. (e.pending \/ ~engine.paused) \in BOOLEAN
    OBVIOUS
  <2> QED
    BY <2>1, Zenon DEF Retune, EngineType
<1>2. CASE engine.paused
  <2>1. Goto(t, l) /\ flushTimer' = flushTimer
    BY <1>2, Zenon DEF Retune
  <2>2. flushTimer \in Timers \cup {None} /\ l \in Labels \cup TimerLabels /\ t \in Threads
    BY ThreadsAre, Zenon DEF ModeInv, ServerOK
  <2> QED
    BY <1>1, <2>1, <2>2, GotoMoves, Zenon
<1>3. CASE ~engine.paused
  <2>1. PICK f \in Timers : pc' = [Cancelled EXCEPT ![f] = "waiting", ![t] = l] /\ flushTimer' = f
    BY <1>3, Zenon DEF Retune
  <2> QED
    BY <1>1, <2>1, CancelMoves, Zenon
<1> QED
  BY <1>2, <1>3

(* The engine's fields are typed. *)
LEMMA EngineIs == ModeInv => engine \in EngineType /\ label \in 0..3
  BY Zenon DEF ModeInv, ServerOK, EngineType

(* set_frequency and set_sequence keep the invariant. *)
LEMMA TuneKeeps ==
  ASSUME ModeInv, NEW c \in Clients, raced' \in BOOLEAN,
         \/ \E us \in StepTimes : SetFrequency(c, us)
         \/ \E i \in SequencePicks : SetSequence(c, i)
  PROVE  ModeInv'
<1>1. c \in Drivers /\ c \in Threads
  BY ThreadsAre
<1>2. pc[c] = "ready" /\ UNCHANGED EngineRest /\ label' \in 0..3
  <2>1. pc[c] = "ready" /\ UNCHANGED EngineRest
    BY Zenon DEF SetFrequency, SetSequence, EngineRest, modeVars, afVars, history
  <2>2. label' \in {label, 0}
    BY Zenon DEF SetFrequency, SetSequence
  <2> QED
    BY <2>1, <2>2, EngineIs, SMT
<1>3. PICK e \in EngineType : Retune(c, e, "ready")
  <2>1. \A us \in StepTimes : [engine EXCEPT !.stepTime = us] \in EngineType
    BY EngineIs, Zenon DEF EngineType
  <2>2. \A i \in SequencePicks : [engine EXCEPT !.sequence = i] \in EngineType
    BY EngineIs, Zenon DEF EngineType
  <2> QED
    BY <2>1, <2>2, Zenon DEF SetFrequency, SetSequence
<1>4. "ready" \in Labels /\ "ready" \in OutsideLabels
  BY SMT DEF Labels, OutsideLabels
<1>5. Moved(c, "ready") /\ engine' \in EngineType /\ flushTimer' \in Timers \cup {None}
  BY <1>1, <1>3, <1>4, RetuneIs, Zenon
<1>6. Driving(c)'
  <2>1. pc'[c] = pc[c] /\ goal' = goal /\ mode' = mode /\ modeLock' = modeLock /\ dark' = dark
    BY <1>2, <1>5, Zenon DEF Moved, EngineRest
  <2> QED
    BY <1>1, <2>1, Kept, Others, Zenon
<1> QED
  BY <1>1, <1>2, <1>4, <1>5, <1>6, ThreadsAre, EngineKeeps, Zenon

(* set_pulse_mode keeps it. *)
LEMMA SetPulseModeKeeps ==
  ASSUME ModeInv, NEW t \in Drivers, SetPulseMode(t), raced' \in BOOLEAN
  PROVE  ModeInv'
<1>1. t \in Threads
  BY ThreadsAre
<1>2. pc[t] = "setpulse" /\ UNCHANGED EngineRest /\ label' \in 0..3
  BY SMT DEF SetPulseMode, EngineRest, modeVars, afVars, history
<1>3. PICK e \in EngineType : Retune(t, e, "resume")
  <2>1. (goal[t] = "pulse_charge") \in BOOLEAN
    OBVIOUS
  <2>2. [engine EXCEPT !.pulse = (goal[t] = "pulse_charge")] \in EngineType
    BY <2>1, EngineIs, Zenon DEF EngineType
  <2> QED
    BY <2>2, Zenon DEF SetPulseMode
<1>4. "resume" \in Labels /\ "resume" \in ChangeLabels
  BY SMT DEF Labels, ChangeLabels
<1>5. Moved(t, "resume") /\ engine' \in EngineType /\ flushTimer' \in Timers \cup {None}
  BY <1>3, <1>4, RetuneIs, Zenon
<1>6. Driving(t)'
  <2>1. pc'[t] = "resume" /\ goal' = goal /\ mode' = mode /\ modeLock' = modeLock /\ dark' = dark
    BY <1>2, <1>5, Zenon DEF Moved, EngineRest
  <2> QED
    BY <1>2, <2>1, Kept, SMT DEF Driving, Inside, Aims, Path, Darkened, Skips, ChangeLabels, SendLabels
<1> QED
  BY <1>1, <1>2, <1>4, <1>5, <1>6, ThreadsAre, EngineKeeps, Zenon

(* pause, pause_silent and the section of resume keep it. *)
LEMMA PauseKeeps ==
  ASSUME ModeInv, NEW t \in Drivers, PauseSilent(t) \/ Pause(t) \/ Resume(t), raced' \in BOOLEAN
  PROVE  ModeInv'
<1>1. t \in Threads
  BY ThreadsAre
<1>2. PICK l : /\ pc' = [Cancelled EXCEPT ![t] = l]
               /\ \/ pc[t] = "silent" /\ l = "commit"
                  \/ pc[t] = "pause" /\ l \in {"alloff", "halt"}
                  \/ pc[t] = "resume" /\ l = "snap"
  BY SMT DEF PauseSilent, Pause, Resume, PauseEngine
<1>3. UNCHANGED EngineRest /\ label' \in 0..3 /\ flushTimer' = None
  BY EngineIs, SMT DEF PauseSilent, Pause, Resume, PauseEngine, EngineRest, modeVars, afVars, history
<1>4. engine' \in EngineType
  BY EngineIs, Zenon DEF PauseSilent, Pause, Resume, PauseEngine, EngineType
<1>5. l \in Labels /\ l \in OutsideLabels \cup ChangeLabels \cup {"snap"}
  BY <1>2, SMT DEF Labels, ChangeLabels, SendLabels
<1>6. Moved(t, l)
  BY <1>2, <1>5, CancelMoves, Zenon
<1>7. Driving(t)'
  <2>1. pc'[t] = l /\ goal' = goal /\ mode' = mode /\ modeLock' = modeLock /\ dark' = dark
    BY <1>3, <1>6, Zenon DEF Moved, EngineRest
  <2> QED
    BY <1>2, <2>1, Kept, SMT DEF Driving, Inside, Aims, Path, Darkened, Skips, SkipDead,
                              SwitchingModes, ChangeLabels, SendLabels
<1> QED
  BY <1>1, <1>3, <1>4, <1>5, <1>6, <1>7, ThreadsAre, EngineKeeps, Zenon

(* A Timer that fires, and the section of its flush, keep it. *)
LEMMA TimerKeeps ==
  ASSUME ModeInv, NEW f \in Timers, TimerFires(f) \/ Flush(f), raced' \in BOOLEAN
  PROVE  ModeInv'
<1>1. f \in Threads /\ f \notin Drivers
  BY ThreadsAre
<1>2. PICK l : Goto(f, l) /\ l \in {"free", "flush", "snap"}
  BY SMT DEF TimerFires, Flush
<1>3. UNCHANGED EngineRest /\ label' \in 0..3 /\ flushTimer' \in Timers \cup {None}
  BY EngineIs, SMT DEF TimerFires, Flush, EngineRest, modeVars, afVars, history, ModeInv, ServerOK
<1>4. engine' \in EngineType
  BY EngineIs, Zenon DEF TimerFires, Flush, EngineType
<1>5. l \in Labels \cup TimerLabels /\ l \in {"free", "waiting", "flush", "snap"}
  BY <1>2, SMT DEF Labels, SendLabels, TimerLabels
<1>6. Moved(f, l)
  BY <1>1, <1>2, <1>5, GotoMoves, Zenon
<1> QED
  BY <1>1, <1>3, <1>4, <1>5, <1>6, EngineKeeps, Zenon

-----------------------------------------------------------------------------
(* Taking and releasing the mode lock. *)
LEMMA AcquireKeeps ==
  ASSUME ModeInv, NEW t \in Drivers, Acquire(t), raced' \in BOOLEAN
  PROVE  ModeInv'
<1>1. t \in Threads /\ t # None /\ pc[t] = "acquire" /\ modeLock = None
  BY ThreadsAre DEF Acquire
<1>2. /\ UNCHANGED <<fw, fets, mode, debugStep, engine, flushTimer, af, holdoff, current, prog,
                     since, label, rewound>>
  BY Zenon DEF Acquire, afVars
<1>3. CASE goal[t] = mode
  <2>1. /\ goal' = [goal EXCEPT ![t] = None] /\ Goto(t, "ready") /\ UNCHANGED <<modeLock, dark>>
    BY <1>3, Zenon DEF Acquire
  <2>2. Outward(t, "ready", None)
    <3>1. af' \in [enabled : BOOLEAN, active : BOOLEAN, target : SwitchingModes] /\ holdoff' \in BOOLEAN
      BY <1>2, Zenon DEF ModeInv, ServerOK
    <3>2. UNCHANGED Rest
      BY <1>2, <2>1 DEF Rest
    <3> QED
      BY <1>1, <2>1, <3>1, <3>2, SMT DEF Outward, Goto, OutsideLabels
  <2> QED
    BY <2>2, OutsideStep, Zenon
<1>4. CASE goal[t] # mode
  <2>1. PICK l : l = CASE ~SkipDead(mode, goal[t]) -> "pause"
                       [] SkipDead(mode, goal[t]) /\ goal[t] = "discharge" -> "allon_E"
                       [] OTHER -> "setpulse"
    OBVIOUS
  <2>2. modeLock' = t /\ dark' = (fw.pins = AllOff) /\ Goto(t, l) /\ goal' = goal
    BY <1>4, <2>1, Zenon DEF Acquire
  <2>3. \/ ~Skips(t) /\ l = "pause"
        \/ Skips(t) /\ goal[t] = "discharge" /\ l = "allon_E"
        \/ Skips(t) /\ goal[t] # "discharge" /\ l = "setpulse"
    BY <2>1, Zenon DEF Skips
  <2>4. l \in ChangeLabels /\ l \in Labels \cup TimerLabels
    BY <2>3, SMT DEF ChangeLabels, Labels
  <2>5. Moved(t, l) /\ pc'[t] = l
    BY <1>1, <2>2, <2>4, GotoMoves, GotoIs, Zenon
  <2>6. FwOK(fw)' /\ ServerOK' /\ HistoryOK'
    <3>1. dark' \in BOOLEAN
      BY <2>2, SMT
    <3> QED
      BY <1>2, <2>2, <3>1, SMT DEF ModeInv, ServerOK, HistoryOK
  <2>7. ThreadsOK'
    <3>1. l \notin SendLabels /\ l \in OutsideLabels \cup ChangeLabels \cup SendLabels \cup TimerLabels
      BY <2>4, SMT DEF ChangeLabels, SendLabels
    <3>2. pc' = [pc EXCEPT ![t] = l] /\ t \notin Timers
      BY <2>2, ThreadsAre DEF Goto
    <3> QED
      BY <1>1, <1>2, <2>2, <2>4, <3>1, <3>2, SMT DEF ModeInv, ThreadsOK
  <2>8. Driving(t)'
    <3>1. goal[t] \in Modes /\ Skips(t)' = Skips(t)
      BY <1>1, <1>2, <2>2, Kept, SMT DEF Driving, Aims, Skips
    <3>2. Skips(t) /\ goal[t] # "discharge" => goal[t] \in SwitchingModes
      BY Zenon DEF Skips, SkipDead
    <3> QED
      BY <1>1, <1>2, <1>4, <2>2, <2>3, <2>5, <3>1, <3>2, SMT
         DEF Driving, Inside, Aims, Path, Darkened, ChangeLabels, SendLabels
  <2>9. ASSUME NEW s \in Drivers, s # t PROVE Driving(s)'
    <3>1. pc'[s] = pc[s] /\ goal'[s] = goal[s] /\ modeLock # s /\ modeLock' # s
      BY <1>1, <2>2, <2>5, <2>9, ThreadsAre, Zenon DEF Moved
    <3> QED
      BY <3>1, Kept, Outsider, Zenon DEF ModeInv
  <2> QED
    BY <2>6, <2>7, <2>8, <2>9, Zenon DEF ModeInv
<1> QED
  BY <1>3, <1>4

(* Announcing the mode and releasing the lock keep it. *)
LEMMA CommitKeeps ==
  ASSUME ModeInv, NEW t \in Drivers, Commit(t), raced' \in BOOLEAN
  PROVE  ModeInv'
<1>1. t \in Threads /\ t # None /\ pc[t] = "commit"
  BY ThreadsAre DEF Commit
<1>2. modeLock = t /\ goal[t] \in Modes
  BY <1>1, Kept, SMT DEF Driving, Inside, Aims, ChangeLabels
<1>3. /\ UNCHANGED <<fw, fets, debugStep, engine, flushTimer, af, holdoff, current, prog, since,
                     label, rewound>>
      /\ mode' = goal[t] /\ modeLock' = None /\ dark' = TRUE
      /\ goal' = [goal EXCEPT ![t] = None] /\ pc' = [pc EXCEPT ![t] = "ready"]
  BY Zenon DEF Commit, afVars, Goto
<1>4. FwOK(fw)' /\ ServerOK' /\ HistoryOK'
  BY <1>2, <1>3, SMT DEF ModeInv, ServerOK, HistoryOK
<1>5. ThreadsOK'
  <2>1. "ready" \in OutsideLabels /\ "ready" \notin SendLabels /\ t \notin Timers
    BY ThreadsAre, SMT DEF OutsideLabels, SendLabels
  <2> QED
    BY <1>1, <1>3, <2>1, SMT DEF ModeInv, ThreadsOK
<1>6. Driving(t)'
  <2>1. pc'[t] = "ready"
    BY <1>1, <1>3, SMT DEF ModeInv, ThreadsOK
  <2> QED
    BY <1>1, <1>3, <2>1, SMT DEF Driving, Inside, Aims, Path, Darkened, ChangeLabels, SendLabels
<1>7. ASSUME NEW s \in Drivers, s # t PROVE Driving(s)'
  <2>1. pc'[s] = pc[s] /\ goal'[s] = goal[s]
    BY <1>1, <1>3, <1>7, ThreadsAre, SMT DEF ModeInv, ThreadsOK
  <2>2. modeLock # s /\ modeLock' # s
    BY <1>2, <1>3, <1>7, ThreadsAre, Zenon
  <2> QED
    BY <2>1, <2>2, Kept, Outsider, Zenon DEF ModeInv
<1> QED
  BY <1>4, <1>5, <1>6, <1>7, Zenon DEF ModeInv

-----------------------------------------------------------------------------
(* The server starts in it. *)
LEMMA Initially == Init => ModeInv
<1> SUFFICES ASSUME Init PROVE ModeInv
  OBVIOUS
<1>1. FwOK(fw)
  <2>1. fw = [pins |-> AllOff, seq |-> <<>>, idx |-> 0, period |-> 0, running |-> FALSE]
    BY Zenon DEF Init, Booted
  <2> QED
    BY <2>1, Zeros, Zenon DEF FwOK, FwType
<1>2. ServerOK
  <2>1. PICK us \in StepTimes : engine = [paused |-> TRUE, pulse |-> FALSE, sequence |-> 0,
                 stepTime |-> us, pending |-> FALSE]
    BY Zenon DEF Init
  <2>2. engine \in EngineType
    BY <2>1, Zenon DEF EngineType
  <2>3. af \in [enabled : BOOLEAN, active : BOOLEAN, target : SwitchingModes]
    BY SMT DEF Init, SwitchingModes
  <2>4. /\ fets \in States /\ mode \in Modes /\ modeLock \in Drivers \cup {None}
        /\ flushTimer \in Timers \cup {None} /\ holdoff \in BOOLEAN
    <3>1. "idle" \in Modes
      BY SMT DEF Modes
    <3> QED
      BY <3>1, Zeros, Zenon DEF Init
  <2>5. debugStep \in {0 - 1} \cup 0..4 /\ label \in 0..3
    BY SMT DEF Init
  <2>6. current \in Levels
    BY PicksAssumption, Zenon DEF PicksAreLegal, Init
  <2> QED
    BY <2>2, <2>3, <2>4, <2>5, <2>6, Zenon DEF ServerOK, EngineType
<1>3. ThreadsOK
  BY ThreadsAre, SMT DEF Init, ThreadsOK, OutsideLabels, TimerLabels, SendLabels
<1>4. HistoryOK
  BY DEF Init, HistoryOK
<1>5. ASSUME NEW s \in Drivers PROVE Driving(s)
  <2>1. pc[s] = "ready" /\ modeLock # s
    BY ThreadsAre, SMT DEF Init
  <2> QED
    BY <2>1, SMT DEF Driving, Inside, Aims, Path, Darkened, ChangeLabels, SendLabels
<1> QED
  BY <1>1, <1>2, <1>3, <1>4, <1>5, Zenon DEF ModeInv

(* Every step keeps it. *)
LEMMA StepKeeps ==
  ASSUME ModeInv, Step, raced' \in BOOLEAN
  PROVE  ModeInv'
<1>1. ASSUME NEW c \in Clients, ClientCall(c) \/ ClientStep(c) PROVE ModeInv'
  BY <1>1, ClientCallKeeps, StandingKeeps, TuneKeeps, SetFetKeeps, DebugStepKeeps, Zenon
     DEF ClientCall, ClientStep
<1>2. ASSUME NEW t \in Drivers, ChangeMode(t) PROVE ModeInv'
  BY <1>2, ProgramAllOnKeeps, AllOnNoHaltKeeps, PauseKeeps, StopSwitchingKeeps, AllOffDeadTimeKeeps,
     AllOnDirectKeeps, SetPulseModeKeeps, CommitKeeps, Zenon DEF ChangeMode
<1>3. ASSUME NEW t \in Threads, Program(t) PROVE ModeInv'
  BY <1>3, ReadCycleKeeps, ProgramSequenceKeeps, ProgramSequenceLiveKeeps, SetStepPeriodKeeps,
     StartSwitchingKeeps, AnchorKeeps, Zenon DEF Program
<1>4. CASE Environment
  BY <1>4, StandingKeeps, TickKeepsInv, Zenon DEF Environment
<1> QED
  BY <1>1, <1>2, <1>3, <1>4, AutoTickKeeps, AcquireKeeps, TimerKeeps, Zenon DEF Step

(* The invariant holds throughout, for any number of clients and Timers    *)
(* and any picks.                                                          *)
THEOREM Invariance == Spec => []ModeInv
<1>1. ModeInv /\ [Next]_vars => ModeInv'
  <2>1. SUFFICES ASSUME ModeInv, [Next]_vars PROVE ModeInv'
    OBVIOUS
  <2>2. CASE Next
    <3>1. raced' \in BOOLEAN
      BY <2>2, SMT DEF Next
    <3> QED
      BY <2>1, <2>2, <3>1, StepKeeps, Zenon DEF Next
  <2>3. CASE UNCHANGED vars
    <3>1. UNCHANGED state /\ raced' = raced
      BY <2>3 DEF vars
    <3>2. raced' \in BOOLEAN
      BY <2>1, <3>1, Zenon DEF ModeInv, HistoryOK
    <3> QED
      BY <2>1, <3>1, <3>2, StandingKeeps, Zenon
  <2> QED
    BY <2>1, <2>2, <2>3
<1> QED
  BY Initially, <1>1, PTL DEF Spec

(* Every variable of the control core keeps its type. *)
THEOREM TypeCorrect == Spec => []TypeOK
<1>1. ModeInv => TypeOK
  BY TypeParts, Zenon DEF ModeInv
<1> QED
  BY <1>1, Invariance, PTL

(* Between any two modes but DISCHARGE and a switching mode all FETs were  *)
(* off at some point before _set_mode_internal announces the new mode: for *)
(* any number of threads, whatever flushes race with the change and        *)
(* whatever the firmware's timer does.                                     *)
THEOREM Interlocked == Spec => []InterlockUnlessSeamless
<1>1. ModeInv => InterlockUnlessSeamless
  <2>1. SUFFICES ASSUME ModeInv, modeLock # None, pc[modeLock] = "commit"
        PROVE  TransparentPair(mode, goal[modeLock]) \/ dark
    BY Zenon DEF InterlockUnlessSeamless
  <2>2. modeLock \in Drivers
    BY <2>1, Zenon DEF ModeInv, ServerOK
  <2>3. Darkened(modeLock)
    BY <2>1, <2>2, Kept, Zenon DEF Driving
  <2>4. Skips(modeLock) \/ dark
    BY <2>1, <2>3, Zenon DEF Darkened
  <2> QED
    BY <2>4, Zenon DEF Skips, SkipDead, TransparentPair
<1> QED
  BY <1>1, Invariance, PTL
===============================================================================
