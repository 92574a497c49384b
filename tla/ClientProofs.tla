---------------------------- MODULE ClientProofs ----------------------------
(***************************************************************************)
(* Proofs about the two ends of the system.                                *)
(*                                                                         *)
(* SwitchIsr, for every cycle buffer, every set of programs, periods and   *)
(* direct states, every order of commands and every outcome of arming the  *)
(* timer.  The panel and the connection of the terminal client inside      *)
(* Client, for any numbers of Pis, keys, threads, connections and faults.  *)
(***************************************************************************)
EXTENDS Client, SequenceTheorems, TLAPS

(* Which handler can be at which point. *)
HandlerAt ==
  /\ pc \in {"cancel", "clear", "off"} => op.verb \in {"S", "C", "H"}
  /\ pc = "swap" => op.verb \in {"C", "E"}
  /\ pc = "period" => op.verb = "F"
  /\ pc \in {"start", "rearm", "arm", "flag"} => op.verb \in {"F", "G"}
  /\ pc \in {"step", "store"} => op.verb = "K"
  /\ pc = "reboot" => op.verb = "X"
  /\ pc = "drive" => op.verb \in {"S", "Y", "F", "G", "K"} /\ reg \in 0..3
  /\ pc = "store" => reg \in Slots
  /\ pc \in {"cancel", "clear", "off"} /\ op.verb = "S" => reg = 0

(* The operands of the handler are the ones the host sent. *)
Operands ==
  /\ op.verb \in {"S", "Y"} => op.pins \in Directs
  /\ op.verb \in {"C", "E"} => op.prog \in Programs
  /\ op.verb = "F" => op.us \in Periods
  /\ pc \in {"cancel", "clear", "off", "drive"} /\ op.verb = "S" => drive = op.pins

(* Past cancel_repeating_timer a halting handler runs without interrupts. *)
Halting == pc = "swap" /\ op.verb = "C"

HaltHasNoTimer ==
  /\ pc = "clear" => timer = 0
  /\ pc = "off" \/ Halting \/ (pc = "drive" /\ op.verb = "S") => timer = 0 /\ ~running
  /\ Halting => pins = AllOff
  /\ pc = "drive" /\ op.verb = "S" =>
       \A i \in 1..4 : i <= reg => (FetOrder[i] \in pins <=> FetOrder[i] \in drive)

(* An armed timer has a cycle to step through, belongs to a running cycle  *)
(* once s_running is set, and has the current period unless the F that     *)
(* just changed it has not got to the re-arm yet.                          *)
Retiming == pc \in {"start", "drive", "rearm"} /\ op.verb = "F"

TimerInv ==
  /\ timer # 0 => len # 0
  /\ timer # 0 /\ pc # "flag" => running
  /\ timer # 0 /\ ~Retiming => timer = period
  /\ pc \in {"drive", "rearm", "arm", "flag"} /\ op.verb \in {"F", "G"} =>
       len # 0 /\ period # 0
  /\ pc = "start" /\ op.verb = "F" => period # 0

IInv ==
  /\ TypeOK
  /\ HandlerAt
  /\ Operands
  /\ HaltHasNoTimer
  /\ TimerInv
  /\ IndexInCycle
  /\ DarkAfterHalt
  /\ DirectStateHolds

-----------------------------------------------------------------------------
(* Two pin sets that agree on the four FETs are the same pin set. *)
LEMMA PinsEqual ==
  ASSUME NEW p \in States, NEW q \in States,
         \A i \in 1..4 : FetOrder[i] \in p <=> FetOrder[i] \in q
  PROVE  p = q
  <1>1. \A f \in Fets : f \in p <=> f \in q
    BY DEF FetOrder, Fets
  <1> QED
    BY <1>1 DEF States

(* One gpio_put brings one more FET to the state that is being driven, and *)
(* the fourth makes the pins that state.                                   *)
LEMMA DriveOne ==
  ASSUME NEW p \in States, NEW d \in States, NEW r \in 0..3, NEW q,
         \A i \in 1..4 : i <= r => (FetOrder[i] \in p <=> FetOrder[i] \in d),
         q = IF FetOrder[r + 1] \in d THEN p \cup {FetOrder[r + 1]} ELSE p \ {FetOrder[r + 1]}
  PROVE  /\ \A i \in 1..4 : i <= r + 1 => (FetOrder[i] \in q <=> FetOrder[i] \in d)
         /\ r = 3 => q = d
  <1>1. q \in States
    BY DEF FetOrder, Fets, States
  <1>2. \A i \in 1..4 : i <= r + 1 => (FetOrder[i] \in q <=> FetOrder[i] \in d)
    <2> SUFFICES ASSUME NEW i \in 1..4, i <= r + 1
                 PROVE  FetOrder[i] \in q <=> FetOrder[i] \in d
      OBVIOUS
    <2>1. i <= r \/ i = r + 1
      OBVIOUS
    <2>2. i <= r => FetOrder[i] # FetOrder[r + 1]
      BY DEF FetOrder
    <2> QED
      BY <2>1, <2>2
  <1> QED
    BY <1>1, <1>2, PinsEqual

(* What the handlers need to know of a program.  They only see its length  *)
(* and its states, not that it is a sequence: the SMT translation of Len   *)
(* is not to be mixed with functions on 0..n such as the buffer.           *)
LEMMA ProgramShape ==
  \A prog \in Programs :
    CycleLen(prog) \in 1..MaxLen /\ \A i \in 1..CycleLen(prog) : prog[i] \in States
  BY ProgramsAssumption DEF CycleLen

(* The core starts dark, with no timer. *)
LEMMA InitInv == Init => IInv
  <1> SUFFICES ASSUME Init PROVE IInv
    OBVIOUS
  <1>1. TypeOK
    <2>1. op \in Commands
      BY DEF Init, Commands
    <2>2. pins \in States /\ buf \in [Slots -> States] /\ drive \in States
      BY DEF Init, States, AllOff
    <2>3. len \in 0..MaxLen /\ idx \in Slots
      BY MaxLenAssumption DEF Init, Slots
    <2> QED
      BY <2>1, <2>2, <2>3 DEF Init, TypeOK, PCs
  <1>2. HandlerAt /\ Operands /\ HaltHasNoTimer /\ TimerInv
    BY DEF Init, HandlerAt, Operands, HaltHasNoTimer, Halting, TimerInv, Retiming
  <1>3. IndexInCycle /\ DarkAfterHalt /\ DirectStateHolds
    BY DEF Init, IndexInCycle, DarkAfterHalt, DirectStateHolds
  <1> QED
    BY <1>1, <1>2, <1>3 DEF IInv

(* Every step keeps the inductive invariant. *)
LEMMA NextInv == IInv /\ [Next]_vars => IInv'
  <1> SUFFICES ASSUME IInv, [Next]_vars PROVE IInv'
    OBVIOUS
  <1> USE MaxLenAssumption, InputAssumption, ProgramShape
      DEF IInv, TypeOK, HandlerAt, Operands, HaltHasNoTimer, Halting, TimerInv,
          Retiming, IndexInCycle, DarkAfterHalt, DirectStateHolds, Slots, States, AllOff,
          PCs, core, history, Commit
  <1>1. ASSUME NEW p \in Directs, cmd_S(p) PROVE IInv'
    BY <1>1 DEF cmd_S, Receive, ViewAfter, Commands
  <1>2. ASSUME NEW p \in Directs, cmd_Y(p) PROVE IInv'
    BY <1>2 DEF cmd_Y, Receive, ViewAfter, Commands
  <1>3. ASSUME NEW p \in Programs, cmd_C(p) PROVE IInv'
    BY <1>3 DEF cmd_C, Receive, ViewAfter, Commands
  <1>4. ASSUME NEW p \in Programs, cmd_E(p) PROVE IInv'
    BY <1>4 DEF cmd_E, Receive, ViewAfter, Commands
  <1>5. ASSUME NEW p \in Periods, cmd_F(p) PROVE IInv'
    BY <1>5 DEF cmd_F, Receive, ViewAfter, Commands
  <1>6. ASSUME cmd_G PROVE IInv'
    BY <1>6 DEF cmd_G, Receive, ViewAfter, Commands
  <1>7. ASSUME cmd_H PROVE IInv'
    BY <1>7 DEF cmd_H, Receive, ViewAfter, Commands
  <1>8. ASSUME cmd_K PROVE IInv'
    BY <1>8 DEF cmd_K, Receive, ViewAfter, Commands
  <1>9. ASSUME cmd_X PROVE IInv'
    BY <1>9 DEF cmd_X, Receive, ViewAfter, Commands
  <1>10. ASSUME CancelTimer PROVE IInv'
    BY <1>10 DEF CancelTimer, handle
  <1>11. ASSUME ClearRunning PROVE IInv'
    BY <1>11 DEF ClearRunning, handle
  <1>12. ASSUME PinsOff PROVE IInv'
    BY <1>12 DEF PinsOff, handle
  <1>13. ASSUME DrivePin PROVE IInv'
    <2>1. reg \in 0..3 /\ FetOrder[reg + 1] \in Fets
      BY <1>13 DEF DrivePin, FetOrder, Fets
    <2>2. pins' \in SUBSET Fets
      BY <1>13, <2>1 DEF DrivePin
    <2>3. op.verb = "S" =>
            /\ \A i \in 1..4 : i <= reg + 1 => (FetOrder[i] \in pins' <=> FetOrder[i] \in drive)
            /\ reg = 3 => pins' = drive
      BY <1>13, <2>1, DriveOne, SMTT(30) DEF DrivePin
    <2>5. /\ UNCHANGED <<buf, len, idx, period, timer, running, op, drive, view>>
          /\ pc = "drive"
          /\ reg' = IF reg = 3 THEN 0 ELSE reg + 1
          /\ reg # 3 => pc' = "drive"
          /\ reg = 3 /\ op.verb \in {"F", "G"} => pc' = "rearm"
          /\ reg = 3 /\ op.verb \notin {"F", "G"} => pc' = "idle"
      BY <1>13, <2>1 DEF DrivePin
    <2> QED
      BY <2>1, <2>2, <2>3, <2>5
  <1>14. ASSUME SwapCycle PROVE IInv'
    <2> DEFINE n == CycleLen(op.prog)
    <2>1. op.prog \in Programs /\ n \in 1..MaxLen /\ \A i \in 1..n : op.prog[i] \in States
      BY <1>14 DEF SwapCycle, Commands
    <2>2. /\ pc = "swap" /\ pc' = "idle" /\ len' = n
          /\ idx' = IF op.verb = "C" \/ idx >= n THEN 0 ELSE idx
          /\ UNCHANGED <<pins, period, timer, running, op, drive, reg, view>>
      BY <1>14 DEF SwapCycle
    <2>3. buf' = [i \in Slots |-> IF i < n THEN op.prog[i + 1] ELSE buf[i]]
      BY <1>14 DEF SwapCycle
    <2> HIDE DEF n
    <2>4. buf' \in [Slots -> States]
      <3>1. \A i \in Slots : i < n => i + 1 \in 1..n
        BY <2>1
      <3>2. \A i \in Slots : i < n => op.prog[i + 1] \in States
        BY <2>1, <3>1
      <3> QED
        BY <2>3, <3>2
    <2>5. idx' \in Slots /\ idx' < len' /\ len' \in 0..MaxLen
      BY <2>1, <2>2
    <2> QED
      BY <2>1, <2>2, <2>4, <2>5
  <1>15. ASSUME StorePeriod PROVE IInv'
    BY <1>15 DEF StorePeriod, handle
  <1>16. ASSUME BeginStart PROVE IInv'
    <2>1. buf[idx] \in States
      OBVIOUS
    <2>2. TypeOK'
      BY <1>16, <2>1 DEF BeginStart
    <2>3. (HandlerAt /\ Operands)'
      BY <1>16 DEF BeginStart
    <2>4. (HaltHasNoTimer /\ TimerInv)'
      BY <1>16 DEF BeginStart
    <2>5. (IndexInCycle /\ DarkAfterHalt /\ DirectStateHolds)'
      BY <1>16 DEF BeginStart
    <2> QED
      BY <2>2, <2>3, <2>4, <2>5
  <1>17. ASSUME Disarm PROVE IInv'
    BY <1>17 DEF Disarm, handle
  <1>18. ASSUME Arm PROVE IInv'
    BY <1>18 DEF Arm, handle
  <1>19. ASSUME FlagRunning PROVE IInv'
    BY <1>19 DEF FlagRunning, handle
  <1>20. ASSUME ReadIndex PROVE IInv'
    <2>1. len # 0 => NextIdx(idx, len) \in Slots /\ NextIdx(idx, len) < len
      BY DEF NextIdx
    <2> QED
      BY <1>20, <2>1 DEF ReadIndex, handle
  <1>21. ASSUME StoreIndex PROVE IInv'
    BY <1>21 DEF StoreIndex, handle
  <1>22. ASSUME Reboot PROVE IInv'
    <2>1. buf' \in [Slots -> States] /\ len' \in 0..MaxLen /\ idx' \in Slots
      BY <1>22 DEF Reboot
    <2>2. TypeOK'
      BY <1>22, <2>1 DEF Reboot
    <2>3. (HandlerAt /\ Operands /\ HaltHasNoTimer /\ TimerInv)'
      BY <1>22 DEF Reboot
    <2>4. (IndexInCycle /\ DarkAfterHalt /\ DirectStateHolds)'
      BY <1>22 DEF Reboot
    <2> QED
      BY <2>2, <2>3, <2>4
  <1>23. ASSUME tick_isr PROVE IInv'
    BY <1>23 DEF tick_isr, handle, NextIdx
  <1>24. CASE UNCHANGED vars
    BY <1>24 DEF vars, handle
  <1> QED
    BY <1>1, <1>2, <1>3, <1>4, <1>5, <1>6, <1>7, <1>8, <1>9, <1>10, <1>11, <1>12, <1>13, <1>14, <1>15, <1>16, <1>17, <1>18, <1>19, <1>20, <1>21, <1>22, <1>23, <1>24 DEF Next, Host, MainLoop

-----------------------------------------------------------------------------
(* The inductive invariant holds throughout every behaviour. *)
THEOREM Invariance == Spec => []IInv
  BY InitInv, NextInv, PTL DEF Spec

(* The core's variables keep their types: in particular the index stays    *)
(* inside the cycle buffer whatever the interrupt does to it.              *)
THEOREM TypeCorrect == Spec => []TypeOK
  <1>1. IInv => TypeOK
    BY DEF IInv
  <1> QED
    BY <1>1, Invariance, PTL

(* After H, C or X has been answered no pin is high and no timer is left.  *)
THEOREM HaltIsDark == Spec => []DarkAfterHalt
  <1>1. IInv => DarkAfterHalt
    BY DEF IInv
  <1> QED
    BY <1>1, Invariance, PTL

(* After S has been answered the pins are what S asked for and nothing in  *)
(* the core will change them before the next command.                      *)
THEOREM DirectHolds == Spec => []DirectStateHolds
  <1>1. IInv => DirectStateHolds
    BY DEF IInv
  <1> QED
    BY <1>1, Invariance, PTL

(* Neither the interrupt nor a handler ever drives a stale buffer slot. *)
THEOREM IndexSafe == Spec => []IndexInCycle
  <1>1. IInv => IndexInCycle
    BY DEF IInv
  <1> QED
    BY <1>1, Invariance, PTL

(* Between handlers an armed timer belongs to a running, non-empty cycle   *)
(* and has the period set last, even when arming the timer can fail.       *)
THEOREM TimerSound == Spec => []TimerMatchesState
  <1>1. IInv => TimerMatchesState
    BY DEF IInv, TimerInv, Retiming, TimerMatchesState
  <1> QED
    BY <1>1, Invariance, PTL

-----------------------------------------------------------------------------
(* The interruptible handlers implement the atomic operations of SwitchOps: *)
(* Linearized and CycleLinearized.                                          *)

Loaded == [i \in 1..len |-> buf[i - 1]]

Cores == [pins : States, seq : Seq(States), idx : Nat, period : Nat, running : BOOLEAN]

SpecType == spec \in Cores

(* The loaded cycle and the period are the atomic ones whatever happens,   *)
(* but for an F that has stored its period and not yet re-armed.           *)
Retimed == pc \in {"start", "drive", "rearm", "arm"} /\ op.verb = "F"

CycleFollows ==
  /\ spec.seq = Loaded /\ (len # 0 => spec.idx < len)
  /\ IF Retimed THEN period = op.us /\ running ELSE spec.period = period

(* The index and the running flag follow while the view is not lost.  C    *)
(* and X find them again where they take effect.                           *)
Recovering == op.verb \in {"C", "X"} /\ pc # "idle"
Halted     == pc = "off" \/ (pc = "drive" /\ op.verb = "S")

IndexFollows ==
  view # "lost" /\ ~Recovering =>
    /\ IF pc = "drive" /\ op.verb = "K" THEN idx = NextIdx(spec.idx, len) ELSE idx = spec.idx
    /\ pc = "flag" => spec.running
    /\ pc # "flag" /\ ~Halted => (spec.running <=> running)
    /\ op.verb = "K" /\ pc # "idle" => timer = 0
    /\ pc = "store" => reg = NextIdx(idx, len)
    /\ op.verb = "K" /\ pc \in {"store", "drive"} => len # 0

(* The pins follow while the view is exact, and are late by the handler    *)
(* that is writing them; no timer is armed then.                           *)
Writing == pc \in {"drive", "rearm", "arm"} \/ (pc \in {"period", "start"} /\ op.verb # "C")

PinsFollow ==
  view = "exact" /\ ~Recovering =>
    /\ pc \in {"idle", "swap", "period", "start", "flag", "step", "store"} => pins = spec.pins
    /\ Writing => timer = 0
    /\ pc = "drive" =>
         /\ drive = IF op.verb \in {"S", "Y"} THEN op.pins ELSE buf[idx]
         /\ \A i \in 1..4 : i <= reg => (FetOrder[i] \in pins <=> FetOrder[i] \in drive)
    /\ pc \in {"rearm", "arm"} => pins = buf[idx]

LInv == SpecType /\ CycleFollows /\ IndexFollows /\ PinsFollow
-----------------------------------------------------------------------------
(* What the loaded cycle is, seen as a sequence. *)
LEMMA LoadedSeq ==
  ASSUME TypeOK
  PROVE  /\ Loaded \in Seq(States) /\ Len(Loaded) = len
         /\ \A i \in Slots : i < len => Loaded[i + 1] = buf[i]
         /\ Loaded = <<>> <=> len = 0
  <1>1. len \in Nat /\ (len # 0 => MaxLen \in Nat)
    BY MaxLenAssumption DEF TypeOK
  <1>2. \A i \in 1..len : buf[i - 1] \in States
    BY MaxLenAssumption DEF TypeOK, Slots
  <1>3. Loaded \in Seq(States) /\ Len(Loaded) = len
    BY <1>1, <1>2 DEF Loaded
  <1>4. \A i \in Slots : i < len => Loaded[i + 1] = buf[i]
    BY <1>1, MaxLenAssumption DEF Loaded, Slots
  <1>5. Loaded = <<>> <=> len = 0
    BY <1>3
  <1> QED
    BY <1>3, <1>4, <1>5

(* The atomic operations, field by field.  Halting: dark, stopped, the      *)
(* cycle kept.                                                              *)
LEMMA HaltFields ==
  ASSUME NEW fw \in Cores
  PROVE  LET r == Halt(fw) IN
         /\ r \in Cores /\ r.pins = AllOff /\ ~r.running
         /\ r.seq = fw.seq /\ r.idx = fw.idx /\ r.period = fw.period
  BY DEF Halt, Cores, States, AllOff

(* A direct state: halted, but for the pins. *)
LEMMA DirectFields ==
  ASSUME NEW fw \in Cores, NEW p \in States
  PROVE  LET r == SetDirect(fw, p) IN
         /\ r \in Cores /\ r.pins = p /\ ~r.running
         /\ r.seq = fw.seq /\ r.idx = fw.idx /\ r.period = fw.period
  BY DEF SetDirect, Cores

(* A direct state without a halt: only the pins change. *)
LEMMA DirectNoHaltFields ==
  ASSUME NEW fw \in Cores, NEW p \in States
  PROVE  LET r == SetDirectNoHalt(fw, p) IN
         /\ r \in Cores /\ r.pins = p /\ (r.running <=> fw.running)
         /\ r.seq = fw.seq /\ r.idx = fw.idx /\ r.period = fw.period
  BY DEF SetDirectNoHalt, Cores

(* A programmed cycle: halted, loaded, at its first state. *)
LEMMA ProgramFields ==
  ASSUME NEW fw \in Cores, NEW prog \in Seq(States)
  PROVE  LET r == ProgramCycle(fw, prog) IN
         /\ r \in Cores /\ r.pins = AllOff /\ ~r.running
         /\ r.seq = prog /\ r.idx = 0 /\ r.period = fw.period
  BY HaltFields DEF ProgramCycle, Cores

(* A cycle swapped in: only the buffer and, if it is now too large, the     *)
(* index change.                                                            *)
LEMMA ProgramLiveFields ==
  ASSUME NEW fw \in Cores, NEW prog \in Seq(States)
  PROVE  LET r == ProgramCycleLive(fw, prog) IN
         /\ r \in Cores /\ r.pins = fw.pins /\ (r.running <=> fw.running)
         /\ r.seq = prog /\ r.period = fw.period
         /\ r.idx = IF fw.idx >= Len(prog) THEN 0 ELSE fw.idx
  BY DEF ProgramCycleLive, Cores

(* Starting runs a non-empty cycle from its first state. *)
LEMMA StartFields ==
  ASSUME NEW fw \in Cores, fw.seq # <<>> => fw.idx < Len(fw.seq)
  PROVE  LET r == Start(fw) IN
         /\ r \in Cores /\ r.seq = fw.seq /\ r.idx = fw.idx /\ r.period = fw.period
         /\ CanStart(fw) => r.running /\ r.pins = fw.seq[fw.idx + 1]
         /\ ~CanStart(fw) => r = fw
  <1>1. CASE CanStart(fw)
    <2>1. fw.seq[fw.idx + 1] \in States
      BY <1>1 DEF CanStart, Cores
    <2> QED
      BY <1>1, <2>1 DEF Start, Cores
  <1>2. CASE ~CanStart(fw)
    BY <1>2 DEF Start
  <1> QED
    BY <1>1, <1>2

(* A tick moves to the next state of the loaded cycle and drives it. *)
LEMMA AdvanceFields ==
  ASSUME NEW fw \in Cores
  PROVE  LET r == Advance(fw)
             i == NextIdx(fw.idx, Len(fw.seq)) IN
         /\ r \in Cores /\ r.seq = fw.seq /\ (r.running <=> fw.running) /\ r.period = fw.period
         /\ fw.seq # <<>> => i < Len(fw.seq) /\ r.idx = i /\ r.pins = fw.seq[i + 1]
         /\ fw.seq = <<>> => r = fw
  <1> DEFINE i == NextIdx(fw.idx, Len(fw.seq))
  <1>1. CASE fw.seq # <<>>
    <2>1. i \in Nat /\ i < Len(fw.seq)
      BY <1>1 DEF NextIdx, Cores
    <2>2. fw.seq[i + 1] \in States
      BY <2>1 DEF Cores
    <2> QED
      BY <1>1, <2>1, <2>2 DEF Advance, Cores
  <1>2. CASE fw.seq = <<>>
    BY <1>2 DEF Advance
  <1> QED
    BY <1>1, <1>2

(* Setting the period changes it, and re-arms a running timer. *)
LEMMA PeriodFields ==
  ASSUME NEW fw \in Cores, NEW us \in Nat, fw.seq # <<>> => fw.idx < Len(fw.seq)
  PROVE  LET r == SetPeriod(fw, us) IN
         /\ r \in Cores /\ r.seq = fw.seq /\ r.idx = fw.idx /\ r.period = us
         /\ r.running <=> fw.running
         /\ r.pins = IF fw.running /\ fw.seq # <<>> /\ us # 0
                       THEN fw.seq[fw.idx + 1] ELSE fw.pins
  <1> DEFINE timed == [fw EXCEPT !.period = us]
  <1>1. /\ timed \in Cores /\ timed.seq = fw.seq /\ timed.idx = fw.idx /\ timed.period = us
        /\ (timed.running <=> fw.running) /\ timed.pins = fw.pins
    BY DEF Cores
  <1>2. CASE fw.running
    <2>1. SetPeriod(fw, us) = Start(timed)
      BY <1>2 DEF SetPeriod
    <2> HIDE DEF timed
    <2> QED
      BY <1>1, <1>2, <2>1, StartFields DEF CanStart
  <1>3. CASE ~fw.running
    <2>1. SetPeriod(fw, us) = timed
      BY <1>3 DEF SetPeriod
    <2> HIDE DEF timed
    <2> QED
      BY <1>1, <1>3, <2>1
  <1> QED
    BY <1>2, <1>3

(* The interrupt leaves the index inside the loaded cycle. *)
LEMMA IndexAfterTick ==
  ASSUME TypeOK, len # 0
  PROVE  NextIdx(idx, len) \in Slots /\ NextIdx(idx, len) < len
  BY MaxLenAssumption DEF TypeOK, Slots, NextIdx

(* The atomic view starts where the core does. *)
LEMMA LInit == Init => LInv
  <1> SUFFICES ASSUME Init PROVE LInv
    OBVIOUS
  <1>1. Loaded = <<>>
    BY DEF Init, Loaded
  <1>2. SpecType
    BY DEF Init, SpecType, Cores, Booted, States, AllOff
  <1> QED
    BY <1>1, <1>2 DEF Init, LInv, CycleFollows, IndexFollows, PinsFollow, Retimed, Recovering,
                      Halted, Writing, Booted

(* Every step of the core or of the interrupt keeps the core at a point the *)
(* atomic operations explain.                                               *)
LEMMA LNext == IInv /\ IInv' /\ LInv /\ [Next]_vars => LInv'
  <1> SUFFICES ASSUME IInv, IInv', LInv, [Next]_vars PROVE LInv'
    OBVIOUS
  <1>0. TypeOK /\ TypeOK' /\ HandlerAt /\ Operands /\ HaltHasNoTimer /\ TimerInv /\ IndexInCycle
    BY DEF IInv
  <1>1. /\ len \in Nat /\ idx \in Nat /\ reg \in Nat /\ period \in Nat /\ running \in BOOLEAN
        /\ pins \in States /\ drive \in States /\ op.verb \in Verbs /\ idx \in Slots
        /\ spec \in Cores
    BY <1>0, MaxLenAssumption, InputAssumption
       DEF TypeOK, Slots, LInv, SpecType, Commands, Verbs
  <1>2. /\ Loaded \in Seq(States) /\ Len(Loaded) = len /\ (Loaded = <<>> <=> len = 0)
        /\ len # 0 => Loaded[idx + 1] = buf[idx]
    BY <1>0, <1>1, LoadedSeq DEF IndexInCycle
  <1>3. (buf' = buf /\ len' = len) => Loaded' = Loaded
    BY DEF Loaded
  <1> USE DEF LInv, CycleFollows, IndexFollows, PinsFollow, Retimed, Recovering, Halted, Writing
  <1>4. ASSUME Host PROVE LInv'
    <2>1. /\ pc = "idle" /\ view' = ViewAfter(op'.verb) /\ spec' = spec
          /\ UNCHANGED <<pins, buf, len, idx, period, timer, running>>
          /\ Loaded' = Loaded
      BY <1>4, <1>3 DEF Host, cmd_S, cmd_Y, cmd_C, cmd_E, cmd_F, cmd_G, cmd_H, cmd_K, cmd_X,
                        Receive, core
    <2>2. \/ op'.verb = "S" /\ pc' \in {"cancel", "drive"}
          \/ op'.verb = "Y" /\ pc' = "drive"
          \/ op'.verb = "C" /\ pc' = "cancel"
          \/ op'.verb = "E" /\ pc' = "swap"
          \/ op'.verb = "F" /\ pc' = "period"
          \/ op'.verb = "G" /\ pc' = "start"
          \/ op'.verb = "H" /\ pc' = "cancel"
          \/ op'.verb = "K" /\ pc' = "step"
          \/ op'.verb = "X" /\ pc' = "reboot"
      BY <1>4 DEF Host, cmd_S, cmd_Y, cmd_C, cmd_E, cmd_F, cmd_G, cmd_H, cmd_K, cmd_X, Receive
    <2>3. op'.verb \in {"S", "Y"} => drive' = op'.pins /\ reg' = 0
      BY <1>4 DEF Host, cmd_S, cmd_Y, cmd_C, cmd_E, cmd_F, cmd_G, cmd_H, cmd_K, cmd_X, Receive
    <2>4. op'.verb = "S" /\ pc' = "drive" => ~running /\ timer = 0
      BY <1>4, <1>0 DEF Host, cmd_S, cmd_Y, cmd_C, cmd_E, cmd_F, cmd_G, cmd_H, cmd_K, cmd_X,
                        Receive, TimerInv
    <2> QED
      BY <1>1, <2>1, <2>2, <2>3, <2>4 DEF ViewAfter, SpecType
  <1>10. ASSUME CancelTimer PROVE LInv'
    BY <1>10, <1>0, <1>3 DEF CancelTimer, history, SpecType, HandlerAt
  <1>11. ASSUME ClearRunning PROVE LInv'
    BY <1>11, <1>0, <1>3 DEF ClearRunning, history, SpecType, HandlerAt
  <1>12. ASSUME PinsOff PROVE LInv'
    <2>1. op.verb \in {"S", "C", "H"} /\ timer = 0 /\ ~running /\ Loaded' = Loaded
      BY <1>12, <1>0, <1>3 DEF PinsOff, HandlerAt, HaltHasNoTimer
    <2>2. CASE op.verb = "H"
      <3>1. spec' = Halt(spec) /\ view' = view /\ pc' = "idle" /\ pins' = AllOff
        BY <1>12, <2>2 DEF PinsOff, Commit, Handle
      <3> QED
        BY <1>12, <2>1, <2>2, <3>1, HaltFields DEF PinsOff, SpecType
    <2>3. CASE op.verb \in {"S", "C"}
      <3>1. spec' = spec /\ view' = view /\ pc' \in {"drive", "swap"}
        BY <1>12, <2>3 DEF PinsOff, history
      <3>2. pc' = "drive" => op.verb = "S" /\ drive' = op.pins /\ reg' = 0
        BY <1>12, <1>0, <2>3 DEF PinsOff, Operands, HandlerAt
      <3>3. pc' = "swap" => op.verb = "C"
        BY <1>12, <2>3 DEF PinsOff
      <3> QED
        BY <1>12, <2>1, <2>3, <3>1, <3>2, <3>3 DEF PinsOff, SpecType
    <2> QED
      BY <2>1, <2>2, <2>3
  <1>13. ASSUME DrivePin PROVE LInv'
    <2>1. /\ pc = "drive" /\ reg \in 0..3 /\ op.verb \in {"S", "Y", "F", "G", "K"}
          /\ UNCHANGED <<len, idx, period, timer, running, op, drive, buf>>
          /\ Loaded' = Loaded
          /\ pins' = IF FetOrder[reg + 1] \in drive
                       THEN pins \cup {FetOrder[reg + 1]} ELSE pins \ {FetOrder[reg + 1]}
      BY <1>13, <1>0, <1>3 DEF DrivePin, HandlerAt
    <2>2. view = "exact" =>
            /\ \A i \in 1..4 : i <= reg + 1 => (FetOrder[i] \in pins' <=> FetOrder[i] \in drive)
            /\ reg = 3 => pins' = drive
      BY <2>1, <1>1, DriveOne
    <2>3. CASE reg # 3
      <3>1. pc' = "drive" /\ reg' = reg + 1 /\ spec' = spec /\ view' = view
        BY <1>13, <2>3 DEF DrivePin, history
      <3> QED
        BY <2>1, <2>2, <3>1 DEF SpecType
    <2>4. CASE reg = 3 /\ op.verb \in {"F", "G"}
      <3>1. pc' = "rearm" /\ spec' = spec /\ view' = view
        BY <1>13, <2>4 DEF DrivePin, history
      <3> QED
        BY <2>1, <2>2, <2>4, <3>1 DEF SpecType
    <2>5. CASE reg = 3 /\ op.verb \in {"S", "Y"}
      <3>1. pc' = "idle" /\ view' = view
        BY <1>13, <2>5 DEF DrivePin, Commit
      <3> DEFINE p == op.pins
      <3>2. p \in States
        BY <2>5, <1>0, InputAssumption DEF Operands
      <3>3. op.verb = "S" => spec' = SetDirect(spec, p) /\ ~running /\ timer = 0
        BY <1>13, <2>5, <1>0, <2>1 DEF DrivePin, Commit, Handle, HaltHasNoTimer
      <3>4. op.verb = "Y" => spec' = SetDirectNoHalt(spec, p)
        BY <1>13, <2>5 DEF DrivePin, Commit, Handle
      <3>5. /\ spec' \in Cores /\ spec'.pins = p /\ spec'.seq = spec.seq
            /\ spec'.idx = spec.idx /\ spec'.period = spec.period
            /\ spec'.running <=> (op.verb = "Y" /\ spec.running)
        <4> HIDE DEF p
        <4>1. CASE op.verb = "S"
          <5>1. spec' = SetDirect(spec, p)
            BY <3>3, <4>1
          <5> QED
            BY <1>1, <3>2, <4>1, <5>1, DirectFields
        <4>2. CASE op.verb = "Y"
          <5>1. spec' = SetDirectNoHalt(spec, p)
            BY <3>4, <4>2
          <5> QED
            BY <1>1, <3>2, <4>2, <5>1, DirectNoHaltFields
        <4> QED
          BY <2>5, <4>1, <4>2
      <3>6. SpecType' /\ CycleFollows'
        BY <2>1, <2>5, <3>1, <3>5 DEF SpecType
      <3>7. IndexFollows' /\ PinsFollow'
        BY <2>1, <2>2, <2>5, <3>1, <3>3, <3>5
      <3> QED
        BY <3>6, <3>7
    <2>6. CASE reg = 3 /\ op.verb = "K"
      <3>1. pc' = "idle" /\ view' = view /\ spec' = Advance(spec)
        BY <1>13, <2>6 DEF DrivePin, Commit, Handle
      <3>2. /\ spec' \in Cores /\ spec'.seq = Loaded /\ spec'.period = spec.period
            /\ spec'.running <=> spec.running
            /\ len # 0 => spec'.idx = NextIdx(spec.idx, len) /\ spec'.idx < len
                            /\ spec'.pins = Loaded[spec'.idx + 1]
            /\ len = 0 => spec' = spec
        BY <1>1, <1>2, <3>1, AdvanceFields
      <3>3. view # "lost" => len # 0 /\ spec'.idx = idx /\ (spec.running <=> running)
        BY <2>1, <2>6, <3>2
      <3>4. view = "exact" => pins' = spec'.pins
        BY <1>2, <2>1, <2>2, <2>6, <3>2, <3>3, ZenonT(60)
      <3>5. SpecType' /\ CycleFollows'
        BY <1>1, <2>1, <2>6, <3>1, <3>2 DEF SpecType
      <3>6. IndexFollows' /\ PinsFollow'
        BY <2>1, <2>6, <3>1, <3>2, <3>3, <3>4
      <3> QED
        BY <3>5, <3>6
    <2> QED
      BY <2>1, <2>3, <2>4, <2>5, <2>6
  <1>14. ASSUME SwapCycle PROVE LInv'
    <2> DEFINE n == CycleLen(op.prog)
    <2>1. /\ pc = "swap" /\ pc' = "idle" /\ op.verb \in {"C", "E"} /\ view' = view
          /\ len' = n /\ idx' = IF op.verb = "C" \/ idx >= n THEN 0 ELSE idx
          /\ UNCHANGED <<pins, period, timer, running, op, drive, reg>>
      BY <1>14, <1>0 DEF SwapCycle, HandlerAt, Commit
    <2>2. op.prog \in Programs /\ n \in 1..MaxLen
      BY <2>1, <1>0, ProgramShape DEF Operands
    <2>3. \A i \in 1..n : buf'[i - 1] = op.prog[i]
      BY <1>14, <2>2, MaxLenAssumption DEF SwapCycle, Slots
    <2>4. op.prog \in Seq(States) /\ n = Len(op.prog) /\ n \in Nat /\ n # 0
      BY <2>2, ProgramsAssumption, MaxLenAssumption DEF CycleLen
    <2> HIDE DEF n
    <2>5. Loaded' = op.prog
      BY <2>1, <2>3, <2>4 DEF Loaded
    <2>6. CASE op.verb = "C"
      <3>1. spec' = ProgramCycle(spec, op.prog)
        BY <1>14, <2>6 DEF SwapCycle, Commit, Handle
      <3>2. timer = 0 /\ ~running /\ pins = AllOff
        BY <1>0, <2>1, <2>6 DEF HaltHasNoTimer, Halting
      <3> QED
        BY <1>1, <2>1, <2>4, <2>5, <2>6, <3>1, <3>2, ProgramFields DEF SpecType
    <2>7. CASE op.verb = "E"
      <3>1. spec' = ProgramCycleLive(spec, op.prog)
        BY <1>14, <2>7 DEF SwapCycle, Commit, Handle
      <3>2. spec.idx \in Nat
        BY <1>1 DEF Cores
      <3> QED
        BY <1>1, <2>1, <2>4, <2>5, <2>7, <3>1, <3>2, ProgramLiveFields DEF SpecType
    <2> QED
      BY <2>1, <2>6, <2>7
  <1>15. ASSUME StorePeriod PROVE LInv'
    <2>1. /\ pc = "period" /\ op.verb = "F" /\ period' = op.us /\ view' = view
          /\ UNCHANGED <<pins, buf, len, idx, timer, running, op, drive, reg>>
          /\ Loaded' = Loaded /\ op.us \in Nat
      BY <1>15, <1>0, <1>3, InputAssumption DEF StorePeriod, HandlerAt, Commit, history, Operands
    <2>2. CASE running
      <3>1. pc' = "start" /\ spec' = spec
        BY <1>15, <2>2 DEF StorePeriod, history
      <3> QED
        BY <2>1, <2>2, <3>1 DEF SpecType
    <2>3. CASE ~running
      <3>1. pc' = "idle" /\ spec' = SetPeriod(spec, op.us)
        BY <1>15, <2>1, <2>3 DEF StorePeriod, Commit, Handle
      <3> QED
        BY <1>1, <1>2, <2>1, <2>3, <3>1, PeriodFields DEF SpecType
    <2> QED
      BY <2>2, <2>3
  <1>16. ASSUME BeginStart PROVE LInv'
    <2>1. /\ pc = "start" /\ op.verb \in {"F", "G"} /\ view' = view
          /\ UNCHANGED <<pins, buf, len, idx, period, timer, running, op>>
          /\ Loaded' = Loaded /\ (op.verb = "F" => op.us \in Nat)
      BY <1>16, <1>0, <1>3, InputAssumption DEF BeginStart, HandlerAt, Commit, history, core, Operands
    <2>2. CASE len # 0 /\ period # 0
      <3>1. pc' = "drive" /\ spec' = spec /\ drive' = buf[idx] /\ reg' = 0
        BY <1>16, <2>2 DEF BeginStart, history
      <3> QED
        BY <2>1, <3>1 DEF SpecType
    <2>3. CASE ~(len # 0 /\ period # 0)
      <3>1. pc' = "idle" /\ spec' = Handle(spec, op)
        BY <1>16, <2>3 DEF BeginStart, Commit
      <3>2. CASE op.verb = "G"
        <4>1. spec' = spec
          BY <1>2, <2>1, <2>3, <3>1, <3>2 DEF Handle, Start, CanStart
        <4> QED
          BY <2>1, <3>1, <3>2, <4>1 DEF SpecType
      <3>3. CASE op.verb = "F"
        <4>1. spec' = SetPeriod(spec, op.us)
          BY <3>1, <3>3 DEF Handle
        <4> QED
          BY <1>1, <1>2, <2>1, <2>3, <3>1, <3>3, <4>1, PeriodFields DEF SpecType
      <3> QED
        BY <2>1, <3>2, <3>3
    <2> QED
      BY <2>2, <2>3
  <1>17. ASSUME Disarm PROVE LInv'
    BY <1>17, <1>0, <1>3 DEF Disarm, history, SpecType, HandlerAt
  <1>19. ASSUME FlagRunning PROVE LInv'
    BY <1>19, <1>0, <1>3 DEF FlagRunning, history, SpecType, HandlerAt
  <1>18. ASSUME Arm PROVE LInv'
    <2>1. /\ pc = "arm" /\ op.verb \in {"F", "G"} /\ pc' \in {"flag", "idle"}
          /\ view' = IF pc' = "flag" THEN view ELSE "lost"
          /\ UNCHANGED <<pins, buf, len, idx, period, running, op>>
          /\ Loaded' = Loaded /\ len # 0 /\ period # 0 /\ spec' = Handle(spec, op)
          /\ (op.verb = "F" => op.us \in Nat)
      BY <1>18, <1>0, <1>3, InputAssumption DEF Arm, HandlerAt, TimerInv, Operands
    <2>2. /\ spec' \in Cores /\ spec'.seq = Loaded /\ spec'.idx = spec.idx /\ spec'.period = period
          /\ view # "lost" => spec'.running /\ spec'.pins = Loaded[spec.idx + 1]
      <3>1. CASE op.verb = "G"
        <4>1. spec' = Start(spec) /\ CanStart(spec)
          BY <1>2, <2>1, <3>1 DEF Handle, CanStart
        <4> QED
          BY <1>1, <1>2, <2>1, <3>1, <4>1, StartFields
      <3>2. CASE op.verb = "F"
        <4>1. spec' = SetPeriod(spec, op.us)
          BY <2>1, <3>2 DEF Handle
        <4>2. view # "lost" => spec.running
          BY <2>1, <3>2
        <4> QED
          BY <1>1, <1>2, <2>1, <3>2, <4>1, <4>2, PeriodFields
      <3> QED
        BY <2>1, <3>1, <3>2
    <2>3. view # "lost" => idx = spec.idx
      BY <2>1
    <2>4. view = "exact" => pins = Loaded[idx + 1]
      BY <1>2, <2>1
    <2> QED
      BY <2>1, <2>2, <2>3, <2>4 DEF SpecType
  <1>20. ASSUME ReadIndex PROVE LInv'
    <2>1. /\ pc = "step" /\ op.verb = "K" /\ view' = view /\ Loaded' = Loaded
          /\ UNCHANGED <<pins, buf, len, idx, period, timer, running, op, drive>>
      BY <1>20, <1>0, <1>3 DEF ReadIndex, HandlerAt, Commit, history, core
    <2>2. CASE len = 0
      <3>1. pc' = "idle" /\ spec' = Advance(spec)
        BY <1>20, <2>1, <2>2 DEF ReadIndex, Commit, Handle
      <3>2. spec' = spec
        BY <1>1, <1>2, <2>2, <3>1, AdvanceFields
      <3> QED
        BY <2>1, <2>2, <3>1, <3>2 DEF SpecType
    <2>3. CASE len # 0
      <3>1. pc' = "store" /\ spec' = spec /\ reg' = NextIdx(idx, len)
        BY <1>20, <2>3 DEF ReadIndex, history
      <3> QED
        BY <2>1, <2>3, <3>1 DEF SpecType
    <2> QED
      BY <2>2, <2>3
  <1>21. ASSUME StoreIndex PROVE LInv'
    <2>1. /\ pc = "store" /\ op.verb = "K" /\ pc' = "drive" /\ Loaded' = Loaded
          /\ idx' = reg /\ drive' = buf[reg] /\ reg' = 0 /\ spec' = spec /\ view' = view
          /\ UNCHANGED <<pins, buf, len, period, timer, running, op>>
      BY <1>21, <1>0, <1>3 DEF StoreIndex, HandlerAt, history
    <2> QED
      BY <2>1 DEF SpecType
  <1>22. ASSUME Reboot PROVE LInv'
    <2>1. /\ pc' = "idle" /\ spec' = Booted /\ len' = 0 /\ idx' = 0 /\ period' = 0
          /\ running' = FALSE /\ timer' = 0 /\ pins' = AllOff
      BY <1>22, <1>0 DEF Reboot, HandlerAt, Commit, Handle
    <2>2. Loaded' = <<>>
      BY <2>1 DEF Loaded
    <2>3. Booted \in Cores
      BY DEF Booted, Cores, States, AllOff
    <2>4. /\ spec'.seq = <<>> /\ spec'.idx = 0 /\ spec'.period = 0 /\ ~spec'.running
          /\ spec'.pins = AllOff
      BY <2>1 DEF Booted
    <2> QED
      BY <2>1, <2>2, <2>3, <2>4 DEF SpecType
  <1>23. ASSUME tick_isr PROVE LInv'
    <2>1. /\ timer # 0 /\ len # 0 /\ idx' = NextIdx(idx, len) /\ pins' = buf[idx']
          /\ spec' = Tick(spec) /\ Loaded' = Loaded
          /\ UNCHANGED <<buf, len, period, timer, running, pc, op, drive, reg, view>>
      BY <1>23, <1>3 DEF tick_isr, handle
    <2>2. buf[idx'] = Loaded[idx' + 1]
      BY <1>0, <2>1, LoadedSeq, IndexAfterTick
    <2>3. /\ spec' \in Cores /\ spec'.seq = Loaded /\ spec'.period = spec.period
          /\ spec'.running <=> spec.running
          /\ spec'.idx < len
          /\ spec.running => spec'.idx = NextIdx(spec.idx, len)
                              /\ spec'.pins = Loaded[spec'.idx + 1]
      <3>1. CASE spec.running
        BY <1>1, <1>2, <2>1, <3>1, AdvanceFields DEF Tick
      <3>2. CASE ~spec.running
        BY <1>1, <2>1, <3>2 DEF Tick
      <3> QED
        BY <3>1, <3>2
    <2>4. pc # "flag" => running /\ ~Halted
      BY <1>0, <2>1 DEF TimerInv, HaltHasNoTimer
    <2>5. view # "lost" /\ ~Recovering => spec.running
      BY <2>1, <2>4
    <2>6. view # "lost" /\ ~Recovering => idx' = spec'.idx /\ pins' = spec'.pins
      BY <2>1, <2>2, <2>3, <2>5
    <2>7. pc # "store"  \/ view = "lost" \/ Recovering
      BY <1>0, <2>1 DEF HandlerAt
    <2> QED
      BY <2>1, <2>3, <2>4, <2>5, <2>6, <2>7 DEF SpecType
  <1>24. CASE UNCHANGED vars
    BY <1>24, <1>3 DEF vars, core, handle, history, SpecType
  <1> QED
    BY <1>4, <1>10, <1>11, <1>12, <1>13, <1>14, <1>15, <1>16, <1>17, <1>18, <1>19, <1>20, <1>21,
       <1>22, <1>23, <1>24
       DEF Next, MainLoop
-----------------------------------------------------------------------------
(* The core follows the atomic operations throughout every behaviour. *)
THEOREM Follows == Spec => [](IInv /\ LInv)
  <1>1. Init => IInv /\ LInv
    BY InitInv, LInit
  <1>2. IInv /\ LInv /\ [Next]_vars => (IInv /\ LInv)'
    BY NextInv, LNext
  <1> QED
    BY <1>1, <1>2, PTL DEF Spec

(* Two cores with the same fields are the same core. *)
LEMMA SameCore ==
  ASSUME NEW a \in Cores, NEW b \in Cores,
         a.pins = b.pins, a.seq = b.seq, a.idx = b.idx, a.period = b.period,
         a.running <=> b.running
  PROVE  a = b
  BY DEF Cores

(* Between two handlers the cycle, the index, the period and the running   *)
(* flag are those of the atomic view, unless K or a failed alarm lost it.  *)
THEOREM CycleAsAtomic == Spec => []CycleLinearized
  <1>1. IInv /\ LInv => CycleLinearized
    <2> SUFFICES ASSUME IInv, LInv, pc = "idle", view # "lost"
                 PROVE  Concrete = [spec EXCEPT !.pins = pins]
      BY DEF CycleLinearized
    <2> DEFINE s == [spec EXCEPT !.pins = pins]
    <2>0. pins \in States /\ idx \in Nat /\ period \in Nat /\ running \in BOOLEAN
      BY MaxLenAssumption, InputAssumption DEF IInv, TypeOK, Slots
    <2>1. Loaded \in Seq(States)
      BY LoadedSeq DEF IInv
    <2>2. Concrete = [pins |-> pins, seq |-> Loaded, idx |-> idx, period |-> period, running |-> running]
      BY DEF Concrete, Loaded
    <2>3. /\ spec \in Cores /\ spec.seq = Loaded /\ spec.idx = idx /\ spec.period = period
          /\ spec.running <=> running
      BY DEF LInv, SpecType, CycleFollows, IndexFollows, Retimed, Recovering, Halted
    <2>4. /\ s \in Cores /\ s.pins = pins /\ s.seq = spec.seq /\ s.idx = spec.idx
          /\ s.period = spec.period /\ (s.running <=> spec.running)
      BY <2>0, <2>3 DEF Cores
    <2>5. Concrete \in Cores
      BY <2>0, <2>1, <2>2 DEF Cores
    <2> HIDE DEF s
    <2>6. Concrete = s
      BY <2>2, <2>3, <2>4, <2>5, SameCore
    <2> QED
      BY <2>6 DEF s
  <1> QED
    BY <1>1, Follows, PTL

(* With only S, C, E, H and X under an armed timer, and again after the    *)
(* next halt, the interruptible handlers are atomic operations.            *)
THEOREM HandlersAreAtomic == Spec => []Linearized
  <1>1. IInv /\ LInv => Linearized
    <2> SUFFICES ASSUME IInv, LInv, pc = "idle", view = "exact"
                 PROVE  Concrete = spec
      BY DEF Linearized
    <2>0. pins \in States /\ idx \in Nat /\ period \in Nat /\ running \in BOOLEAN
      BY MaxLenAssumption, InputAssumption DEF IInv, TypeOK, Slots
    <2>1. Loaded \in Seq(States)
      BY LoadedSeq DEF IInv
    <2>2. Concrete = [pins |-> pins, seq |-> Loaded, idx |-> idx, period |-> period, running |-> running]
      BY DEF Concrete, Loaded
    <2>3. /\ spec \in Cores /\ spec.pins = pins /\ spec.seq = Loaded /\ spec.idx = idx
          /\ spec.period = period /\ (spec.running <=> running)
      BY DEF LInv, SpecType, CycleFollows, IndexFollows, PinsFollow, Retimed, Recovering, Halted
    <2>4. Concrete \in Cores
      BY <2>0, <2>1, <2>2 DEF Cores
    <2> QED
      BY <2>2, <2>3, <2>4, SameCore
  <1> QED
    BY <1>1, Follows, PTL

-----------------------------------------------------------------------------
(* The panel of the terminal client: commands keep their order.            *)

SettingNames == {"mode", "freq", "rate", "avg", "on", "cc", "thresholds"}

(* What a queue or the wire holds is of no one type: a command carries the *)
(* value it sets.                                                          *)
IsQueue(q) == q \in Seq({q[i] : i \in 1..Len(q)})

(* A sentinel has number 0, and a command that is sent names a setting.    *)
IsCommand(c) == c.set \in SettingNames /\ (c.set = "rate" => c.to \in Nat)
IsEntry(c)   ==
  c.n \in Nat /\ (IF c.n = 0 THEN c = Keys!Sentinel ELSE IsCommand(c))

Entries(q) == IsQueue(q) /\ \A i \in 1..Len(q) : IsEntry(q[i])

(* The commands of q, in order, have numbers from above low to high.       *)
Numbered(q, low, high) ==
  /\ \A i \in 1..Len(q) : q[i].n # 0 => low < q[i].n /\ q[i].n <= high
  /\ \A i, j \in 1..Len(q) : i < j /\ q[i].n # 0 /\ q[j].n # 0 => q[i].n < q[j].n

DrainTypes ==
  /\ pSender \in {1, 2} /\ DOMAIN pDrain = {1, 2}
  /\ \A d \in {1, 2} : /\ DOMAIN pDrain[d] = {"at", "has"}
                       /\ pDrain[d].at \in {"none", "look", "get", "send", "leaving"}

(* A thread that sends is started only when the last one is gone.          *)
OneDrain == \A d \in {1, 2} : d # pSender => pDrain[d].at = "none"

QueueTypes ==
  /\ pGiven \in Nat
  /\ Entries(pQueue) /\ Entries(pWire)
  /\ \A i \in 1..Len(pWire) : pWire[i].n # 0
  /\ pDrain[pSender].at = "send" =>
       IsEntry(pDrain[pSender].has) /\ pDrain[pSender].has.n # 0

(* Carried out up to c, on the wire up to w, held up to h, queued above.    *)
InOrder ==
  \E c, w, h \in 0..pGiven :
    /\ c <= w /\ w <= h
    /\ pCarried # None => pCarried.n = c
    /\ Numbered(pWire, c, w)
    /\ pDrain[pSender].at = "send" => w < pDrain[pSender].has.n /\ pDrain[pSender].has.n <= h
    /\ Numbered(pQueue, h, pGiven)

OrderInv == DrainTypes /\ OneDrain /\ QueueTypes /\ InOrder

(* When the client moves, the panel moves as its module says.              *)
LEMMA PanelMoves == ClientSpec => Keys!Spec
  <1>1. ClientInit => Keys!Init
    BY DEF ClientInit
  <1>2. [ClientNext]_clientVars => [Keys!Next]_Keys!vars
    BY DEF ClientNext, clientVars, pVars, Keys!vars, Keys!client
  <1> QED
    BY <1>1, <1>2, PTL DEF ClientSpec, Keys!Spec

(* What is put at the end of a queue leaves the rest in place.             *)
LEMMA AppendQueue ==
  ASSUME NEW q, IsQueue(q), NEW c
  PROVE  /\ IsQueue(Append(q, c)) /\ Len(q) \in Nat /\ Len(Append(q, c)) = Len(q) + 1
         /\ \A i \in 1..Len(q) : Append(q, c)[i] = q[i]
         /\ Append(q, c)[Len(q) + 1] = c
  <1> DEFINE S == {q[i] : i \in 1..Len(q)} \cup {c}
             r == Append(q, c)
  <1>1. q \in Seq(S) /\ c \in S /\ Len(q) \in Nat
    <2>1. q \in Seq({q[i] : i \in 1..Len(q)})
      BY DEF IsQueue
    <2> QED
      BY <2>1, SeqMonotonic, LenProperties
  <1>2. r \in Seq(S) /\ Len(r) = Len(q) + 1 /\ r[Len(q) + 1] = c
        /\ \A i \in 1..Len(q) : r[i] = q[i]
    BY <1>1, AppendProperties
  <1>3. S \subseteq {r[i] : i \in 1..Len(r)}
    BY <1>1, <1>2
  <1>4. IsQueue(r)
    <2>1. r \in Seq({r[i] : i \in 1..Len(r)})
      <3> HIDE DEF r, S
      <3> QED
        BY <1>2, <1>3, SeqMonotonic, Zenon
    <2> QED
      BY <2>1 DEF IsQueue
  <1> QED
    BY <1>1, <1>2, <1>4

(* An entry put into a queue of entries. *)
LEMMA AppendEntry ==
  ASSUME NEW q, Entries(q), NEW c, IsEntry(c)
  PROVE  /\ Entries(Append(q, c)) /\ Len(q) \in Nat /\ Len(Append(q, c)) = Len(q) + 1
         /\ \A i \in 1..Len(q) : Append(q, c)[i] = q[i]
         /\ Append(q, c)[Len(q) + 1] = c
  <1> DEFINE r == Append(q, c)
  <1>1. /\ IsQueue(r) /\ Len(q) \in Nat /\ Len(r) = Len(q) + 1
        /\ \A i \in 1..Len(q) : r[i] = q[i]
        /\ r[Len(q) + 1] = c
    BY AppendQueue DEF Entries
  <1> HIDE DEF r
  <1>2. \A i \in 1..Len(r) : IsEntry(r[i])
    BY <1>1 DEF Entries
  <1> QED
    BY <1>1, <1>2 DEF Entries, r

(* No command is in order. *)
LEMMA NothingIsEntries ==
  Entries(<<>>) /\ (\A low, high : Numbered(<<>>, low, high)) /\ Len(<<>>) = 0
  <1>1. <<>> \in Seq({<<>>[i] : i \in 1..Len(<<>>)}) /\ Len(<<>>) = 0
    BY EmptySeq
  <1> QED
    BY <1>1 DEF Entries, IsQueue, Numbered

(* What is put at the end has the highest number, or none.                 *)
LEMMA AppendNumbered ==
  ASSUME NEW q, Entries(q), NEW c, IsEntry(c), NEW low \in Nat, NEW high \in Nat,
         NEW top \in Nat, Numbered(q, low, high), low <= high, high <= top,
         c.n # 0 => high < c.n /\ c.n <= top
  PROVE  Numbered(Append(q, c), low, top)
  <1> DEFINE r == Append(q, c)
  <1>0. \A i \in 1..Len(q) : q[i].n # 0 => low < q[i].n /\ q[i].n <= top /\ q[i].n <= high
    BY DEF Numbered, Entries, IsEntry
  <1> HIDE DEF r
  <1>1. /\ Entries(r) /\ Len(q) \in Nat /\ Len(r) = Len(q) + 1
        /\ \A i \in 1..Len(q) : r[i] = q[i]
        /\ r[Len(q) + 1] = c
    BY AppendEntry DEF r
  <1>2. \A i \in 1..Len(q) : q[i].n \in Nat
    BY DEF Entries, IsEntry
  <1>3. c.n \in Nat
    BY DEF IsEntry
  <1>4. \A i \in 1..Len(r) : r[i].n # 0 => low < r[i].n /\ r[i].n <= top
    BY <1>0, <1>1, <1>2, <1>3
  <1>5. ASSUME NEW i \in 1..Len(r), NEW j \in 1..Len(r), i < j, r[i].n # 0, r[j].n # 0
        PROVE  r[i].n < r[j].n
    <2>1. i \in 1..Len(q) /\ r[i] = q[i]
      BY <1>1, <1>5
    <2>2. CASE j = Len(q) + 1
      BY <1>0, <1>1, <1>2, <1>3, <1>5, <2>1, <2>2
    <2>3. CASE j # Len(q) + 1
      <3>1. j \in 1..Len(q) /\ r[j] = q[j]
        BY <1>1, <2>3
      <3>2. \A a, b \in 1..Len(q) : a < b /\ q[a].n # 0 /\ q[b].n # 0 => q[a].n < q[b].n
        BY Zenon DEF Numbered
      <3> QED
        BY <1>5, <2>1, <3>1, <3>2, Zenon
    <2> QED
      BY <2>2, <2>3
  <1> QED
    BY <1>1, <1>4, <1>5 DEF Numbered, r

(* A full queue drops it. *)
LEMMA PutEntry ==
  ASSUME NEW q, Entries(q), NEW c, IsEntry(c), NEW low \in Nat, NEW high \in Nat,
         NEW top \in Nat, Numbered(q, low, high), low <= high, high <= top,
         c.n # 0 => high < c.n /\ c.n <= top
  PROVE  Entries(Keys!Put(q, c)) /\ Numbered(Keys!Put(q, c), low, top)
  <1>1. Numbered(q, low, top)
    BY DEF Numbered, Entries, IsEntry
  <1>2. Entries(Append(q, c)) /\ Numbered(Append(q, c), low, top)
    BY AppendEntry, AppendNumbered
  <1> QED
    BY <1>1, <1>2 DEF Keys!Put

(* Behind the first command of a queue the numbers are higher than its own. *)
LEMMA TakeEntry ==
  ASSUME NEW q, Entries(q), q # <<>>, NEW low \in Nat, NEW high \in Nat, Numbered(q, low, high)
  PROVE  /\ Entries(Tail(q)) /\ IsEntry(Head(q))
         /\ Head(q).n # 0 => /\ low < Head(q).n /\ Head(q).n <= high
                             /\ Numbered(Tail(q), Head(q).n, high)
         /\ Head(q).n = 0 => Numbered(Tail(q), low, high)
         /\ (\A i \in 1..Len(q) : q[i].n # 0) =>
              Head(q).n # 0 /\ \A i \in 1..Len(Tail(q)) : Tail(q)[i].n # 0
  <1> DEFINE S == {q[i] : i \in 1..Len(q)}
             r == Tail(q)
  <1>1. q \in Seq(S)
    BY DEF Entries, IsQueue
  <1> HIDE DEF S
  <1>2. r \in Seq(S) /\ Len(r) = Len(q) - 1 /\ \A i \in 1..Len(r) : r[i] = q[i + 1]
    BY <1>1, HeadTailProperties
  <1>3. Len(q) \in Nat /\ 1 \in 1..Len(q) /\ Head(q) = q[1]
    BY <1>1, EmptySeq
  <1> HIDE DEF r
  <1>4. Len(r) \in Nat /\ \A i \in 1..Len(r) : i + 1 \in 1..Len(q)
    BY <1>2, <1>3, LenProperties
  <1>5. IsQueue(r)
    <2>1. r \in [1..Len(r) -> S]
      BY <1>2, LenProperties
    <2>2. r \in [1..Len(r) -> {r[i] : i \in 1..Len(r)}]
      BY <2>1
    <2> QED
      BY <2>2, <1>4, SeqDef DEF IsQueue
  <1>6. Entries(r) /\ IsEntry(q[1])
    BY <1>2, <1>3, <1>4, <1>5 DEF Entries
  <1>7. \A i \in 1..Len(q) : q[i].n \in Nat
    BY DEF Entries, IsEntry
  <1>8. ASSUME NEW low2 \in Nat,
               \A i \in 2..Len(q) : q[i].n # 0 => low2 < q[i].n /\ q[i].n <= high
        PROVE  Numbered(r, low2, high)
    <2>1. \A i \in 1..Len(r) : r[i] = q[i + 1] /\ i + 1 \in 2..Len(q)
      BY <1>2, <1>3, <1>4
    <2>2. \A i, j \in 1..Len(q) : i < j /\ q[i].n # 0 /\ q[j].n # 0 => q[i].n < q[j].n
      BY DEF Numbered
    <2>3. ASSUME NEW i \in 1..Len(r), NEW j \in 1..Len(r), i < j, r[i].n # 0, r[j].n # 0
          PROVE  r[i].n < r[j].n
      <3>1. i + 1 \in 1..Len(q) /\ j + 1 \in 1..Len(q) /\ i + 1 < j + 1
        BY <1>4, <2>3
      <3>2. q[i + 1].n # 0 /\ q[j + 1].n # 0
        BY <2>1, <2>3
      <3> QED
        BY <2>1, <2>2, <3>1, <3>2
    <2>4. \A i \in 1..Len(r) : r[i].n # 0 => low2 < r[i].n /\ r[i].n <= high
      BY <2>1, <1>8
    <2> QED
      BY <2>3, <2>4 DEF Numbered
  <1>9. Numbered(r, low, high)
    <2>1. \A i \in 2..Len(q) : q[i].n # 0 => low < q[i].n /\ q[i].n <= high
      BY DEF Numbered
    <2> QED
      BY <2>1, <1>8
  <1>11. ASSUME q[1].n # 0  PROVE  low < q[1].n /\ q[1].n <= high /\ Numbered(r, q[1].n, high)
    <2>1. low < q[1].n /\ q[1].n <= high
      BY <1>3, <1>11 DEF Numbered
    <2>2. ASSUME NEW i \in 2..Len(q), q[i].n # 0
          PROVE  q[1].n < q[i].n /\ q[i].n <= high
      <3>1. i \in 1..Len(q) /\ 1 < i
        BY <1>3, <2>2
      <3> QED
        BY <1>3, <1>11, <2>2, <3>1 DEF Numbered
    <2> QED
      BY <2>1, <2>2, <1>3, <1>7, <1>8
  <1>10. (\A i \in 1..Len(q) : q[i].n # 0) =>
           q[1].n # 0 /\ \A i \in 1..Len(r) : r[i].n # 0
    BY <1>2, <1>3, <1>4
  <1> QED
    BY <1>3, <1>6, <1>9, <1>10, <1>11 DEF r

-----------------------------------------------------------------------------
(* One thread sends, and a new one holds nothing.                          *)
LEMMA ThreadStarts ==
  ASSUME DrainTypes, OneDrain, Keys!EnsureThread
  PROVE  /\ DrainTypes' /\ OneDrain'
         /\ pDrain'[pSender'].at = "send" =>
              pDrain[pSender].at = "send" /\ pDrain'[pSender'].has = pDrain[pSender].has
  <1>1. CASE pDrain[pSender].at # "none"
    BY <1>1 DEF Keys!EnsureThread, DrainTypes, OneDrain
  <1>2. CASE pDrain[pSender].at = "none"
    <2>1. PICK d \in {1, 2} : pDrain' = [pDrain EXCEPT ![d].at = "look"] /\ pSender' = d
      BY <1>2 DEF Keys!EnsureThread, Keys!Drains
    <2>2. \A e \in {1, 2} : pDrain[e].at = "none"
      BY <1>2 DEF DrainTypes, OneDrain
    <2> QED
      BY <2>1, <2>2 DEF DrainTypes, OneDrain
  <1> QED
    BY <1>1, <1>2

(* More commands than before, in their places behind those on their way.   *)
LEMMA GivenKeeps ==
  ASSUME OrderInv, Keys!EnsureThread, UNCHANGED <<pWire, pCarried>>,
         pGiven' \in Nat, pGiven <= pGiven', Entries(pQueue'),
         NEW c \in 0..pGiven, NEW w \in 0..pGiven, NEW h \in 0..pGiven, c <= w, w <= h,
         pCarried # None => pCarried.n = c, Numbered(pWire, c, w),
         pDrain[pSender].at = "send" =>
           w < pDrain[pSender].has.n /\ pDrain[pSender].has.n <= h,
         Numbered(pQueue', h, pGiven')
  PROVE  OrderInv'
  <1>1. /\ DrainTypes' /\ OneDrain'
        /\ pDrain'[pSender'].at = "send" =>
             pDrain[pSender].at = "send" /\ pDrain'[pSender'].has = pDrain[pSender].has
    BY ThreadStarts DEF OrderInv
  <1>2. QueueTypes'
    BY <1>1 DEF OrderInv, QueueTypes
  <1>3. c \in 0..pGiven' /\ w \in 0..pGiven' /\ h \in 0..pGiven'
    BY DEF OrderInv, QueueTypes
  <1>4. InOrder'
    BY <1>1, <1>3 DEF InOrder
  <1> QED
    BY <1>1, <1>2, <1>4 DEF OrderInv

(* A key gives one command, or two.                                        *)
LEMMA GivesKeeps ==
  ASSUME OrderInv, NEW sets, Keys!Gives(sets),
         UNCHANGED <<pWire, pCarried>>, Len(sets) \in {1, 2},
         \A i \in 1..Len(sets) : /\ sets[i][1] \in SettingNames
                                 /\ sets[i][1] = "rate" => sets[i][2] \in Nat
  PROVE  OrderInv'
  <1> DEFINE Command(i) == [n |-> pGiven + i, pi |-> pPi, set |-> sets[i][1], to |-> sets[i][2]]
             first == Keys!Put(pQueue, Command(1))
  <1>1. CASE pLink # "up"
    BY <1>1 DEF Keys!Gives, OrderInv, DrainTypes, OneDrain, QueueTypes, InOrder
  <1>2. CASE pLink = "up"
    <2>1. PICK k : k = Len(sets)
      OBVIOUS
    <2>2. /\ pQueue' = IF k = 1 THEN first ELSE Keys!Put(first, Command(2))
          /\ pGiven' = pGiven + k /\ Keys!EnsureThread /\ k \in {1, 2}
      BY <1>2, <2>1 DEF Keys!Gives
    <2>3. PICK c \in 0..pGiven, w \in 0..pGiven, h \in 0..pGiven :
            /\ c <= w /\ w <= h
            /\ pCarried # None => pCarried.n = c
            /\ Numbered(pWire, c, w)
            /\ pDrain[pSender].at = "send" => w < pDrain[pSender].has.n /\ pDrain[pSender].has.n <= h
            /\ Numbered(pQueue, h, pGiven)
      BY DEF OrderInv, InOrder
    <2>4. pGiven \in Nat /\ Entries(pQueue) /\ c \in Nat /\ w \in Nat /\ h \in Nat
      BY DEF OrderInv, QueueTypes
    <2>5. \A i \in 1..k : Command(i).n = pGiven + i /\ IsEntry(Command(i))
      BY <2>1, <2>2, <2>4 DEF IsEntry, IsCommand
    <2>6. Command(1).n = pGiven + 1 /\ IsEntry(Command(1))
      BY <2>2, <2>5
    <2> HIDE DEF Command
    <2>7. Entries(first) /\ Numbered(first, h, pGiven + 1)
      BY <2>3, <2>4, <2>6, PutEntry
    <2>8. CASE k = 1
      <3>1. pQueue' = first /\ pGiven' = pGiven + 1
        BY <2>2, <2>8
      <3> HIDE DEF first
      <3> QED
        BY <2>4, <2>7, <3>1, GivenKeeps, <2>2, <2>3
    <2>9. CASE k = 2
      <3>1. pQueue' = Keys!Put(first, Command(2)) /\ pGiven' = pGiven + 2
        BY <2>2, <2>9
      <3>2. Command(2).n = pGiven + 2 /\ IsEntry(Command(2))
        BY <2>2, <2>5, <2>9
      <3> HIDE DEF first
      <3>3. Entries(pQueue') /\ Numbered(pQueue', h, pGiven')
        BY <2>3, <2>4, <2>7, <3>1, <3>2, PutEntry
      <3> QED
        BY <2>4, <3>1, <3>3, GivenKeeps, <2>2, <2>3
    <2> QED
      BY <2>2, <2>8, <2>9
  <1> QED
    BY <1>1, <1>2

(* One setting is given. *)
LEMMA OneGiven ==
  ASSUME OrderInv, NEW kind, NEW name \in SettingNames, NEW value,
         name = "rate" => value \in Nat, Keys!Press(kind, <<<<name, value>>>>)
  PROVE  OrderInv'
  <1>1. PICK sets : sets = <<<<name, value>>>>
    OBVIOUS
  <1>2. Keys!Gives(sets) /\ UNCHANGED <<pWire, pCarried>>
    BY <1>1 DEF Keys!Press
  <1>3. Len(sets) = 1 /\ sets[1][1] = name /\ sets[1][2] = value
    BY <1>1
  <1> QED
    BY <1>2, <1>3, GivesKeeps

(* Two settings are given. *)
LEMMA TwoGiven ==
  ASSUME OrderInv, NEW kind, NEW one \in SettingNames, NEW two \in SettingNames,
         NEW value1, NEW value2, one # "rate", two # "rate",
         Keys!Press(kind, <<<<one, value1>>, <<two, value2>>>>)
  PROVE  OrderInv'
  <1>1. PICK sets : sets = <<<<one, value1>>, <<two, value2>>>>
    OBVIOUS
  <1>2. Keys!Gives(sets) /\ UNCHANGED <<pWire, pCarried>>
    BY <1>1 DEF Keys!Press
  <1>3. Len(sets) = 2 /\ sets[1][1] = one /\ sets[2][1] = two
    BY <1>1
  <1> QED
    BY <1>2, <1>3, GivesKeeps

(* Every key keeps the order. *)
LEMMA KeyKeeps ==
  ASSUME OrderInv, Keys!Key
  PROVE  OrderInv'
  <1> USE DEF SettingNames
  <1>1. CASE Keys!KeyMode
    BY <1>1, OneGiven DEF Keys!KeyMode
  <1>2. CASE Keys!KeyFreq
    BY <1>2, OneGiven DEF Keys!KeyFreq
  <1>3. CASE Keys!KeyRate
    <2>1. PICK to \in 1..pMaxFreq :
            Keys!Press("rate", <<<<"rate", to>>>>)
      BY <1>3 DEF Keys!KeyRate
    <2>2. to \in Nat
      OBVIOUS
    <2> QED
      BY <2>1, <2>2, OneGiven
  <1>4. CASE Keys!KeyAvg
    BY <1>4, OneGiven DEF Keys!KeyAvg
  <1>5. CASE Keys!KeyAuto
    BY <1>5, OneGiven DEF Keys!KeyAuto
  <1>6. CASE Keys!KeyEnter
    <2>1. PICK value : Keys!Press("enter", <<<<"thresholds", value>>>>)
      BY <1>6 DEF Keys!KeyEnter
    <2> QED
      BY <2>1, OneGiven
  <1>7. CASE Keys!KeyCc
    <2>1. CASE pShown.cc = 0
      <3>1. Keys!Press("cc", <<<<"cc", 1>>, <<"thresholds", <<2, 1>>>>>>)
        BY <1>7, <2>1 DEF Keys!KeyCc
      <3> QED
        BY <3>1, TwoGiven
    <2>2. CASE pShown.cc # 0
      <3>1. Keys!Press("cc", <<<<"cc", 0>>>>)
        BY <1>7, <2>2 DEF Keys!KeyCc
      <3> QED
        BY <3>1, OneGiven
    <2> QED
      BY <2>1, <2>2
  <1> QED
    BY <1>1, <1>2, <1>3, <1>4, <1>5, <1>6, <1>7 DEF Keys!Key

(* The sentinel is no command. *)
LEMMA SentinelIsEntry == IsEntry(Keys!Sentinel) /\ Keys!Sentinel.n = 0
  BY DEF Keys!Sentinel, IsEntry

(* The thread looks, gives up or leaves: it holds nothing.                  *)
LEMMA WaitKeeps ==
  ASSUME OrderInv, NEW d \in Keys!Drains, Keys!Look(d) \/ Keys!GiveUp(d) \/ Keys!Leave(d)
  PROVE  OrderInv'
  <1>1. PICK at \in {"none", "get", "leaving"} :
          /\ pDrain[d].at # "none" /\ pDrain' = [pDrain EXCEPT ![d].at = at]
          /\ UNCHANGED <<pSender, pQueue, pWire, pGiven, pCarried>>
    BY DEF Keys!Look, Keys!GiveUp, Keys!Leave
  <1>2. d = pSender
    BY <1>1 DEF OrderInv, OneDrain, Keys!Drains
  <1>3. DrainTypes' /\ OneDrain' /\ pDrain'[pSender'].at # "send"
    BY <1>1, <1>2 DEF OrderInv, DrainTypes, OneDrain, Keys!Drains
  <1>4. QueueTypes' /\ InOrder'
    BY <1>1, <1>3 DEF OrderInv, QueueTypes, InOrder
  <1> QED
    BY <1>3, <1>4 DEF OrderInv

(* The thread takes the head of the queue.                                  *)
LEMMA TakeKeeps ==
  ASSUME OrderInv, NEW d \in Keys!Drains, Keys!Take(d)
  PROVE  OrderInv'
  <1> DEFINE c == Head(pQueue)
  <1>1. /\ pDrain[d].at = "get" /\ pQueue # <<>> /\ pQueue' = Tail(pQueue)
        /\ pDrain' = [pDrain EXCEPT ![d] = IF c = Keys!Sentinel
                                             THEN [at |-> "none", has |-> Keys!Sentinel]
                                             ELSE [at |-> "send", has |-> c]]
        /\ UNCHANGED <<pSender, pWire, pGiven, pCarried>>
    BY DEF Keys!Take
  <1>2. d = pSender
    BY <1>1 DEF OrderInv, OneDrain, Keys!Drains
  <1>3. DrainTypes' /\ OneDrain'
    BY <1>1, <1>2 DEF OrderInv, DrainTypes, OneDrain, Keys!Drains
  <1>4. PICK k \in 0..pGiven, w \in 0..pGiven, h \in 0..pGiven :
          /\ k <= w /\ w <= h
          /\ pCarried # None => pCarried.n = k
          /\ Numbered(pWire, k, w) /\ Numbered(pQueue, h, pGiven)
    BY DEF OrderInv, InOrder
  <1>5. pGiven \in Nat /\ Entries(pQueue) /\ h \in Nat
    BY DEF OrderInv, QueueTypes
  <1> HIDE DEF c
  <1>6. /\ Entries(pQueue') /\ IsEntry(c)
        /\ c.n # 0 => h < c.n /\ c.n <= pGiven /\ Numbered(pQueue', c.n, pGiven)
        /\ c.n = 0 => Numbered(pQueue', h, pGiven)
    BY <1>1, <1>4, <1>5, TakeEntry DEF c
  <1>7. CASE c = Keys!Sentinel
    <2>1. pDrain'[pSender'].at # "send" /\ c.n = 0
      BY <1>1, <1>2, <1>7, SentinelIsEntry DEF OrderInv, DrainTypes
    <2> QED
      BY <1>1, <1>3, <1>4, <1>6, <2>1 DEF OrderInv, QueueTypes, InOrder
  <1>8. CASE c # Keys!Sentinel
    <2>1. pDrain'[pSender'].at = "send" /\ pDrain'[pSender'].has = c
      BY <1>1, <1>2, <1>8 DEF OrderInv, DrainTypes
    <2>2. c.n # 0 /\ c.n \in 0..pGiven /\ w < c.n
      BY <1>4, <1>5, <1>6, <1>8 DEF IsEntry
    <2>3. QueueTypes'
      BY <1>1, <1>6, <2>1, <2>2 DEF OrderInv, QueueTypes
    <2>4. InOrder'
      <3>1. /\ k <= w /\ w <= c.n /\ c.n <= c.n
            /\ Numbered(pWire', k, w) /\ Numbered(pQueue', c.n, pGiven')
        BY <1>1, <1>4, <1>6, <2>2
      <3> QED
        BY <1>1, <1>4, <2>1, <2>2, <3>1 DEF InOrder
    <2> QED
      BY <1>3, <2>3, <2>4 DEF OrderInv
  <1> QED
    BY <1>7, <1>8

(* It sends what it holds, or drops it. *)
LEMMA TransmitKeeps ==
  ASSUME OrderInv, NEW d \in Keys!Drains, Keys!Transmit(d)
  PROVE  OrderInv'
  <1> DEFINE c == pDrain[d].has
  <1>1. /\ pDrain[d].at = "send"
        /\ pWire' = IF pLink = "up" THEN Append(pWire, c) ELSE pWire
        /\ pDrain' = [pDrain EXCEPT ![d] = [at |-> "look", has |-> Keys!Sentinel]]
        /\ UNCHANGED <<pSender, pQueue, pGiven, pCarried>>
    BY DEF Keys!Transmit
  <1>2. d = pSender
    BY <1>1 DEF OrderInv, OneDrain, Keys!Drains
  <1>3. DrainTypes' /\ OneDrain' /\ pDrain'[pSender'].at # "send"
    BY <1>1, <1>2 DEF OrderInv, DrainTypes, OneDrain, Keys!Drains
  <1>4. PICK k \in 0..pGiven, w \in 0..pGiven, h \in 0..pGiven :
          /\ k <= w /\ w <= h
          /\ pCarried # None => pCarried.n = k
          /\ Numbered(pWire, k, w) /\ w < c.n /\ c.n <= h
          /\ Numbered(pQueue, h, pGiven)
    BY <1>1, <1>2 DEF OrderInv, InOrder
  <1>5. pGiven \in Nat /\ Entries(pWire) /\ IsEntry(c) /\ c.n # 0 /\ k \in Nat /\ w \in Nat /\ h \in Nat
    BY <1>1, <1>2 DEF OrderInv, QueueTypes
  <1>6. \A i \in 1..Len(pWire) : pWire[i].n # 0
    BY DEF OrderInv, QueueTypes
  <1> HIDE DEF c
  <1>7. Entries(pWire') /\ (\A i \in 1..Len(pWire') : pWire'[i].n # 0) /\ Numbered(pWire', k, h)
    <2>1. CASE pLink = "up"
      <3>1. pWire' = Append(pWire, c)
        BY <1>1, <2>1
      <3>2. /\ Entries(pWire') /\ Len(pWire) \in Nat /\ Len(pWire') = Len(pWire) + 1
            /\ \A i \in 1..Len(pWire) : pWire'[i] = pWire[i]
            /\ pWire'[Len(pWire) + 1] = c
        BY <1>5, <3>1, AppendEntry
      <3>3. \A i \in 1..Len(pWire') : pWire'[i].n # 0
        BY <1>5, <1>6, <3>2
      <3>4. Numbered(Append(pWire, c), k, h)
        BY <1>4, <1>5, AppendNumbered
      <3> QED
        BY <3>1, <3>2, <3>3, <3>4
    <2>2. CASE pLink # "up"
      <3>1. Numbered(pWire, k, h)
        BY <1>4, <1>5 DEF Numbered, Entries, IsEntry
      <3> QED
        BY <1>1, <1>5, <1>6, <2>2, <3>1
    <2> QED
      BY <2>1, <2>2
  <1>8. QueueTypes'
    BY <1>1, <1>3, <1>7 DEF OrderInv, QueueTypes
  <1>9. InOrder'
    <2>1. k <= h /\ h <= h
      BY <1>4
    <2> QED
      BY <1>1, <1>3, <1>4, <1>7, <2>1 DEF InOrder
  <1> QED
    BY <1>3, <1>8, <1>9 DEF OrderInv

(* The Pi carries out the head of the wire, which is later than all before. *)
LEMMA DispatchKeeps ==
  ASSUME OrderInv, Keys!Dispatch
  PROVE  OrderInv' /\ (pCarried # None => pCarried'.n > pCarried.n)
  <1> DEFINE c == Head(pWire)
  <1>1. /\ pWire # <<>> /\ pWire' = Tail(pWire)
        /\ pCarried'.n = c.n
        /\ UNCHANGED <<pDrain, pSender, pQueue, pGiven>>
    BY DEF Keys!Dispatch, Keys!client
  <1>2. PICK k \in 0..pGiven, w \in 0..pGiven, h \in 0..pGiven :
          /\ k <= w /\ w <= h
          /\ pCarried # None => pCarried.n = k
          /\ Numbered(pWire, k, w)
          /\ pDrain[pSender].at = "send" => w < pDrain[pSender].has.n /\ pDrain[pSender].has.n <= h
          /\ Numbered(pQueue, h, pGiven)
    BY DEF OrderInv, InOrder
  <1>3. pGiven \in Nat /\ Entries(pWire) /\ k \in Nat /\ w \in Nat
        /\ \A i \in 1..Len(pWire) : pWire[i].n # 0
    BY DEF OrderInv, QueueTypes
  <1> HIDE DEF c
  <1>4. /\ Entries(pWire') /\ c.n # 0 /\ IsEntry(c) /\ k < c.n /\ c.n <= w
        /\ Numbered(pWire', c.n, w) /\ \A i \in 1..Len(pWire') : pWire'[i].n # 0
    BY <1>1, <1>2, <1>3, TakeEntry DEF c
  <1>5. DrainTypes' /\ OneDrain' /\ QueueTypes'
    BY <1>1, <1>4 DEF OrderInv, DrainTypes, OneDrain, QueueTypes
  <1>6. c.n \in 0..pGiven /\ c.n <= w
    BY <1>2, <1>3, <1>4 DEF IsEntry
  <1>7. InOrder'
    BY <1>1, <1>2, <1>4, <1>6 DEF InOrder
  <1>8. pCarried # None => pCarried'.n > pCarried.n
    BY <1>1, <1>2, <1>3, <1>4 DEF IsEntry
  <1> QED
    BY <1>5, <1>7, <1>8 DEF OrderInv

(* A connection ends: a sentinel is put, and what was sent is lost.         *)
LEMMA DisconnectKeeps ==
  ASSUME OrderInv, Keys!Disconnect, UNCHANGED pCarried
  PROVE  OrderInv'
  <1>1. /\ pQueue' = Keys!Put(pQueue, Keys!Sentinel) /\ pWire' = <<>>
        /\ UNCHANGED <<pDrain, pSender, pGiven, pCarried>>
    BY DEF Keys!Disconnect
  <1>2. PICK k \in 0..pGiven, w \in 0..pGiven, h \in 0..pGiven :
          /\ k <= w /\ w <= h
          /\ pCarried # None => pCarried.n = k
          /\ Numbered(pWire, k, w)
          /\ pDrain[pSender].at = "send" => w < pDrain[pSender].has.n /\ pDrain[pSender].has.n <= h
          /\ Numbered(pQueue, h, pGiven)
    BY DEF OrderInv, InOrder
  <1>3. pGiven \in Nat /\ Entries(pQueue) /\ h \in Nat /\ h <= pGiven
    BY DEF OrderInv, QueueTypes
  <1>4. Entries(pQueue') /\ Numbered(pQueue', h, pGiven')
    BY <1>1, <1>2, <1>3, PutEntry, SentinelIsEntry
  <1>5. Entries(pWire') /\ Numbered(pWire', k, w) /\ \A i \in 1..Len(pWire') : pWire'[i].n # 0
    BY <1>1, NothingIsEntries
  <1>6. DrainTypes' /\ OneDrain' /\ QueueTypes'
    BY <1>1, <1>4, <1>5 DEF OrderInv, DrainTypes, OneDrain, QueueTypes
  <1>7. InOrder'
    BY <1>1, <1>2, <1>4, <1>5 DEF InOrder
  <1> QED
    BY <1>6, <1>7 DEF OrderInv

(* At most one thread sends, what it takes from the queue it sends before  *)
(* it takes the next, and so the numbers on the wire only grow.             *)
LEMMA OrderStep == OrderInv /\ [Keys!Next]_Keys!vars => OrderInv'
  <1> SUFFICES ASSUME OrderInv, [Keys!Next]_Keys!vars  PROVE OrderInv'
    OBVIOUS
  <1> USE DEF Keys!client
  <1>1. CASE UNCHANGED <<pDrain, pSender, pQueue, pWire, pGiven, pCarried>>
    BY <1>1 DEF OrderInv, DrainTypes, OneDrain, QueueTypes, InOrder
  <1>2. CASE Keys!Key
    BY <1>2, KeyKeeps
  <1>3. CASE Keys!Dispatch
    BY <1>3, DispatchKeeps
  <1>4. CASE Keys!OthersSet \/ Keys!Broadcast \/ Keys!ApplyState \/ Keys!Reconnect \/ Keys!Connected
    BY <1>1, <1>4 DEF Keys!OthersSet, Keys!Broadcast, Keys!ApplyState, Keys!Reconnect, Keys!Connected
  <1>5. CASE Keys!Lose \/ Keys!SwitchPi
    <2>1. Keys!Disconnect /\ UNCHANGED pCarried
      BY <1>5 DEF Keys!Lose, Keys!SwitchPi, Keys!Disconnect
    <2> QED
      BY <2>1, DisconnectKeeps
  <1>6. ASSUME NEW d \in Keys!Drains, Keys!SendThread(d)  PROVE OrderInv'
    BY <1>6, WaitKeeps, TakeKeeps, TransmitKeeps DEF Keys!SendThread
  <1>7. CASE UNCHANGED Keys!vars
    BY <1>1, <1>7 DEF Keys!vars
  <1> QED
    BY <1>2, <1>3, <1>4, <1>5, <1>6, <1>7 DEF Keys!Next

(* At first nothing is given. *)
LEMMA OrderInit == Keys!Init => OrderInv
  <1> SUFFICES ASSUME Keys!Init  PROVE OrderInv
    OBVIOUS
  <1>1. /\ pQueue = <<>> /\ pWire = <<>> /\ pGiven = 0 /\ pCarried = None /\ pSender = 1
        /\ pDrain = [d \in {1, 2} |-> [at |-> "none", has |-> Keys!Sentinel]]
    BY DEF Keys!Init, Keys!Drains
  <1>2. DrainTypes /\ OneDrain /\ pDrain[pSender].at # "send"
    BY <1>1 DEF DrainTypes, OneDrain
  <1>3. QueueTypes /\ InOrder
    BY <1>1, <1>2, NothingIsEntries DEF QueueTypes, InOrder
  <1> QED
    BY <1>2, <1>3 DEF OrderInv

(* OrderIsKept: commands are carried out in the order in which the keys     *)
(* were pressed, over lost connections, switches of the Pi and threads that *)
(* end and are started again.                                               *)
THEOREM CommandsKeepOrder == ClientSpec => OrderIsKept
  <1>1. OrderInv /\ [Keys!Next]_Keys!vars =>
          [pCarried' # pCarried /\ pCarried # None => pCarried'.n > pCarried.n]_Keys!vars
    <2> SUFFICES ASSUME OrderInv, Keys!Next, pCarried' # pCarried, pCarried # None
                 PROVE  pCarried'.n > pCarried.n
      OBVIOUS
    <2>1. Keys!Dispatch
      BY DEF Keys!Next, Keys!Key, Keys!KeyMode, Keys!KeyFreq, Keys!KeyRate, Keys!KeyAvg,
             Keys!KeyAuto, Keys!KeyEnter, Keys!KeyCc, Keys!Press, Keys!OthersSet,
             Keys!Broadcast, Keys!ApplyState, Keys!Lose, Keys!SwitchPi, Keys!Disconnect,
             Keys!Reconnect, Keys!Connected, Keys!SendThread, Keys!Look, Keys!Take,
             Keys!GiveUp, Keys!Leave, Keys!Transmit
    <2> QED
      BY <2>1, DispatchKeeps
  <1> QED
    BY <1>1, OrderInit, OrderStep, PanelMoves, PTL DEF Keys!Spec, OrderIsKept, Keys!OrderIsKept

-----------------------------------------------------------------------------
(* The types of the panel, with the rate held below what the averaging     *)
(* allows.                                                                 *)

IsSettings(s) == DOMAIN s = DOMAIN Keys!Booted /\ s.rate \in Nat /\ s.rate <= Keys!Cap(s.avg)

SettingsTypes ==
  /\ DOMAIN pSettings = pPis /\ \A p \in pPis : IsSettings(pSettings[p])
  /\ pFrame # None => DOMAIN pFrame = DOMAIN Keys!Booted

LinkTypes ==
  /\ DOMAIN pShown = DOMAIN Keys!Booted /\ pPi \in pPis /\ pLink \in {"up", "closed", "connecting"}
  /\ pStop \in BOOLEAN /\ (pStop => pLink = "closed") /\ pFaults \in 0..pMaxFaults

QueueFits == Len(pQueue) <= pQueueSize

PanelInv == OrderInv /\ SettingsTypes /\ LinkTypes /\ QueueFits

(* The caps are natural numbers, and a setting that is clamped keeps to it. *)
LEMMA ClampedIsSettings ==
  ASSUME NEW s, DOMAIN s = DOMAIN Keys!Booted, s.rate \in Nat
  PROVE  IsSettings(Keys!Clamped(s))
  <1>1. Keys!Cap(s.avg) \in Nat
    BY ClientAssumption DEF ClientAssumption, Keys!PanelAssumption, Keys!Cap
  <1>2. DOMAIN Keys!Clamped(s) = DOMAIN Keys!Booted /\ Keys!Clamped(s).avg = s.avg
        /\ Keys!Clamped(s).rate = IF s.rate > Keys!Cap(s.avg) THEN Keys!Cap(s.avg) ELSE s.rate
    BY DEF Keys!Clamped, Keys!Booted
  <1> QED
    BY <1>1, <1>2 DEF IsSettings

(* Whatever a command sets. *)
LEMMA SetIsSettings ==
  ASSUME NEW s, IsSettings(s), NEW c, IsCommand(c)
  PROVE  IsSettings(Keys!Set(s, c))
  <1>1. \E r : /\ Keys!Set(s, c) = Keys!Clamped(r)
              /\ DOMAIN r = DOMAIN Keys!Booted /\ r.rate \in Nat
    <2>1. CASE c.set = "mode"
      <3> DEFINE r == [s EXCEPT !.mode = c.to]
      <3>1. Keys!Set(s, c) = Keys!Clamped(r)
        BY <2>1 DEF Keys!Set
      <3>2. DOMAIN r = DOMAIN Keys!Booted /\ r.rate \in Nat
        BY DEF IsSettings, Keys!Booted
      <3> QED
        BY <3>1, <3>2
    <2>2. CASE c.set = "freq"
      <3> DEFINE r == [s EXCEPT !.freq = c.to]
      <3>1. Keys!Set(s, c) = Keys!Clamped(r)
        BY <2>2 DEF Keys!Set
      <3>2. DOMAIN r = DOMAIN Keys!Booted /\ r.rate \in Nat
        BY DEF IsSettings, Keys!Booted
      <3> QED
        BY <3>1, <3>2
    <2>3. CASE c.set = "rate"
      <3> DEFINE r == [s EXCEPT !.rate = c.to]
      <3>1. Keys!Set(s, c) = Keys!Clamped(r)
        BY <2>3 DEF Keys!Set
      <3>2. DOMAIN r = DOMAIN Keys!Booted /\ r.rate \in Nat
        BY <2>3 DEF IsSettings, IsCommand, Keys!Booted
      <3> QED
        BY <3>1, <3>2
    <2>4. CASE c.set = "avg"
      <3> DEFINE r == [s EXCEPT !.avg = c.to]
      <3>1. Keys!Set(s, c) = Keys!Clamped(r)
        BY <2>4 DEF Keys!Set
      <3>2. DOMAIN r = DOMAIN Keys!Booted /\ r.rate \in Nat
        BY DEF IsSettings, Keys!Booted
      <3> QED
        BY <3>1, <3>2
    <2>5. CASE c.set = "on"
      <3> DEFINE r == [s EXCEPT !.on = c.to,
                                !.mode = IF c.to /\ ~s.on THEN "discharge" ELSE @]
      <3>1. Keys!Set(s, c) = Keys!Clamped(r)
        BY <2>5 DEF Keys!Set
      <3>2. DOMAIN r = DOMAIN Keys!Booted /\ r.rate \in Nat
        BY DEF IsSettings, Keys!Booted
      <3> QED
        BY <3>1, <3>2
    <2>6. CASE c.set = "cc"
      <3> DEFINE r == [s EXCEPT !.cc = c.to]
      <3>1. Keys!Set(s, c) = Keys!Clamped(r)
        BY <2>6 DEF Keys!Set
      <3>2. DOMAIN r = DOMAIN Keys!Booted /\ r.rate \in Nat
        BY DEF IsSettings, Keys!Booted
      <3> QED
        BY <3>1, <3>2
    <2>7. CASE c.set = "thresholds"
      <3> DEFINE r == [s EXCEPT !.enter = c.to[1], !.exit = c.to[2]]
      <3>1. Keys!Set(s, c) = Keys!Clamped(r)
        BY <2>7 DEF Keys!Set
      <3>2. DOMAIN r = DOMAIN Keys!Booted /\ r.rate \in Nat
        BY DEF IsSettings, Keys!Booted
      <3> QED
        BY <3>1, <3>2
    <2> QED
      BY <2>1, <2>2, <2>3, <2>4, <2>5, <2>6, <2>7 DEF IsCommand, SettingNames
  <1> QED
    BY <1>1, ClampedIsSettings

(* Putting never makes a queue longer than it may be. *)
LEMMA PutFits ==
  ASSUME NEW q, IsQueue(q), Len(q) <= pQueueSize, NEW c
  PROVE  IsQueue(Keys!Put(q, c)) /\ Len(Keys!Put(q, c)) <= pQueueSize
  <1>1. pQueueSize \in Nat
    BY ClientAssumption DEF ClientAssumption, Keys!PanelAssumption
  <1> QED
    BY <1>1, AppendQueue DEF Keys!Put

(* The queue fits whatever is put into it. *)
LEMMA QueueStep ==
  ASSUME OrderInv, QueueFits, [Keys!Next]_Keys!vars
  PROVE  QueueFits'
  <1> USE DEF QueueFits
  <1>1. IsQueue(pQueue)
    BY DEF OrderInv, QueueTypes, Entries
  <1>2. CASE Keys!Key
    <2>1. PICK sets : Keys!Gives(sets)
      BY <1>2 DEF Keys!Key, Keys!KeyMode, Keys!KeyFreq, Keys!KeyRate, Keys!KeyAvg, Keys!KeyAuto,
                  Keys!KeyEnter, Keys!KeyCc, Keys!Press
    <2>2. \/ UNCHANGED pQueue
          \/ \E c : pQueue' = Keys!Put(pQueue, c)
          \/ \E c, d : pQueue' = Keys!Put(Keys!Put(pQueue, c), d)
      BY <2>1 DEF Keys!Gives
    <2> QED
      BY <1>1, <2>2, PutFits
  <1>3. ASSUME NEW d \in Keys!Drains, Keys!Take(d)  PROVE QueueFits'
    <2>1. pQueue # <<>> /\ pQueue' = Tail(pQueue)
      BY <1>3 DEF Keys!Take
    <2>2. Len(Tail(pQueue)) = Len(pQueue) - 1 /\ Len(pQueue) \in Nat
      BY <1>1, <2>1, HeadTailProperties, LenProperties DEF IsQueue
    <2> QED
      BY <2>1, <2>2, ClientAssumption DEF ClientAssumption, Keys!PanelAssumption
  <1>4. CASE Keys!Disconnect
    BY <1>1, <1>4, PutFits DEF Keys!Disconnect
  <1>5. CASE UNCHANGED pQueue
    BY <1>5
  <1> QED
    BY <1>2, <1>3, <1>4, <1>5
       DEF Keys!Next, Keys!SendThread, Keys!Look, Keys!GiveUp, Keys!Leave, Keys!Transmit,
           Keys!Dispatch, Keys!OthersSet, Keys!Broadcast, Keys!ApplyState, Keys!Lose,
           Keys!SwitchPi, Keys!Reconnect, Keys!Connected, Keys!vars, Keys!client

(* Faults are counted up to their bound. *)
LEMMA FaultCounts ==
  ASSUME LinkTypes, Keys!Fault
  PROVE  pFaults' \in 0..pMaxFaults
  BY ClientAssumption DEF ClientAssumption, Keys!PanelAssumption, LinkTypes, Keys!Fault

(* The link, and what is shown of it. *)
LEMMA LinkStep ==
  ASSUME LinkTypes, SettingsTypes, [Keys!Next]_Keys!vars
  PROVE  LinkTypes'
  <1> USE DEF LinkTypes, Keys!client
  <1>1. CASE Keys!Key
    <2>1. UNCHANGED <<pPi, pLink, pStop, pFaults>>
      BY <1>1 DEF Keys!Key, Keys!KeyMode, Keys!KeyFreq, Keys!KeyRate, Keys!KeyAvg, Keys!KeyAuto,
                  Keys!KeyEnter, Keys!KeyCc, Keys!Press
    <2>2. DOMAIN pShown' = DOMAIN pShown
      BY <1>1 DEF Keys!Key, Keys!KeyMode, Keys!KeyFreq, Keys!KeyRate, Keys!KeyAvg, Keys!KeyAuto,
                  Keys!KeyEnter, Keys!KeyCc
    <2> QED
      BY <2>1, <2>2
  <1>2. CASE Keys!Dispatch \/ Keys!Broadcast
    BY <1>2 DEF Keys!Dispatch, Keys!Broadcast
  <1>3. CASE Keys!OthersSet
    BY <1>3, FaultCounts DEF Keys!OthersSet
  <1>4. CASE Keys!ApplyState
    BY <1>4 DEF Keys!ApplyState, SettingsTypes
  <1>5. CASE Keys!Lose
    BY <1>5, FaultCounts DEF Keys!Lose, Keys!Disconnect
  <1>6. CASE Keys!SwitchPi
    BY <1>6, FaultCounts DEF Keys!SwitchPi, Keys!Disconnect
  <1>7. CASE Keys!Reconnect
    BY <1>7 DEF Keys!Reconnect
  <1>10. CASE Keys!Connected
    <2>1. DOMAIN pShown' = DOMAIN pShown
      BY <1>10 DEF Keys!Connected
    <2>2. pStop = FALSE /\ pLink' = "up" /\ UNCHANGED <<pPi, pStop, pFaults>>
      BY <1>10 DEF Keys!Connected
    <2> QED
      BY <2>1, <2>2
  <1>8. ASSUME NEW d \in Keys!Drains, Keys!SendThread(d)  PROVE LinkTypes'
    BY <1>8 DEF Keys!SendThread, Keys!Look, Keys!GiveUp, Keys!Leave, Keys!Transmit, Keys!Take
  <1>9. CASE UNCHANGED Keys!vars
    BY <1>9 DEF Keys!vars
  <1> QED
    BY <1>1, <1>2, <1>3, <1>4, <1>5, <1>6, <1>7, <1>8, <1>9, <1>10 DEF Keys!Next

(* The settings of the Pis. *)
LEMMA SettingsStep ==
  ASSUME OrderInv, LinkTypes, SettingsTypes, [Keys!Next]_Keys!vars
  PROVE  SettingsTypes'
  <1>1. CASE Keys!Dispatch
    <2> DEFINE c == Head(pWire)
    <2>1. /\ pWire # <<>> /\ pSettings' = [pSettings EXCEPT ![pPi] = Keys!Set(@, c)]
          /\ UNCHANGED pFrame
      BY <1>1 DEF Keys!Dispatch
    <2>2. IsCommand(c)
      <3>1. Entries(pWire) /\ \A i \in 1..Len(pWire) : pWire[i].n # 0
        BY DEF OrderInv, QueueTypes
      <3>2. 1 \in 1..Len(pWire) /\ c = pWire[1]
        BY <2>1, <3>1, EmptySeq DEF Entries, IsQueue
      <3> QED
        BY <3>1, <3>2 DEF Entries, IsEntry
    <2> HIDE DEF c
    <2> QED
      BY <2>1, <2>2, SetIsSettings DEF SettingsTypes, LinkTypes
  <1>2. CASE Keys!OthersSet
    <2>1. PICK f : pSettings' = [pSettings EXCEPT ![pPi].freq = f]
      BY <1>2 DEF Keys!OthersSet
    <2>2. IsSettings([pSettings[pPi] EXCEPT !.freq = f])
      BY DEF SettingsTypes, LinkTypes, IsSettings, Keys!Booted
    <2> QED
      BY <1>2, <2>1, <2>2 DEF SettingsTypes, LinkTypes, Keys!OthersSet
  <1>3. CASE Keys!Broadcast
    BY <1>3 DEF Keys!Broadcast, SettingsTypes, LinkTypes, IsSettings
  <1>4. CASE Keys!ApplyState \/ Keys!Lose \/ Keys!SwitchPi
    BY <1>4 DEF Keys!ApplyState, Keys!Lose, Keys!SwitchPi, Keys!Disconnect, SettingsTypes
  <1>5. CASE UNCHANGED <<pSettings, pFrame>>
    BY <1>5 DEF SettingsTypes
  <1> QED
    BY <1>1, <1>2, <1>3, <1>4, <1>5
       DEF Keys!Next, Keys!Key, Keys!KeyMode, Keys!KeyFreq, Keys!KeyRate, Keys!KeyAvg, Keys!KeyAuto,
           Keys!KeyEnter, Keys!KeyCc, Keys!Press, Keys!SendThread, Keys!Look, Keys!GiveUp,
           Keys!Leave, Keys!Transmit, Keys!Take, Keys!Reconnect, Keys!Connected, Keys!vars

(* The types of the panel hold in every behaviour of the client. *)
LEMMA PanelTypes == ClientSpec => []Keys!TypeOK
  <1>1. Keys!Init => PanelInv
    <2> SUFFICES ASSUME Keys!Init  PROVE PanelInv
      OBVIOUS
    <2>1. OrderInv
      BY OrderInit
    <2>2. pQueueSize \in Nat /\ pMaxFaults \in Nat /\ pMaxFreq \in Nat /\ pMaxFreq # 0
      BY ClientAssumption DEF ClientAssumption, Keys!PanelAssumption
    <2>3. SettingsTypes
      BY <2>2 DEF SettingsTypes, IsSettings, Keys!Booted, Keys!Cap, Keys!Init
    <2>4. LinkTypes
      <3>1. pFaults = 0 /\ pShown = Keys!Booted /\ pPi \in pPis /\ pLink = "up" /\ pStop = FALSE
        BY DEF Keys!Init
      <3>2. pStop \in BOOLEAN /\ ~pStop
        BY <3>1
      <3>3. pFaults \in 0..pMaxFaults
        BY <2>2, <3>1
      <3>4. DOMAIN pShown = DOMAIN Keys!Booted
        BY <3>1
      <3> QED
        BY <3>1, <3>2, <3>3, <3>4 DEF LinkTypes
    <2>5. QueueFits
      BY <2>2, NothingIsEntries DEF QueueFits, Keys!Init
    <2> QED
      BY <2>1, <2>3, <2>4, <2>5 DEF PanelInv
  <1>2. PanelInv /\ [Keys!Next]_Keys!vars => PanelInv'
    BY OrderStep, SettingsStep, LinkStep, QueueStep DEF PanelInv
  <1>3. PanelInv => Keys!TypeOK
    <2> SUFFICES ASSUME PanelInv  PROVE Keys!TypeOK
      OBVIOUS
    <2>1. DrainTypes /\ SettingsTypes /\ LinkTypes /\ QueueFits
      BY DEF PanelInv, OrderInv
    <2> QED
      BY <2>1 DEF DrainTypes, SettingsTypes, IsSettings, LinkTypes, QueueFits, Keys!TypeOK, Keys!Drains
  <1> QED
    BY <1>1, <1>2, <1>3, PanelMoves, PTL DEF Keys!Spec

-----------------------------------------------------------------------------
(* The types of the connection, for any threads, connections and faults.    *)

(* A thread at "begin" has a try left, and after a loss no thread begins.   *)
ThreadStates ==
  {x \in [kind : {"free", "worker", "orphan", "auto", "retry", "recv"}, pc : Tui!Pcs,
          sock : tSocks \cup {None}, host : Tui!Hosts, tries : 0..tMaxRetries,
          after : {"end", "subscribe", "receive"}] :
     x.pc = "begin" => x.tries < tMaxRetries}

Lines == {"query", "subscribe", "flip"}

TuiClientTypes ==
  /\ tState \in {"disconnected", "connecting", "connected"}
  /\ tStop \in BOOLEAN /\ tSubscribed \in BOOLEAN
  /\ tCur \in tSocks \cup {None} /\ tRecvThread \in tThreads \cup {None}
  /\ tHost \in Tui!Hosts /\ tUi \in {"idle", "dialog"}
  /\ tTh \in [tThreads -> ThreadStates]

TuiNetTypes ==
  /\ tPath \in Tui!Hosts \cup {None} /\ tNet \in {"client", "flipping", "ap"}
  /\ tLive \in [tSocks -> BOOLEAN]
  /\ tCli \in [tSocks -> {"none", "open", "closed"}]
  /\ tSrv \in [tSocks -> {"none", "open", "closed"}]
  /\ tSubscribers \subseteq tSocks /\ tS2c \in [tSocks -> 0..tBuffer]
  /\ tFlows \in 0..tMaxFlows /\ tFaults \in 0..tMaxFaults

(* Only the last command of a connection may go beyond the buffer: it is    *)
(* the flip, behind which the client closes.                                *)
SentTypes ==
  /\ DOMAIN tC2s = tSocks
  /\ \A k \in tSocks : tC2s[k] \in Seq(Lines) /\ Len(tC2s[k]) <= tBuffer + 1
  /\ tCur # None => Len(tC2s[tCur]) <= tBuffer

ConnInv == TuiClientTypes /\ TuiNetTypes /\ SentTypes

(* What the module assumes of its constants. *)
LEMMA TuiConstants ==
  /\ tMaxRetries \in Nat /\ tMaxRetries # 0 /\ tBuffer \in Nat /\ tBuffer # 0
  /\ tMaxFlows \in Nat /\ tMaxFaults \in Nat
  BY ClientAssumption DEF ClientAssumption, Tui!TuiLinkAssumption

(* When the client moves, the connection moves as its module says. *)
LEMMA LinkMoves == ClientSpec => Tui!Spec
  <1>1. ClientInit => Tui!Init
    BY DEF ClientInit
  <1>2. [ClientNext]_clientVars => [Tui!Next]_Tui!vars
    BY DEF ClientNext, clientVars, tVars, Tui!vars, Tui!client, Tui!network, Tui!server, Tui!wires, Tui!bounds
  <1> QED
    BY <1>1, <1>2, PTL DEF ClientSpec, Tui!Spec

(* A free slot, and a new thread. *)
LEMMA NewThread ==
  /\ Tui!Free \in ThreadStates
  /\ \A kind \in {"worker", "auto", "retry", "recv"}, where \in Tui!Pcs, h \in Tui!Hosts :
       Tui!Thread(kind, where, h) \in ThreadStates
  <1>1. Tui!Free \in ThreadStates /\ Tui!Free.tries = 0
    BY TuiConstants DEF Tui!Free, ThreadStates, Tui!Pcs, Tui!Hosts
  <1>2. ASSUME NEW x \in ThreadStates, x.tries = 0, NEW kind \in {"worker", "auto", "retry", "recv"},
               NEW where \in Tui!Pcs, NEW h \in Tui!Hosts
        PROVE  [x EXCEPT !.kind = kind, !.pc = where, !.host = h] \in ThreadStates
    <2>1. PICK r : r = [x EXCEPT !.kind = kind, !.pc = where, !.host = h]
      OBVIOUS
    <2>2. /\ DOMAIN x = {"kind", "pc", "sock", "host", "tries", "after"}
          /\ x.sock \in tSocks \cup {None} /\ x.after \in {"end", "subscribe", "receive"}
      BY DEF ThreadStates
    <2>3. r = [kind |-> kind, pc |-> where, sock |-> x.sock, host |-> h, tries |-> 0, after |-> x.after]
      BY <1>2, <2>1 DEF ThreadStates
    <2>4. r \in ThreadStates
      BY <2>2, <2>3, TuiConstants DEF ThreadStates
    <2> QED
      BY <2>1, <2>4
  <1> QED
    BY <1>1, <1>2 DEF Tui!Thread

(* A thread goes on to another point than "begin". *)
LEMMA MovedThread ==
  ASSUME NEW x \in ThreadStates, NEW where \in Tui!Pcs \ {"begin"}
  PROVE  /\ [x EXCEPT !.pc = where] \in ThreadStates
         /\ \A sock \in tSocks \cup {None} : [x EXCEPT !.pc = where, !.sock = sock] \in ThreadStates
  BY DEF ThreadStates

LaterPcs == {"profile", "subscribe", "receive", "loop", "end"}

(* The same, or it ends. *)
LEMMA GoneOn ==
  ASSUME TuiClientTypes, NEW t \in tThreads, NEW where \in LaterPcs
  PROVE  Tui!GoesOn(t, where) \in ThreadStates
  <1>1. where \in Tui!Pcs \ {"begin"} /\ tTh[t] \in ThreadStates
    BY DEF LaterPcs, Tui!Pcs, TuiClientTypes
  <1>2. [tTh[t] EXCEPT !.pc = where, !.sock = None] \in ThreadStates
    BY <1>1, MovedThread
  <1> QED
    BY <1>2, NewThread DEF Tui!GoesOn

(* Disconnecting closes the socket. *)
LEMMA Disconnected ==
  ASSUME ConnInv, Tui!Disconnect
  PROVE  /\ tState' = "disconnected" /\ tSubscribed' = FALSE /\ tCur' = None
         /\ tCli' \in [tSocks -> {"none", "open", "closed"}] /\ tS2c' \in [tSocks -> 0..tBuffer]
  BY TuiConstants DEF Tui!Disconnect, ConnInv, TuiClientTypes, TuiNetTypes

(* And so does a thread that finds the connection lost. *)
LEMMA LostTypes ==
  ASSUME ConnInv, NEW t \in tThreads, NEW after \in {"end", "subscribe", "receive"},
         Tui!Lost(t, after)
  PROVE  /\ tState' \in {"disconnected", "connecting", "connected"}
         /\ tStop' \in BOOLEAN /\ tSubscribed' \in BOOLEAN /\ tCur' \in {tCur, None}
         /\ tTh' \in [tThreads -> ThreadStates]
         /\ tCli' \in [tSocks -> {"none", "open", "closed"}] /\ tS2c' \in [tSocks -> 0..tBuffer]
  <1>1. CASE tState = "disconnected"
    <2>1. Tui!GoesOn(t, after) \in ThreadStates
      BY GoneOn DEF ConnInv, LaterPcs
    <2>2. /\ tTh' = [tTh EXCEPT ![t] = Tui!GoesOn(t, after)]
          /\ UNCHANGED <<tState, tStop, tSubscribed, tCur, tCli, tS2c>>
      BY <1>1 DEF Tui!Lost
    <2> QED
      BY <2>1, <2>2 DEF ConnInv, TuiClientTypes, TuiNetTypes
  <1>2. CASE tState # "disconnected"
    <2>1. /\ Tui!Disconnect /\ tStop' = TRUE
          /\ tTh' = [tTh EXCEPT ![t].pc = "again", ![t].sock = None, ![t].after = after]
      BY <1>2 DEF Tui!Lost
    <2>2. [tTh[t] EXCEPT !.pc = "again", !.sock = None, !.after = after] \in ThreadStates
      BY ZenonT(60) DEF ConnInv, TuiClientTypes, ThreadStates, Tui!Pcs
    <2>3. tTh' = [tTh EXCEPT ![t] = [tTh[t] EXCEPT !.pc = "again", !.sock = None, !.after = after]]
      BY <2>1 DEF ConnInv, TuiClientTypes
    <2> QED
      BY <2>1, <2>2, <2>3, Disconnected, ZenonT(60) DEF ConnInv, TuiClientTypes
  <1> QED
    BY <1>1, <1>2

(* Connecting: begun, made or failed. *)
LEMMA ConnectKeeps ==
  ASSUME ConnInv, NEW t \in tThreads,
         Tui!BeginConnect(t) \/ Tui!Connected(t) \/ Tui!ConnectFails(t)
  PROVE  ConnInv'
  <1> USE DEF Tui!bounds, Tui!wires, Tui!server, Tui!network
  <1>1. CASE Tui!BeginConnect(t)
    <2>1. CASE tTh' = [tTh EXCEPT ![t] = Tui!Free] /\ UNCHANGED Tui!client
      BY <1>1, <2>1, NewThread
         DEF Tui!BeginConnect, Tui!client, ConnInv, TuiClientTypes, TuiNetTypes, SentTypes
    <2>2. CASE /\ tHost' = tTh[t].host /\ tStop' = FALSE /\ tState' = "connecting"
               /\ tTh' = [tTh EXCEPT ![t].pc = "opening", ![t].tries = @ + 1]
               /\ UNCHANGED <<tSubscribed, tCur, tRecvThread>>
      <3>1. [tTh[t] EXCEPT !.pc = "opening", !.tries = @ + 1] \in ThreadStates
        <4>1. tTh[t] \in ThreadStates /\ tTh[t].pc = "begin"
          BY <1>1 DEF Tui!BeginConnect, Tui!At, ConnInv, TuiClientTypes
        <4>2. tTh[t].tries + 1 \in 0..tMaxRetries
          BY <4>1, TuiConstants DEF ThreadStates
        <4>3. \A x \in ThreadStates, n \in 0..tMaxRetries :
                [x EXCEPT !.pc = "opening", !.tries = n] \in ThreadStates
          BY DEF ThreadStates, Tui!Pcs
        <4> QED
          BY <4>1, <4>2, <4>3
      <3>2. tTh' \in [tThreads -> ThreadStates] /\ tHost' \in Tui!Hosts
        BY <2>2, <3>1 DEF ConnInv, TuiClientTypes, ThreadStates
      <3> QED
        BY <1>1, <2>2, <3>2
           DEF Tui!BeginConnect, ConnInv, TuiClientTypes, TuiNetTypes, SentTypes
    <2> QED
      BY <1>1, <2>1, <2>2 DEF Tui!BeginConnect
  <1>2. CASE Tui!Connected(t)
    <2>1. PICK k \in tSocks :
            /\ tCur' = k /\ tState' = "connected"
            /\ tCli' = [tCli EXCEPT ![k] = "open"] /\ tSrv' = [tSrv EXCEPT ![k] = "open"]
            /\ tLive' = [tLive EXCEPT ![k] = TRUE]
            /\ tC2s' = [tC2s EXCEPT ![k] = <<>>] /\ tS2c' = [tS2c EXCEPT ![k] = 0]
      BY <1>2 DEF Tui!Connected
    <2>2. PICK where \in LaterPcs : tTh' = [tTh EXCEPT ![t] = Tui!GoesOn(t, where)]
      <3> DEFINE next == [worker |-> "profile", orphan |-> "end", auto |-> "subscribe",
                          retry |-> "end"]
      <3>1. /\ tTh[t].kind \in {"worker", "orphan", "auto", "retry"}
            /\ tTh' = [tTh EXCEPT ![t] = Tui!GoesOn(t, next[tTh[t].kind])]
        BY <1>2 DEF Tui!Connected, Tui!At
      <3>2. next[tTh[t].kind] \in LaterPcs
        BY <3>1 DEF LaterPcs
      <3> QED
        BY <3>1, <3>2
    <2>3. tTh' \in [tThreads -> ThreadStates]
      BY <2>2, GoneOn DEF ConnInv, TuiClientTypes
    <2>4. TuiClientTypes' /\ TuiNetTypes'
      BY <1>2, <2>1, <2>3, TuiConstants DEF Tui!Connected, ConnInv, TuiClientTypes, TuiNetTypes
    <2>5. SentTypes'
      <3>1. <<>> \in Seq(Lines) /\ Len(<<>>) = 0
        BY EmptySeq
      <3> QED
        BY <2>1, <3>1, TuiConstants DEF ConnInv, SentTypes
    <2> QED
      BY <2>4, <2>5 DEF ConnInv
  <1>3. CASE Tui!ConnectFails(t)
    <2>1. tTh' \in [tThreads -> ThreadStates]
      <3>1. tTh[t].tries < tMaxRetries => [tTh[t] EXCEPT !.pc = "begin"] \in ThreadStates
        BY ZenonT(60) DEF ConnInv, TuiClientTypes, ThreadStates, Tui!Pcs
      <3> QED
        BY <1>3, <3>1, NewThread DEF Tui!ConnectFails, ConnInv, TuiClientTypes
    <2> QED
      BY <1>3, <2>1 DEF Tui!ConnectFails, ConnInv, TuiClientTypes, TuiNetTypes, SentTypes
  <1> QED
    BY <1>1, <1>2, <1>3

(* A request is written only while the buffer has room. *)
LEMMA RequestKeeps ==
  ASSUME ConnInv, NEW t \in tThreads, Tui!Request(t)
  PROVE  ConnInv'
  <1> USE DEF Tui!bounds, Tui!server, Tui!network, Tui!client
  <1>1. tTh' \in [tThreads -> ThreadStates]
    <2>1. tTh[t] \in ThreadStates /\ tCur \in tSocks \cup {None}
      BY DEF ConnInv, TuiClientTypes
    <2>2. \A where \in {"subscribe", "receive", "profile reply", "subscribe reply"} :
            /\ [tTh[t] EXCEPT !.pc = where] \in ThreadStates
            /\ [tTh[t] EXCEPT !.pc = where, !.sock = tCur] \in ThreadStates
      BY <2>1, MovedThread DEF Tui!Pcs
    <2>3. \E x \in ThreadStates : tTh' = [tTh EXCEPT ![t] = x]
      BY <2>2, NewThread DEF Tui!Request
    <2> QED
      BY <2>3 DEF ConnInv, TuiClientTypes
  <1>2. SentTypes'
    <2>1. CASE UNCHANGED tC2s
      BY <2>1 DEF Tui!Request, ConnInv, SentTypes
    <2>2. CASE tC2s' # tC2s
      <3>1. PICK line \in Lines :
              /\ tCur # None /\ Len(tC2s[tCur]) < tBuffer
              /\ tC2s' = [tC2s EXCEPT ![tCur] = Append(@, line)]
        BY <2>2 DEF Tui!Request, Lines
      <3>2. tCur \in tSocks /\ tC2s[tCur] \in Seq(Lines)
        BY <3>1 DEF ConnInv, TuiClientTypes, SentTypes
      <3>3. /\ Append(tC2s[tCur], line) \in Seq(Lines) /\ Len(tC2s[tCur]) \in Nat
            /\ Len(Append(tC2s[tCur], line)) = Len(tC2s[tCur]) + 1
        BY <3>2, AppendProperties, LenProperties
      <3> QED
        BY <3>1, <3>2, <3>3, TuiConstants DEF Tui!Request, ConnInv, SentTypes
    <2> QED
      BY <2>1, <2>2
  <1> QED
    BY <1>1, <1>2 DEF Tui!Request, ConnInv, TuiClientTypes, TuiNetTypes

(* A line is taken only if there is one. *)
LEMMA LineTaken ==
  ASSUME ConnInv, NEW k, Tui!HasLine(k), tS2c' = [tS2c EXCEPT ![k] = @ - 1]
  PROVE  tS2c' \in [tSocks -> 0..tBuffer]
  <1>1. tS2c \in [tSocks -> 0..tBuffer] /\ tBuffer \in Nat /\ tS2c[k] > 0
    BY TuiConstants DEF Tui!HasLine, ConnInv, TuiNetTypes
  <1>2. CASE k \in tSocks
    <2>1. tS2c[k] - 1 \in 0..tBuffer
      BY <1>1, <1>2
    <2> QED
      BY <1>1, <2>1
  <1>3. CASE k \notin tSocks
    BY <1>1, <1>3
  <1> QED
    BY <1>2, <1>3

(* A reply, or none. *)
LEMMA ReplyKeeps ==
  ASSUME ConnInv, NEW t \in tThreads, Tui!Reply(t) \/ Tui!NoReply(t)
  PROVE  ConnInv'
  <1> USE DEF Tui!bounds, Tui!server, Tui!network, Tui!client
  <1>1. CASE Tui!Reply(t)
    <2>1. tTh' \in [tThreads -> ThreadStates]
      BY <1>1, GoneOn DEF Tui!Reply, Tui!AfterRequest, ConnInv, TuiClientTypes, LaterPcs
    <2>2. tS2c' \in [tSocks -> 0..tBuffer]
      BY <1>1, LineTaken DEF Tui!Reply
    <2> QED
      BY <1>1, <2>1, <2>2 DEF Tui!Reply, ConnInv, TuiClientTypes, TuiNetTypes, SentTypes
  <1>2. CASE Tui!NoReply(t)
    <2>1. PICK after \in {"end", "subscribe", "receive"} : Tui!Lost(t, after)
      BY <1>2 DEF Tui!NoReply, Tui!AfterRequest
    <2>2. tFaults' \in 0..tMaxFaults
      BY <1>2, TuiConstants DEF Tui!NoReply, ConnInv, TuiNetTypes
    <2> QED
      BY <1>2, <2>1, <2>2, LostTypes
         DEF Tui!NoReply, ConnInv, TuiClientTypes, TuiNetTypes, SentTypes
  <1> QED
    BY <1>1, <1>2

(* The receiving thread: started, looking, reading and failing. *)
LEMMA ReceiveKeeps ==
  ASSUME ConnInv, NEW t \in tThreads,
         Tui!StartReceiving(t) \/ Tui!RecvLoop(t) \/ Tui!RecvLine(t) \/ Tui!RecvFails(t)
  PROVE  ConnInv'
  <1> USE DEF Tui!bounds, Tui!server, Tui!network, Tui!client, Tui!wires
  <1>1. CASE Tui!StartReceiving(t)
    <2>1. tTh' \in [tThreads -> ThreadStates] /\ tRecvThread' \in tThreads \cup {None}
      <3>1. Tui!Thread("recv", "loop", tHost) \in ThreadStates
        BY NewThread DEF ConnInv, TuiClientTypes, Tui!Pcs
      <3> QED
        BY <1>1, <3>1, NewThread DEF Tui!StartReceiving, ConnInv, TuiClientTypes
    <2> QED
      BY <1>1, <2>1 DEF Tui!StartReceiving, ConnInv, TuiClientTypes, TuiNetTypes, SentTypes
  <1>2. CASE Tui!RecvLoop(t)
    <2>1. [tTh[t] EXCEPT !.pc = "reading", !.sock = tCur] \in ThreadStates
      BY MovedThread DEF ConnInv, TuiClientTypes, Tui!Pcs
    <2>2. tTh' \in [tThreads -> ThreadStates]
      BY <1>2, <2>1, NewThread DEF Tui!RecvLoop, ConnInv, TuiClientTypes
    <2> QED
      BY <1>2, <2>2 DEF Tui!RecvLoop, ConnInv, TuiClientTypes, TuiNetTypes, SentTypes
  <1>3. CASE Tui!RecvLine(t)
    <2>1. tTh' \in [tThreads -> ThreadStates]
      BY <1>3, GoneOn DEF Tui!RecvLine, ConnInv, TuiClientTypes, LaterPcs
    <2>2. tS2c' \in [tSocks -> 0..tBuffer]
      BY <1>3, LineTaken DEF Tui!RecvLine
    <2> QED
      BY <1>3, <2>1, <2>2 DEF Tui!RecvLine, ConnInv, TuiClientTypes, TuiNetTypes, SentTypes
  <1>4. CASE Tui!RecvFails(t)
    <2>1. CASE tTh' = [tTh EXCEPT ![t] = Tui!Free] /\ UNCHANGED <<Tui!client, tCli, tS2c>>
      BY <1>4, <2>1, NewThread
         DEF Tui!RecvFails, ConnInv, TuiClientTypes, TuiNetTypes, SentTypes
    <2>2. CASE Tui!Lost(t, "end")
      BY <1>4, <2>2, LostTypes
         DEF Tui!RecvFails, ConnInv, TuiClientTypes, TuiNetTypes, SentTypes
    <2> QED
      BY <1>4, <2>1, <2>2 DEF Tui!RecvFails
  <1> QED
    BY <1>1, <1>2, <1>3, <1>4

(* A loss leads to one more reconnecting thread. *)
LEMMA AgainKeeps ==
  ASSUME ConnInv, NEW t \in tThreads, Tui!LostAgain(t)
  PROVE  ConnInv'
  <1> USE DEF Tui!bounds, Tui!server, Tui!network, Tui!wires
  <1>1. Tui!GoesOn(t, tTh[t].after) \in ThreadStates
    BY GoneOn DEF ConnInv, TuiClientTypes, ThreadStates, LaterPcs
  <1>2. Tui!Thread("auto", "begin", tHost) \in ThreadStates
    BY NewThread DEF ConnInv, TuiClientTypes, Tui!Pcs
  <1>3. tTh' \in [tThreads -> ThreadStates]
    BY <1>1, <1>2 DEF Tui!LostAgain, ConnInv, TuiClientTypes
  <1> QED
    BY <1>3 DEF Tui!LostAgain, ConnInv, TuiClientTypes, TuiNetTypes, SentTypes

(* A new connect worker cancels the one before it. *)
LEMMA ConnectTypes ==
  ASSUME TuiClientTypes, NEW h \in Tui!Hosts, Tui!DoConnect(h)
  PROVE  tTh' \in [tThreads -> ThreadStates]
  <1>1. \A t \in tThreads : Tui!Cancelled(t) \in ThreadStates
    BY NewThread DEF Tui!Cancelled, TuiClientTypes, ThreadStates
  <1>2. Tui!Thread("worker", "begin", h) \in ThreadStates
    BY NewThread DEF Tui!Pcs
  <1> QED
    BY <1>1, <1>2 DEF Tui!DoConnect, TuiClientTypes

(* The user's flows are counted up to their bound. *)
LEMMA FlowCounts ==
  ASSUME ConnInv, tFlows < tMaxFlows, tFlows' = tFlows + 1
  PROVE  tFlows' \in 0..tMaxFlows
  BY TuiConstants DEF ConnInv, TuiNetTypes

(* The user reconnects, picks an address, switches or flips. *)
LEMMA UserKeeps ==
  ASSUME ConnInv,
         Tui!UserReconnects \/ Tui!DialogPicks \/ Tui!UserSwitches \/ Tui!UserFlips
  PROVE  ConnInv'
  <1> USE DEF Tui!bounds, Tui!server, Tui!network, Tui!client, Tui!wires
  <1>1. CASE Tui!UserReconnects
    <2>1. Tui!Disconnect /\ tFlows' \in 0..tMaxFlows
      BY <1>1, FlowCounts DEF Tui!UserReconnects
    <2>2. TuiClientTypes'
      BY <1>1, <2>1, Disconnected DEF Tui!UserReconnects, ConnInv, TuiClientTypes
    <2>3. TuiNetTypes'
      BY <1>1, <2>1, Disconnected DEF Tui!UserReconnects, ConnInv, TuiNetTypes
    <2>4. SentTypes'
      BY <1>1, <2>1, Disconnected DEF Tui!UserReconnects, ConnInv, SentTypes
    <2> QED
      BY <2>2, <2>3, <2>4 DEF ConnInv
  <1>2. CASE Tui!DialogPicks
    <2>1. tTh' \in [tThreads -> ThreadStates]
      BY <1>2, ConnectTypes DEF Tui!DialogPicks, ConnInv, TuiNetTypes
    <2> QED
      BY <1>2, <2>1 DEF Tui!DialogPicks, ConnInv, TuiClientTypes, TuiNetTypes, SentTypes
  <1>3. CASE Tui!UserSwitches
    <2>1. tTh' \in [tThreads -> ThreadStates]
      BY <1>3, ConnectTypes DEF Tui!UserSwitches, ConnInv, TuiClientTypes
    <2>2. Tui!Disconnect /\ tFlows' \in 0..tMaxFlows
      BY <1>3, FlowCounts DEF Tui!UserSwitches
    <2>3. TuiClientTypes'
      BY <1>3, <2>1, <2>2, Disconnected DEF Tui!UserSwitches, ConnInv, TuiClientTypes
    <2>4. TuiNetTypes'
      BY <1>3, <2>2, Disconnected DEF Tui!UserSwitches, ConnInv, TuiNetTypes
    <2>5. SentTypes'
      BY <1>3, <2>2, Disconnected DEF Tui!UserSwitches, ConnInv, SentTypes
    <2> QED
      BY <2>3, <2>4, <2>5 DEF ConnInv
  <1>4. CASE Tui!UserFlips
    <2>1. Tui!Thread("retry", "begin", "gateway") \in ThreadStates
      BY NewThread DEF Tui!Pcs, Tui!Hosts
    <2>2. tTh' \in [tThreads -> ThreadStates]
      BY <1>4, <2>1 DEF Tui!UserFlips, ConnInv, TuiClientTypes
    <2>3. tCur' = None
      BY <1>4, Disconnected DEF Tui!UserFlips
    <2>4. SentTypes'
      <3>1. tCur \in tSocks /\ tC2s' = [tC2s EXCEPT ![tCur] = Append(@, "flip")]
        BY <1>4 DEF Tui!UserFlips, ConnInv, TuiClientTypes
      <3>2. tC2s[tCur] \in Seq(Lines) /\ Len(tC2s[tCur]) <= tBuffer /\ "flip" \in Lines
        BY <1>4, <3>1 DEF Tui!UserFlips, ConnInv, SentTypes, Lines
      <3>3. /\ Append(tC2s[tCur], "flip") \in Seq(Lines) /\ Len(tC2s[tCur]) \in Nat
            /\ Len(Append(tC2s[tCur], "flip")) = Len(tC2s[tCur]) + 1
        BY <3>2, AppendProperties, LenProperties
      <3> QED
        BY <2>3, <3>1, <3>2, <3>3, TuiConstants DEF ConnInv, SentTypes
    <2>5. Tui!Disconnect /\ tFlows' \in 0..tMaxFlows
      BY <1>4, FlowCounts DEF Tui!UserFlips
    <2>6. TuiClientTypes'
      BY <1>4, <2>2, <2>5, Disconnected DEF Tui!UserFlips, ConnInv, TuiClientTypes
    <2>7. TuiNetTypes'
      BY <1>4, <2>5, Disconnected DEF Tui!UserFlips, ConnInv, TuiNetTypes
    <2> QED
      BY <2>4, <2>6, <2>7 DEF ConnInv
  <1> QED
    BY <1>1, <1>2, <1>3, <1>4

(* The server takes a command, ends a connection or sends to subscribers.   *)
LEMMA ServerKeeps ==
  ASSUME ConnInv, Tui!Broadcast \/ \E k \in tSocks : Tui!ServerThread(k)
  PROVE  ConnInv'
  <1> USE DEF Tui!bounds, Tui!network, Tui!client, Tui!wires
  <1>1. ASSUME NEW k \in tSocks, Tui!Dispatch(k)  PROVE ConnInv'
    <2>1. /\ tC2s[k] # <<>> /\ tC2s' = [tC2s EXCEPT ![k] = Tail(@)]
          /\ tNet' \in {tNet, "flipping"}
          /\ UNCHANGED <<Tui!client, tTh, tUi, tPath, tLive, tCli, Tui!bounds>>
      BY <1>1 DEF Tui!Dispatch
    <2>2. tS2c' \in [tSocks -> 0..tBuffer] /\ tSubscribers' \subseteq tSocks
          /\ tSrv' \in [tSocks -> {"none", "open", "closed"}]
      <3>1. /\ tSrv \in [tSocks -> {"none", "open", "closed"}] /\ tSubscribers \subseteq tSocks
            /\ tS2c \in [tSocks -> 0..tBuffer] /\ tBuffer \in Nat
        BY TuiConstants DEF ConnInv, TuiNetTypes
      <3>2. CASE tCli[k] = "open"
        <4>1. /\ tS2c' = [tS2c EXCEPT ![k] = IF tS2c[k] >= tBuffer THEN tS2c[k] ELSE tS2c[k] + 1]
              /\ tSubscribers' \subseteq tSubscribers \cup {k} /\ UNCHANGED tSrv
          BY <1>1, <3>2 DEF Tui!Dispatch, Tui!Full
        <4>2. (IF tS2c[k] >= tBuffer THEN tS2c[k] ELSE tS2c[k] + 1) \in 0..tBuffer
          BY <3>1
        <4> QED
          BY <3>1, <4>1, <4>2
      <3>3. CASE tCli[k] # "open"
        BY <1>1, <3>1, <3>3 DEF Tui!Dispatch
      <3> QED
        BY <3>2, <3>3
    <2>3. SentTypes'
      <3>1. /\ tC2s[k] \in Seq(Lines) /\ Tail(tC2s[k]) \in Seq(Lines)
            /\ Len(Tail(tC2s[k])) = Len(tC2s[k]) - 1 /\ Len(tC2s[k]) \in Nat
        BY <2>1, HeadTailProperties, LenProperties DEF ConnInv, SentTypes
      <3> QED
        BY <2>1, <3>1, TuiConstants DEF ConnInv, SentTypes
    <2> QED
      BY <2>1, <2>2, <2>3 DEF ConnInv, TuiClientTypes, TuiNetTypes
  <1>2. ASSUME NEW k \in tSocks, Tui!ClientGone(k)  PROVE ConnInv'
    BY <1>2 DEF Tui!ClientGone, ConnInv, TuiClientTypes, TuiNetTypes, SentTypes
  <1>3. CASE Tui!Broadcast
    <2>1. tS2c' \in [tSocks -> 0..tBuffer] /\ tSubscribers' \subseteq tSocks
          /\ tSrv' \in [tSocks -> {"none", "open", "closed"}]
      BY <1>3, TuiConstants DEF Tui!Broadcast, Tui!Full, ConnInv, TuiNetTypes
    <2>2. tFaults' \in 0..tMaxFaults
      BY <1>3, TuiConstants DEF Tui!Broadcast, ConnInv, TuiNetTypes
    <2> QED
      BY <1>3, <2>1, <2>2 DEF Tui!Broadcast, ConnInv, TuiClientTypes, TuiNetTypes, SentTypes
  <1> QED
    BY <1>1, <1>2, <1>3 DEF Tui!ServerThread

(* The network flips, is joined, is cut and comes back. *)
LEMMA NetworkKeeps ==
  ASSUME ConnInv, Tui!FlipHappens \/ Tui!LaptopJoins \/ Tui!PathCut \/ Tui!PathBack
  PROVE  ConnInv'
  <1> USE DEF Tui!bounds, Tui!server, Tui!client, Tui!wires
  <1>1. TuiClientTypes' /\ SentTypes'
    BY DEF Tui!FlipHappens, Tui!LaptopJoins, Tui!PathCut, Tui!PathBack,
           ConnInv, TuiClientTypes, SentTypes
  <1>2. UNCHANGED <<tCli, tSrv, tS2c, tSubscribers, tFlows>>
    BY DEF Tui!FlipHappens, Tui!LaptopJoins, Tui!PathCut, Tui!PathBack
  <1>3. tPath' \in Tui!Hosts \cup {None} /\ tNet' \in {"client", "flipping", "ap"}
        /\ tLive' \in {tLive, Tui!NoneLive}
    BY DEF Tui!FlipHappens, Tui!LaptopJoins, Tui!PathCut, Tui!PathBack, Tui!Hosts, ConnInv, TuiNetTypes
  <1>4. tFaults' \in 0..tMaxFaults
    BY TuiConstants DEF Tui!FlipHappens, Tui!LaptopJoins, Tui!PathCut, Tui!PathBack, ConnInv, TuiNetTypes
  <1>5. TuiNetTypes'
    BY <1>2, <1>3, <1>4 DEF Tui!NoneLive, ConnInv, TuiNetTypes
  <1> QED
    BY <1>1, <1>5 DEF ConnInv

(* At first the types are right. *)
LEMMA ConnInit == Tui!Init => ConnInv
  <1> SUFFICES ASSUME Tui!Init  PROVE ConnInv
    OBVIOUS
  <1>1. tTh \in [tThreads -> ThreadStates]
    BY NewThread DEF Tui!Init, Tui!Pcs, Tui!Hosts
  <1>2. TuiClientTypes
    BY <1>1 DEF Tui!Init, TuiClientTypes, Tui!Hosts
  <1>4. tFlows \in 0..tMaxFlows /\ tFaults \in 0..tMaxFaults /\ tS2c \in [tSocks -> 0..tBuffer]
    BY TuiConstants DEF Tui!Init
  <1>5. TuiNetTypes
    BY <1>4 DEF Tui!Init, TuiNetTypes, Tui!Hosts
  <1>3. SentTypes
    <2>1. <<>> \in Seq(Lines) /\ Len(<<>>) = 0
      BY EmptySeq
    <2> QED
      BY <2>1, TuiConstants DEF Tui!Init, SentTypes
  <1> QED
    BY <1>2, <1>3, <1>5 DEF ConnInv

(* Every step keeps them. *)
LEMMA ConnStep == ConnInv /\ [Tui!Next]_Tui!vars => ConnInv'
  <1> SUFFICES ASSUME ConnInv, [Tui!Next]_Tui!vars  PROVE ConnInv'
    OBVIOUS
  <1>1. ASSUME NEW t \in tThreads, Tui!ClientThread(t)  PROVE ConnInv'
    BY <1>1, ConnectKeeps, RequestKeeps, ReplyKeeps, ReceiveKeeps, AgainKeeps DEF Tui!ClientThread
  <1>2. CASE UNCHANGED Tui!vars
    BY <1>2 DEF Tui!vars, Tui!client, Tui!network, Tui!server, Tui!wires, Tui!bounds,
                ConnInv, TuiClientTypes, TuiNetTypes, SentTypes
  <1> QED
    BY <1>1, <1>2, UserKeeps, ServerKeeps, NetworkKeeps DEF Tui!Next

(* The types of the connection hold in every behaviour of the client. *)
LEMMA LinkTypesHold == ClientSpec => []Tui!TypeOK
  <1>1. ConnInv => Tui!TypeOK
    BY ZenonT(60) DEF ConnInv, TuiClientTypes, TuiNetTypes, SentTypes, ThreadStates, Tui!TypeOK, Tui!Pcs
  <1> QED
    BY <1>1, ConnInit, ConnStep, LinkMoves, PTL DEF Tui!Spec

-----------------------------------------------------------------------------
(* A client that comes to rest is fed.                                      *)

(* A receiving thread is the one the client knows.                          *)
OneReceiver ==
  \A t \in tThreads :
    tTh[t].kind = "recv" =>
      /\ t = tRecvThread /\ tTh[t].pc \in {"loop", "reading", "again"}
      /\ tTh[t].pc = "reading" => tTh[t].sock # None
      /\ tTh[t].pc = "again" => tTh[t].after = "end"

(* While the stop event is set, somebody is about to clear it.              *)
Starts(t) == tTh[t].kind = "worker" /\ tTh[t].pc = "begin"

StopEnds ==
  tStop => tUi = "dialog" \/ \E t \in tThreads : tTh[t].pc = "again" \/ Starts(t)

(* A cancelled worker that has connected is followed by the next one.       *)
OrphanFollowed ==
  \A t \in tThreads :
    tTh[t].kind = "orphan" /\ tTh[t].pc \notin {"begin", "opening"} => \E u \in tThreads : Starts(u)

(* The client holds no other open connection than the current one.          *)
OneOpen ==
  /\ tState = "connected" => tCur # None
  /\ \A k \in tSocks : tCli[k] = "open" => k = tCur

(* Whoever made the connection, or a successor, is still there.             *)
SomeoneThere ==
  tState = "connected" /\ tUi = "idle" /\ tMadeBy \in {"worker", "auto"} =>
    \E t \in tThreads : tTh[t].kind # "free"

FreeBegins == \A t \in tThreads : tTh[t].kind = "free" => tTh[t].pc = "begin"

FedInv == FreeBegins /\ OneReceiver /\ StopEnds /\ OrphanFollowed /\ OneOpen /\ SomeoneThere

(* A thread of the client takes a step past its beginning, or ends.         *)
LEMMA ThreadKeeps ==
  ASSUME ConnInv, FedInv, NEW t \in tThreads, NEW x \in ThreadStates,
         tTh' = [tTh EXCEPT ![t] = x], UNCHANGED <<tRecvThread, tUi>>,
         tTh[t].kind # "free", tTh[t].pc \notin {"begin", "again"},
         x.kind \in {tTh[t].kind, "free"}, x.kind = "free" => x.pc = "begin",
         x.kind = "recv" => /\ x.pc \in {"loop", "reading", "again"}
                            /\ x.pc = "reading" => x.sock # None
                            /\ x.pc = "again" => x.after = "end",
         x.kind = "orphan" => tTh[t].pc # "opening" \/ x.pc \in {"begin", "opening"},
         tStop' => tStop \/ x.pc = "again",
         OneOpen',
         tState' = "connected" /\ tUi = "idle" /\ tMadeBy' \in {"worker", "auto"} =>
           x.kind # "free" \/ \E u \in tThreads \ {t} : tTh[u].kind # "free"
  PROVE  FedInv'
  <1>1. tTh'[t] = x /\ \A u \in tThreads \ {t} : tTh'[u] = tTh[u]
    BY DEF ConnInv, TuiClientTypes
  <1>2. FreeBegins' /\ OneReceiver'
    BY <1>1 DEF FedInv, FreeBegins, OneReceiver
  <1>3. \A u \in tThreads : Starts(u) => u # t /\ tTh'[u].kind = "worker" /\ tTh'[u].pc = "begin"
    BY <1>1 DEF Starts
  <1>4. StopEnds'
    BY <1>1, <1>3 DEF FedInv, StopEnds, Starts
  <1>5. OrphanFollowed'
    <2>1. ASSUME NEW v \in tThreads, tTh'[v].kind = "orphan", tTh'[v].pc \notin {"begin", "opening"}
          PROVE  \E u \in tThreads : Starts(u)
      <3>1. tTh[v].kind = "orphan" /\ tTh[v].pc \notin {"begin", "opening"}
        BY <1>1, <2>1
      <3> QED
        BY <3>1 DEF FedInv, OrphanFollowed
    <2> QED
      BY <1>3, <2>1 DEF OrphanFollowed, Starts
  <1>6. SomeoneThere'
    BY <1>1 DEF SomeoneThere
  <1> QED
    BY <1>2, <1>4, <1>5, <1>6 DEF FedInv

(* It ends, while somebody else is there. *)
LEMMA ThreadEnds ==
  ASSUME ConnInv, FedInv, NEW t \in tThreads, tTh' = [tTh EXCEPT ![t] = Tui!Free],
         UNCHANGED <<tRecvThread, tUi, tStop, tState, tMadeBy>>,
         tTh[t].kind # "free", tTh[t].pc \notin {"begin", "again"}, OneOpen',
         tState = "connected" /\ tUi = "idle" => \E u \in tThreads \ {t} : tTh[u].kind # "free"
  PROVE  FedInv'
  <1>1. PICK x \in ThreadStates : x = Tui!Free
    BY NewThread
  <1>2. x.kind = "free" /\ x.pc = "begin"
    BY <1>1 DEF Tui!Free
  <1> QED
    BY <1>1, <1>2, ThreadKeeps

(* Somebody else is there while a stop is on. *)
LEMMA StopIsSeen ==
  ASSUME ConnInv, FedInv, tStop, tUi = "idle", NEW t \in tThreads, tTh[t].pc # "again", ~Starts(t)
  PROVE  \E u \in tThreads \ {t} : tTh[u].kind # "free" /\ (tTh[u].pc = "again" \/ Starts(u))
  BY DEF FedInv, StopEnds, FreeBegins, Starts

(* What a thread goes on with. *)
LEMMA GoneOnTo ==
  ASSUME ConnInv, NEW t \in tThreads, NEW where \in LaterPcs
  PROVE  LET x == Tui!GoesOn(t, where) IN
         /\ x \in ThreadStates
         /\ x = Tui!Free \/ (x.kind = tTh[t].kind /\ x.pc = where)
         /\ x = Tui!Free <=> where = "end" \/ (tTh[t].kind = "orphan" /\ where \in {"profile", "subscribe"})
  <1>1. Tui!GoesOn(t, where) \in ThreadStates
    BY GoneOn DEF ConnInv
  <1>2. tTh[t] \in ThreadStates
    BY DEF ConnInv, TuiClientTypes
  <1>3. LET y == [tTh[t] EXCEPT !.pc = where, !.sock = None] IN y.kind = tTh[t].kind /\ y.pc = where
    BY <1>2 DEF ThreadStates
  <1>4. where # "begin"
    BY DEF LaterPcs
  <1>5. Tui!Free.kind = "free" /\ Tui!Free.pc = "begin"
    BY DEF Tui!Free
  <1> QED
    BY <1>1, <1>3, <1>4, <1>5 DEF Tui!GoesOn

(* A client that disconnects holds no open connection. *)
LEMMA NoneOpen ==
  ASSUME ConnInv, FedInv, Tui!Disconnect
  PROVE  OneOpen' /\ tState' = "disconnected"
  <1>1. tState' = "disconnected" /\ tCur' = None
    BY DEF Tui!Disconnect
  <1>2. \A k \in tSocks : tCli'[k] # "open"
    <2>1. CASE tCur = None
      <3>1. UNCHANGED tCli /\ None \notin tSocks
        BY <2>1, ClientAssumption DEF Tui!Disconnect, ClientAssumption, Tui!TuiLinkAssumption
      <3> QED
        BY <2>1, <3>1 DEF FedInv, OneOpen
    <2>2. CASE tCur # None
      <3>1. tCli' = [tCli EXCEPT ![tCur] = "closed"] /\ DOMAIN tCli = tSocks
        BY <2>2 DEF Tui!Disconnect, ConnInv, TuiNetTypes
      <3> QED
        BY <3>1 DEF FedInv, OneOpen
    <2> QED
      BY <2>1, <2>2
  <1> QED
    BY <1>1, <1>2 DEF OneOpen

(* A thread finds the connection lost, which the client may know already.   *)
LEMMA LostKeeps ==
  ASSUME ConnInv, FedInv, NEW t \in tThreads, NEW after \in {"end", "subscribe", "receive"},
         tTh[t].kind # "free", tTh[t].pc \notin {"begin", "again", "opening"},
         tTh[t].kind = "recv" => after = "end",
         Tui!Lost(t, after), UNCHANGED <<tRecvThread, tUi>>
  PROVE  FedInv'
  <1>1. CASE tState = "disconnected"
    <2> DEFINE x == Tui!GoesOn(t, after)
    <2>1. /\ tTh' = [tTh EXCEPT ![t] = x]
          /\ UNCHANGED <<tState, tStop, tSubscribed, tCur, tCli, tS2c>>
      BY <1>1 DEF Tui!Lost
    <2>2. /\ x \in ThreadStates
          /\ x = Tui!Free \/ (x.kind = tTh[t].kind /\ x.pc = after)
          /\ after = "end" => x = Tui!Free
      BY GoneOnTo DEF LaterPcs
    <2> HIDE DEF x
    <2>3. x.kind \in {tTh[t].kind, "free"} /\ (x.kind = "free" => x.pc = "begin") /\ x.kind # "recv"
      BY <2>2 DEF Tui!Free
    <2>4. OneOpen'
      BY <2>1 DEF FedInv, OneOpen
    <2> QED
      BY <1>1, <2>1, <2>2, <2>3, <2>4, ThreadKeeps
  <1>2. CASE tState # "disconnected"
    <2>1. PICK x : x = [tTh[t] EXCEPT !.pc = "again", !.sock = None, !.after = after]
      OBVIOUS
    <2>2. x \in ThreadStates /\ x.kind = tTh[t].kind /\ x.pc = "again" /\ x.after = after
      BY <2>1, ZenonT(60) DEF ConnInv, TuiClientTypes, ThreadStates, Tui!Pcs
    <2>3. /\ Tui!Disconnect /\ tStop' = TRUE
          /\ tTh' = [tTh EXCEPT ![t].pc = "again", ![t].sock = None, ![t].after = after]
      BY <1>2 DEF Tui!Lost
    <2>4. tTh' = [tTh EXCEPT ![t] = x]
      BY <2>1, <2>3 DEF ConnInv, TuiClientTypes
    <2>5. OneOpen' /\ tState' = "disconnected"
      BY <2>3, NoneOpen
    <2> QED
      BY <2>2, <2>4, <2>5, ThreadKeeps
  <1> QED
    BY <1>1, <1>2

(* The module's bound: at most one thread connects, and never over another  *)
(* connection.                                                              *)
Turns ==
  /\ tMadeBy # "clash"
  /\ \A t, u \in tThreads :
       /\ tTh[t].kind \in {"worker", "orphan", "auto", "retry"} /\ tTh[t].pc # "begin"
       /\ tTh[u].kind \in {"worker", "orphan", "auto", "retry"} /\ tTh[u].pc # "begin"
       => t = u

(* The bound in terms of the client's variables.                           *)
LEMMA TurnsTaken == Tui!TakeTurns => Turns
  BY DEF Tui!TakeTurns, Tui!Connecting, Turns

(* A thread that begins to connect clears the stop event, or ends by it.    *)
LEMMA BeginFed ==
  ASSUME ConnInv, FedInv, Turns', NEW t \in tThreads, Tui!BeginConnect(t)
  PROVE  FedInv'
  <1> USE DEF Tui!wires
  <1>1. /\ tTh[t].kind \in {"worker", "orphan", "auto", "retry"} /\ tTh[t].pc = "begin"
        /\ UNCHANGED <<tUi, tCli, tMadeBy>>
    BY DEF Tui!BeginConnect, Tui!At
  <1>2. CASE tTh[t].kind \in {"auto", "retry"} /\ tStop
    <2>1. tTh' = [tTh EXCEPT ![t] = Tui!Free] /\ UNCHANGED <<tState, tStop, tCur, tRecvThread>>
      BY <1>2 DEF Tui!BeginConnect, Tui!client
    <2>2. tTh'[t] = Tui!Free /\ \A u \in tThreads \ {t} : tTh'[u] = tTh[u]
      BY <2>1 DEF ConnInv, TuiClientTypes
    <2>3. Tui!Free.kind = "free" /\ Tui!Free.pc = "begin"
      BY DEF Tui!Free
    <2>4. FreeBegins' /\ OneReceiver' /\ OneOpen'
      BY <1>1, <2>1, <2>2, <2>3 DEF FedInv, FreeBegins, OneReceiver, OneOpen
    <2>5. StopEnds' /\ OrphanFollowed'
      BY <1>1, <1>2, <2>1, <2>2, <2>3 DEF FedInv, StopEnds, OrphanFollowed, Starts
    <2>6. SomeoneThere'
      BY <1>1, <1>2, <2>1, <2>2, StopIsSeen DEF SomeoneThere, Starts
    <2> QED
      BY <2>4, <2>5, <2>6 DEF FedInv
  <1>3. CASE ~(tTh[t].kind \in {"auto", "retry"} /\ tStop)
    <2>1. /\ tStop' = FALSE /\ tState' = "connecting" /\ UNCHANGED <<tCur, tRecvThread>>
          /\ tTh' = [tTh EXCEPT ![t].pc = "opening", ![t].tries = @ + 1]
      BY <1>3 DEF Tui!BeginConnect
    <2>2. /\ tTh'[t].kind = tTh[t].kind /\ tTh'[t].pc = "opening"
          /\ \A u \in tThreads \ {t} : tTh'[u] = tTh[u]
      BY <2>1 DEF ConnInv, TuiClientTypes, ThreadStates
    <2>6. FreeBegins'
      BY <1>1, <2>2 DEF FedInv, FreeBegins
    <2>3. OneReceiver'
      <3>1. \A u \in tThreads : tTh'[u].kind = "recv" => u # t /\ tTh'[u] = tTh[u]
        BY <1>1, <2>2
      <3> QED
        BY <2>1, <3>1 DEF FedInv, OneReceiver
    <2>5. OneOpen' /\ StopEnds' /\ SomeoneThere'
      BY <1>1, <2>1, <2>2 DEF FedInv, OneOpen, StopEnds, SomeoneThere
    <2>4. OrphanFollowed'
      <3>1. ASSUME NEW v \in tThreads, tTh'[v].kind = "orphan", tTh'[v].pc \notin {"begin", "opening"}
            PROVE  \E u \in tThreads : tTh'[u].kind = "worker" /\ tTh'[u].pc = "begin"
        <4>1. v # t /\ tTh[v] = tTh'[v]
          BY <2>2, <3>1
        <4>2. PICK u \in tThreads : tTh[u].kind = "worker" /\ tTh[u].pc = "begin"
          BY <3>1, <4>1 DEF FedInv, OrphanFollowed, Starts
        <4>3. u # t
          BY <1>1, <2>2, <3>1, <4>1 DEF Turns
        <4> QED
          BY <2>2, <4>2, <4>3
      <3> QED
        BY <3>1 DEF OrphanFollowed, Starts
    <2> QED
      BY <2>3, <2>4, <2>5, <2>6 DEF FedInv
  <1> QED
    BY <1>2, <1>3

(* A connection is made, or not. *)
LEMMA ConnectFed ==
  ASSUME ConnInv, FedInv, Turns', NEW t \in tThreads, Tui!Connected(t) \/ Tui!ConnectFails(t)
  PROVE  FedInv'
  <1> USE DEF Tui!wires, Tui!bounds, Tui!network, Tui!server
  <1>1. /\ tTh[t].kind \in {"worker", "orphan", "auto", "retry"} /\ tTh[t].pc = "opening"
        /\ UNCHANGED <<tUi, tStop, tRecvThread>>
    BY DEF Tui!Connected, Tui!ConnectFails, Tui!At
  <1>2. Tui!Free.kind = "free" /\ Tui!Free.pc = "begin" /\ Tui!Free \in ThreadStates
    BY NewThread DEF Tui!Free
  <1>3. CASE Tui!Connected(t)
    <2> DEFINE next == [worker |-> "profile", orphan |-> "end", auto |-> "subscribe",
                        retry |-> "end"]
    <2>1. PICK x : x = Tui!GoesOn(t, next[tTh[t].kind])
      OBVIOUS
    <2>2. tTh' = [tTh EXCEPT ![t] = x]
      BY <1>3, <2>1 DEF Tui!Connected
    <2>3. next[tTh[t].kind] \in LaterPcs /\ next[tTh[t].kind] \in {"profile", "subscribe", "end"}
          /\ (next[tTh[t].kind] = "end" <=> tTh[t].kind \in {"orphan", "retry"})
      BY <1>1 DEF LaterPcs
    <2>4. /\ x \in ThreadStates
          /\ x = Tui!Free \/ (x.kind = tTh[t].kind /\ x.pc = next[tTh[t].kind])
          /\ x = Tui!Free <=> tTh[t].kind \in {"orphan", "retry"}
      BY <1>1, <2>1, <2>3, GoneOnTo
    <2>5. PICK k \in tSocks : tCur' = k /\ tState' = "connected" /\ tCli' = [tCli EXCEPT ![k] = "open"]
      BY <1>3 DEF Tui!Connected
    <2>6. tMadeBy' = tTh[t].kind /\ tCur = None
      BY <1>3 DEF Tui!Connected, Turns
    <2>7. OneOpen'
      <3>1. \A j \in tSocks : tCli[j] # "open" /\ j # None
        BY <2>6, ClientAssumption DEF FedInv, OneOpen, ClientAssumption, Tui!TuiLinkAssumption
      <3> QED
        BY <2>5, <3>1 DEF OneOpen, ConnInv, TuiNetTypes
    <2> HIDE DEF next
    <2>8. x.kind \in {tTh[t].kind, "free"} /\ (x.kind = "free" => x.pc = "begin")
          /\ x.kind # "recv" /\ x.kind # "orphan"
      BY <1>1, <1>2, <2>4
    <2>9. tMadeBy' \in {"worker", "auto"} => x.kind # "free"
      BY <1>1, <2>4, <2>6
    <2> QED
      BY <1>1, <2>2, <2>4, <2>7, <2>8, <2>9, ThreadKeeps
  <1>4. CASE Tui!ConnectFails(t)
    <2>1. PICK y : y = [tTh[t] EXCEPT !.pc = "begin"]
      OBVIOUS
    <2>2. y.kind = tTh[t].kind /\ y.pc = "begin"
          /\ (tTh[t].tries < tMaxRetries => y \in ThreadStates)
      BY <2>1, ZenonT(60) DEF ConnInv, TuiClientTypes, ThreadStates, Tui!Pcs
    <2>3. PICK x \in ThreadStates :
            tTh' = [tTh EXCEPT ![t] = x] /\ x.pc = "begin" /\ x.kind \in {tTh[t].kind, "free"}
      BY <1>2, <1>4, <2>1, <2>2 DEF Tui!ConnectFails
    <2>4. tState' = "disconnected" /\ OneOpen'
      BY <1>4 DEF Tui!ConnectFails, FedInv, OneOpen
    <2> QED
      BY <1>1, <2>3, <2>4, ThreadKeeps
  <1> QED
    BY <1>3, <1>4

(* A request goes out, unless the client is not connected any more. *)
LEMMA RequestFed ==
  ASSUME ConnInv, FedInv, NEW t \in tThreads, Tui!Request(t)
  PROVE  FedInv'
  <1> USE DEF Tui!client
  <1>1. tTh[t].kind # "free" /\ tTh[t].pc \in {"profile", "subscribe"}
    BY DEF Tui!Request, Tui!Alive
  <1>2. UNCHANGED <<tState, tStop, tCur, tRecvThread, tUi, tCli, tMadeBy>>
    BY DEF Tui!Request
  <1>3. OneOpen'
    BY <1>2 DEF FedInv, OneOpen
  <1>4. tTh[t] \in ThreadStates /\ tTh[t].kind # "recv" /\ tCur \in tSocks \cup {None}
    BY <1>1 DEF ConnInv, TuiClientTypes, FedInv, OneReceiver
  <1>5. \A where \in {"subscribe", "receive", "profile reply", "subscribe reply"} :
          /\ [tTh[t] EXCEPT !.pc = where] \in ThreadStates
          /\ [tTh[t] EXCEPT !.pc = where].kind = tTh[t].kind
          /\ [tTh[t] EXCEPT !.pc = where, !.sock = tCur] \in ThreadStates
          /\ [tTh[t] EXCEPT !.pc = where, !.sock = tCur].kind = tTh[t].kind
    BY <1>4, MovedThread, ZenonT(60) DEF Tui!Pcs, ThreadStates
  <1>6. \/ tState # "connected" /\ tTh' = [tTh EXCEPT ![t] = Tui!Free]
        \/ \E x \in ThreadStates : tTh' = [tTh EXCEPT ![t] = x] /\ x.kind = tTh[t].kind
    BY <1>1, <1>5 DEF Tui!Request
  <1>7. Tui!Free.kind = "free" /\ Tui!Free.pc = "begin" /\ Tui!Free \in ThreadStates
    BY NewThread DEF Tui!Free
  <1>8. PICK x \in ThreadStates :
          /\ tTh' = [tTh EXCEPT ![t] = x]
          /\ x.kind = tTh[t].kind \/ (x.kind = "free" /\ x.pc = "begin" /\ tState # "connected")
    BY <1>6, <1>7
  <1> QED
    BY <1>1, <1>2, <1>3, <1>4, <1>8, ThreadKeeps

(* A reply comes, or does not. *)
LEMMA ReplyFed ==
  ASSUME ConnInv, FedInv, NEW t \in tThreads, Tui!Reply(t) \/ Tui!NoReply(t)
  PROVE  FedInv'
  <1> USE DEF Tui!client
  <1>1. tTh[t].kind # "free" /\ tTh[t].pc \in {"profile reply", "subscribe reply"}
    BY DEF Tui!Reply, Tui!NoReply, Tui!Awaits, Tui!Alive
  <1>2. tTh[t].kind # "recv"
    BY <1>1 DEF FedInv, OneReceiver
  <1>3. Tui!AfterRequest(t) \in {"subscribe", "receive"}
    BY DEF Tui!AfterRequest
  <1>4. CASE Tui!Reply(t)
    <2>1. UNCHANGED <<tState, tStop, tCur, tRecvThread, tUi, tCli, tMadeBy>>
      BY <1>4 DEF Tui!Reply
    <2>2. PICK x : x = Tui!GoesOn(t, Tui!AfterRequest(t))
      OBVIOUS
    <2>3. tTh' = [tTh EXCEPT ![t] = x]
      BY <1>4, <2>2 DEF Tui!Reply
    <2>4. /\ x \in ThreadStates
          /\ x = Tui!Free \/ x.kind = tTh[t].kind
          /\ x = Tui!Free => tTh[t].kind = "orphan"
      BY <1>3, <2>2, GoneOnTo DEF LaterPcs
    <2>5. x = Tui!Free => \E u \in tThreads \ {t} : tTh[u].kind # "free"
      BY <1>1, <2>4 DEF FedInv, OrphanFollowed, Starts
    <2>6. Tui!Free.kind = "free" /\ Tui!Free.pc = "begin"
      BY DEF Tui!Free
    <2>7. OneOpen'
      BY <2>1 DEF FedInv, OneOpen
    <2> QED
      BY <1>1, <1>2, <2>1, <2>3, <2>4, <2>5, <2>6, <2>7, ThreadKeeps
  <1>5. CASE Tui!NoReply(t)
    BY <1>1, <1>2, <1>3, <1>5, LostKeeps DEF Tui!NoReply
  <1> QED
    BY <1>4, <1>5

(* The subscribed thread leaves a receiving thread behind. *)
LEMMA StartFed ==
  ASSUME ConnInv, FedInv, NEW t \in tThreads, Tui!StartReceiving(t)
  PROVE  FedInv'
  <1> USE DEF Tui!wires
  <1>1. /\ tTh[t].kind # "free" /\ tTh[t].pc = "receive"
        /\ UNCHANGED <<tState, tStop, tCur, tUi, tCli, tMadeBy>>
    BY DEF Tui!StartReceiving, Tui!Alive
  <1>2. tTh[t].kind # "recv"
    BY <1>1 DEF FedInv, OneReceiver
  <1>3. Tui!Free.kind = "free" /\ Tui!Free.pc = "begin" /\ Tui!Free \in ThreadStates
    BY NewThread DEF Tui!Free
  <1>4. OneOpen'
    BY <1>1 DEF FedInv, OneOpen
  <1>5. CASE tRecvThread # None /\ tTh[tRecvThread].kind # "free" /\ tTh[tRecvThread].kind = "recv"
    <2>1. UNCHANGED tRecvThread /\ tTh' = [tTh EXCEPT ![t] = Tui!Free]
      BY <1>5 DEF Tui!StartReceiving, Tui!Alive
    <2>2. tRecvThread \in tThreads \ {t}
      BY <1>2, <1>5 DEF ConnInv, TuiClientTypes
    <2> QED
      BY <1>1, <1>2, <1>3, <1>4, <1>5, <2>1, <2>2, ThreadKeeps
  <1>6. CASE ~(tRecvThread # None /\ tTh[tRecvThread].kind # "free" /\ tTh[tRecvThread].kind = "recv")
    <2>1. PICK r : r = Tui!Thread("recv", "loop", tHost)
      OBVIOUS
    <2>2. r.kind = "recv" /\ r.pc = "loop"
      BY <2>1 DEF Tui!Thread, Tui!Free
    <2>3. PICK u \in tThreads :
            /\ ~Tui!Alive(u) /\ tRecvThread' = u /\ tTh' = [tTh EXCEPT ![t] = Tui!Free, ![u] = r]
      BY <1>6, <2>1 DEF Tui!StartReceiving, Tui!Alive, Tui!FreeSlot
    <2>4. u # None
      BY ClientAssumption DEF ClientAssumption, Tui!TuiLinkAssumption
    <2>5. tTh[u].kind = "free" /\ u # t
      BY <1>1, <2>3, <2>4 DEF Tui!Alive
    <2>6. /\ tTh'[t] = Tui!Free /\ tTh'[u] = r
          /\ \A v \in tThreads \ {t, u} : tTh'[v] = tTh[v]
      BY <2>3, <2>5 DEF ConnInv, TuiClientTypes
    <2>7. tTh[u].pc = "begin" /\ \A v \in tThreads : tTh[v].kind # "recv"
      <3>1. \A v \in tThreads : v # None
        BY ClientAssumption DEF ClientAssumption, Tui!TuiLinkAssumption
      <3> QED
        BY <1>6, <2>5, <3>1 DEF FedInv, FreeBegins, OneReceiver
    <2>8. FreeBegins' /\ OneReceiver' /\ SomeoneThere'
      BY <1>3, <2>2, <2>3, <2>6, <2>7, ZenonT(60) DEF FedInv, FreeBegins, OneReceiver, SomeoneThere
    <2>9. StopEnds' /\ OrphanFollowed'
      BY <1>1, <1>3, <2>2, <2>5, <2>6, <2>7 DEF FedInv, StopEnds, OrphanFollowed, Starts
    <2> QED
      BY <1>4, <2>8, <2>9 DEF FedInv
  <1> QED
    BY <1>5, <1>6

(* The receiving thread looks, reads, fails or ends. *)
LEMMA ReceiveFed ==
  ASSUME ConnInv, FedInv, NEW t \in tThreads,
         Tui!RecvLoop(t) \/ Tui!RecvLine(t) \/ Tui!RecvFails(t)
  PROVE  FedInv'
  <1> USE DEF Tui!client, Tui!wires
  <1>1. tTh[t].kind = "recv" /\ tTh[t].pc \in {"loop", "reading"} /\ UNCHANGED <<tUi, tRecvThread, tMadeBy>>
    BY DEF Tui!RecvLoop, Tui!RecvLine, Tui!RecvFails, Tui!Receiving, Tui!At
  <1>2. Tui!Free.kind = "free" /\ Tui!Free.pc = "begin" /\ Tui!Free \in ThreadStates
    BY NewThread DEF Tui!Free
  <1>3. tStop /\ tUi = "idle" => \E u \in tThreads \ {t} : tTh[u].kind # "free"
    BY <1>1, StopIsSeen DEF Starts
  <1>4. tTh[t] \in ThreadStates /\ tCur \in tSocks \cup {None}
    BY DEF ConnInv, TuiClientTypes
  <1>5. CASE Tui!RecvLoop(t)
    <2>1. UNCHANGED <<tState, tStop, tCur, tCli>>
      BY <1>5 DEF Tui!RecvLoop
    <2>2. OneOpen'
      BY <2>1 DEF FedInv, OneOpen
    <2>3. PICK y : y = [tTh[t] EXCEPT !.pc = "reading", !.sock = tCur]
      OBVIOUS
    <2>4. y \in ThreadStates /\ y.kind = "recv" /\ y.pc = "reading" /\ y.sock = tCur
      <3>1. y \in ThreadStates
        BY <1>4, <2>3, MovedThread DEF Tui!Pcs
      <3> QED
        BY <1>1, <1>4, <2>3, <3>1 DEF ThreadStates
    <2>5. CASE tStop \/ tCur = None
      <3>1. tTh' = [tTh EXCEPT ![t] = Tui!Free]
        BY <1>5, <2>5 DEF Tui!RecvLoop
      <3>2. tState = "connected" => tStop
        BY <2>5 DEF FedInv, OneOpen
      <3> QED
        BY <1>1, <1>3, <2>1, <2>2, <3>1, <3>2, ThreadEnds
    <2>6. CASE ~(tStop \/ tCur = None)
      <3>1. tTh' = [tTh EXCEPT ![t] = y]
        BY <1>5, <2>3, <2>6 DEF Tui!RecvLoop
      <3> QED
        BY <1>1, <2>1, <2>2, <2>4, <2>6, <3>1, ThreadKeeps
    <2> QED
      BY <2>5, <2>6
  <1>6. CASE Tui!RecvLine(t)
    <2>1. PICK x : x = Tui!GoesOn(t, "loop")
      OBVIOUS
    <2>2. tTh' = [tTh EXCEPT ![t] = x] /\ UNCHANGED <<tState, tStop, tCur, tCli>>
      BY <1>6, <2>1 DEF Tui!RecvLine
    <2>3. x \in ThreadStates /\ x.kind = "recv" /\ x.pc = "loop"
      BY <1>1, <2>1, GoneOnTo DEF LaterPcs
    <2>4. OneOpen'
      BY <2>2 DEF FedInv, OneOpen
    <2> QED
      BY <1>1, <2>2, <2>3, <2>4, ThreadKeeps
  <1>7. CASE Tui!RecvFails(t)
    <2>1. CASE tStop /\ tTh' = [tTh EXCEPT ![t] = Tui!Free] /\ UNCHANGED <<Tui!client, tCli>>
      <3>1. OneOpen'
        BY <2>1 DEF FedInv, OneOpen
      <3>2. tTh' = [tTh EXCEPT ![t] = Tui!Free] /\ UNCHANGED <<tState, tStop>>
        BY <2>1
      <3> QED
        BY <1>1, <1>3, <2>1, <3>1, <3>2, ThreadEnds
    <2>2. CASE Tui!Lost(t, "end")
      BY <1>1, <2>2, LostKeeps
    <2> QED
      BY <1>7, <2>1, <2>2 DEF Tui!RecvFails
  <1> QED
    BY <1>5, <1>6, <1>7

(* The end of a loss is a new thread that connects. *)
LEMMA AgainFed ==
  ASSUME ConnInv, FedInv, NEW t \in tThreads, Tui!LostAgain(t)
  PROVE  FedInv'
  <1> USE DEF Tui!wires
  <1>1. /\ tTh[t].kind # "free" /\ tTh[t].pc = "again" /\ tStop' = FALSE
        /\ UNCHANGED <<tState, tCur, tUi, tCli, tMadeBy, tRecvThread>>
    BY DEF Tui!LostAgain, Tui!Alive
  <1>2. PICK x : x = Tui!GoesOn(t, tTh[t].after)
    OBVIOUS
  <1>3. tTh[t].after \in LaterPcs /\ tTh[t].after \in {"end", "subscribe", "receive"}
    BY DEF ConnInv, TuiClientTypes, ThreadStates, LaterPcs
  <1>4. x = Tui!Free \/ (x.kind = tTh[t].kind /\ x.pc = tTh[t].after /\ tTh[t].after # "end")
    BY <1>2, <1>3, GoneOnTo
  <1>5. Tui!Free.kind = "free" /\ Tui!Free.pc = "begin"
    BY DEF Tui!Free
  <1>6. PICK a : a = Tui!Thread("auto", "begin", tHost)
    OBVIOUS
  <1>7. a.kind = "auto" /\ a.pc = "begin"
    BY <1>6 DEF Tui!Thread, Tui!Free
  <1>8. PICK u \in tThreads : ~Tui!Alive(u) /\ tTh' = [tTh EXCEPT ![t] = x, ![u] = a]
    BY <1>2, <1>6 DEF Tui!LostAgain, Tui!FreeSlot
  <1>9. tTh[u].kind = "free" /\ u # t
    <2>1. u # None
      BY ClientAssumption DEF ClientAssumption, Tui!TuiLinkAssumption
    <2> QED
      BY <1>1, <1>8, <2>1 DEF Tui!Alive
  <1>10. tTh'[t] = x /\ tTh'[u] = a /\ \A v \in tThreads \ {t, u} : tTh'[v] = tTh[v]
    BY <1>8, <1>9 DEF ConnInv, TuiClientTypes
  <1>11. FreeBegins'
    BY <1>1, <1>3, <1>4, <1>5, <1>7, <1>10 DEF FedInv, FreeBegins
  <1>12. OneReceiver'
    <2>1. tTh[t].kind = "recv" => x = Tui!Free
      BY <1>1, <1>2 DEF FedInv, OneReceiver, Tui!GoesOn
    <2> QED
      BY <1>1, <1>4, <1>5, <1>7, <1>10, <2>1 DEF FedInv, OneReceiver
  <1>13. OneOpen' /\ StopEnds' /\ SomeoneThere'
    BY <1>1, <1>7, <1>10 DEF FedInv, OneOpen, StopEnds, SomeoneThere
  <1>14. OrphanFollowed'
    <2>1. \A v \in tThreads : Starts(v) => v # t /\ v # u
      BY <1>1, <1>9 DEF Starts
    <2> QED
      BY <1>1, <1>4, <1>5, <1>7, <1>10, <2>1 DEF FedInv, OrphanFollowed, Starts
  <1> QED
    BY <1>11, <1>12, <1>13, <1>14 DEF FedInv

(* A new connect worker follows the one it cancels. *)
LEMMA WorkerFollows ==
  ASSUME ConnInv, FedInv, NEW h, Tui!DoConnect(h), OneOpen', UNCHANGED tRecvThread
  PROVE  FedInv'
  <1>1. PICK w : w = Tui!Thread("worker", "begin", h)
    OBVIOUS
  <1>2. w.kind = "worker" /\ w.pc = "begin"
    BY <1>1 DEF Tui!Thread, Tui!Free
  <1>3. PICK u \in tThreads :
          tTh' = [t \in tThreads |-> IF t = u THEN w
                                     ELSE IF tTh[t].kind = "worker" THEN Tui!Cancelled(t) ELSE tTh[t]]
    BY <1>1 DEF Tui!DoConnect
  <1>4. tTh'[u].kind = "worker" /\ tTh'[u].pc = "begin"
    BY <1>2, <1>3
  <1>5. ASSUME NEW t \in tThreads \ {u}
        PROVE  \/ tTh'[t] = tTh[t]
               \/ tTh'[t].kind = "orphan"
               \/ tTh'[t].kind = "free" /\ tTh'[t].pc = "begin"
    <2>1. Tui!Cancelled(t).kind = "orphan" \/ Tui!Cancelled(t) = Tui!Free
      BY DEF Tui!Cancelled, ConnInv, TuiClientTypes, ThreadStates
    <2> QED
      BY <1>3, <2>1 DEF Tui!Free
  <1>6. FreeBegins' /\ OneReceiver'
    BY <1>4, <1>5 DEF FedInv, FreeBegins, OneReceiver
  <1>7. StopEnds' /\ OrphanFollowed' /\ SomeoneThere'
    BY <1>4 DEF StopEnds, OrphanFollowed, SomeoneThere, Starts
  <1> QED
    BY <1>6, <1>7 DEF FedInv

(* Whatever the user does ends in a dialog or in a thread that connects.    *)
LEMMA UserFed ==
  ASSUME ConnInv, FedInv,
         Tui!UserReconnects \/ Tui!DialogPicks \/ Tui!UserSwitches \/ Tui!UserFlips
  PROVE  FedInv'
  <1> USE DEF Tui!client, Tui!wires
  <1>1. CASE Tui!UserReconnects
    <2>1. OneOpen' /\ tState' = "disconnected"
      BY <1>1, NoneOpen DEF Tui!UserReconnects
    <2>2. tUi' = "dialog" /\ UNCHANGED <<tTh, tRecvThread>>
      BY <1>1 DEF Tui!UserReconnects
    <2> QED
      BY <2>1, <2>2 DEF FedInv, FreeBegins, OneReceiver, StopEnds, OrphanFollowed, SomeoneThere, Starts
  <1>2. CASE Tui!DialogPicks
    <2>1. UNCHANGED <<tState, tStop, tCur, tRecvThread, tCli, tMadeBy>>
      BY <1>2 DEF Tui!DialogPicks
    <2>2. OneOpen'
      BY <2>1 DEF FedInv, OneOpen
    <2> QED
      BY <1>2, <2>1, <2>2, WorkerFollows DEF Tui!DialogPicks
  <1>3. CASE Tui!UserSwitches
    <2>1. OneOpen' /\ UNCHANGED tRecvThread
      BY <1>3, NoneOpen DEF Tui!UserSwitches
    <2> QED
      BY <1>3, <2>1, WorkerFollows DEF Tui!UserSwitches
  <1>4. CASE Tui!UserFlips
    <2>1. OneOpen' /\ tState' = "disconnected"
      BY <1>4, NoneOpen DEF Tui!UserFlips
    <2>2. PICK a : a = Tui!Thread("retry", "begin", "gateway")
      OBVIOUS
    <2>3. a.kind = "retry" /\ a.pc = "begin"
      BY <2>2 DEF Tui!Thread, Tui!Free
    <2>4. PICK u \in tThreads : ~Tui!Alive(u) /\ tTh' = [tTh EXCEPT ![u] = a]
      BY <1>4, <2>2 DEF Tui!UserFlips, Tui!FreeSlot
    <2>5. tTh[u].kind = "free" /\ tTh'[u] = a /\ \A v \in tThreads \ {u} : tTh'[v] = tTh[v]
      <3>1. u # None
        BY ClientAssumption DEF ClientAssumption, Tui!TuiLinkAssumption
      <3> QED
        BY <2>4, <3>1 DEF Tui!Alive, ConnInv, TuiClientTypes
    <2>6. tStop' = FALSE /\ UNCHANGED tRecvThread
      BY <1>4 DEF Tui!UserFlips
    <2>7. FreeBegins' /\ OneReceiver' /\ StopEnds' /\ SomeoneThere'
      BY <2>1, <2>3, <2>5, <2>6 DEF FedInv, FreeBegins, OneReceiver, StopEnds, SomeoneThere
    <2>8. OrphanFollowed'
      BY <2>3, <2>5 DEF FedInv, OrphanFollowed, Starts
    <2> QED
      BY <2>1, <2>7, <2>8 DEF FedInv
  <1> QED
    BY <1>1, <1>2, <1>3, <1>4

(* The server and the network leave the client alone, until it looks.       *)
LEMMA OthersFed ==
  ASSUME FedInv,
         \/ Tui!Broadcast \/ \E k \in tSocks : Tui!ServerThread(k)
         \/ Tui!FlipHappens \/ Tui!LaptopJoins \/ Tui!PathCut \/ Tui!PathBack
         \/ UNCHANGED Tui!vars
  PROVE  FedInv'
  <1>1. UNCHANGED <<tState, tStop, tCur, tRecvThread, tTh, tUi, tCli, tMadeBy>>
    BY DEF Tui!Broadcast, Tui!ServerThread, Tui!Dispatch, Tui!ClientGone, Tui!FlipHappens,
           Tui!LaptopJoins, Tui!PathCut, Tui!PathBack, Tui!vars, Tui!client, Tui!wires
  <1> QED
    BY <1>1 DEF FedInv, FreeBegins, OneReceiver, StopEnds, OrphanFollowed, OneOpen, SomeoneThere, Starts

(* RestIsFed: while its threads take turns to connect, a client that comes  *)
(* to rest on a connection of the connect worker or of the automatic        *)
(* reconnect has a receiving thread on it, for any number of threads,       *)
(* losses, late replies and flows of the user.                              *)
THEOREM RestFed == ClientSpec /\ []Tui!TakeTurns => []RestIsFed
  <1>1. Tui!Init => ConnInv /\ FedInv
    <2> SUFFICES ASSUME Tui!Init  PROVE FedInv
      BY ConnInit
    <2>1. \A t \in tThreads : tTh[t].pc = "begin" /\ tTh[t].kind \in {"worker", "free"}
      BY DEF Tui!Init, Tui!Thread, Tui!Free
    <2>2. \A k \in tSocks : tCli[k] = "none"
      BY DEF Tui!Init
    <2> QED
      BY <2>1, <2>2
         DEF Tui!Init, FedInv, FreeBegins, OneReceiver, StopEnds, OrphanFollowed, OneOpen, SomeoneThere
  <1>2. ConnInv /\ FedInv /\ Turns' /\ [Tui!Next]_Tui!vars => FedInv'
    <2> SUFFICES ASSUME ConnInv, FedInv, Turns', [Tui!Next]_Tui!vars  PROVE FedInv'
      OBVIOUS
    <2>1. ASSUME NEW t \in tThreads, Tui!ClientThread(t)  PROVE FedInv'
      BY <2>1, BeginFed, ConnectFed, RequestFed, ReplyFed, StartFed, ReceiveFed, AgainFed
         DEF Tui!ClientThread
    <2> QED
      BY <2>1, UserFed, OthersFed DEF Tui!Next
  <1>3. ConnInv /\ FedInv => RestIsFed
    <2> SUFFICES ASSUME ConnInv, FedInv, Tui!AtRest, tMadeBy \in {"worker", "auto"}  PROVE Tui!IsFed
      BY DEF RestIsFed, Tui!RestIsFed
    <2>1. PICK t \in tThreads : tTh[t].kind = "recv" /\ t = tRecvThread
      BY DEF FedInv, SomeoneThere, OneReceiver, Tui!AtRest
    <2>2. t # None
      BY ClientAssumption DEF ClientAssumption, Tui!TuiLinkAssumption
    <2>3. CASE tTh[t].pc = "reading"
      <3>1. tTh[t].sock \in tSocks
        BY <2>1, <2>3 DEF ConnInv, TuiClientTypes, ThreadStates, FedInv, OneReceiver
      <3>2. tTh[t].sock = tCur \/ Tui!AtEnd(tTh[t].sock)
        BY <3>1 DEF FedInv, OneOpen, Tui!AtEnd
      <3> QED
        BY <2>1, <2>2, <3>2 DEF Tui!IsFed, Tui!Alive
    <2>4. CASE tTh[t].pc # "reading"
      BY <2>1, <2>2, <2>4 DEF Tui!IsFed, Tui!Alive, Tui!Receiving, Tui!At
    <2> QED
      BY <2>3, <2>4
  <1>4. Tui!TakeTurns => Turns
    BY TurnsTaken
  <1> QED
    BY <1>1, <1>2, <1>3, <1>4, ConnStep, LinkMoves, PTL DEF Tui!Spec

-----------------------------------------------------------------------------
(* When the client moves, the core moves as its module says. *)
LEMMA CoreMoves == ClientSpec => Spec
  <1>1. ClientInit => Init
    BY DEF ClientInit
  <1>2. [ClientNext]_clientVars => [Next]_vars
    BY DEF ClientNext, clientVars
  <1> QED
    BY <1>1, <1>2, PTL DEF ClientSpec, Spec

(* ClientTypeOK: the core, the connection and the panel keep their types;   *)
(* in particular the queue of commands and the buffers of the sockets keep  *)
(* to their sizes, and the sensor rate to what the averaging allows.        *)
THEOREM ClientTypes == ClientSpec => []ClientTypeOK
  BY TypeCorrect, CoreMoves, LinkTypesHold, PanelTypes, PTL DEF ClientTypeOK
=============================================================================
