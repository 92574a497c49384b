------------------------------ MODULE SwitchIsr ------------------------------
(***************************************************************************)
(* The RP2040 switching core at the grain at which the timer interrupt can *)
(* preempt it (firmware-c/src/switching.c, called by cmd_parser.c).        *)
(*                                                                         *)
(* There are two actors on the one core: the main loop, which runs one     *)
(* command handler at a time, and tick_isr, which may run between any two  *)
(* machine-level steps of a handler while the repeating timer is armed and *)
(* is itself never preempted.  A handler is cut where shared state is read *)
(* or written: each gpio_put of a state is a step, a section between       *)
(* save_and_disable_interrupts and restore_interrupts is one step, and so  *)
(* is a run of writes that only happens after the timer was cancelled.     *)
(*                                                                         *)
(* The variable "spec" is a history variable: the record of SwitchOps to   *)
(* which every command was applied as one atomic operation and every       *)
(* interrupt as one tick.  The history variable "view" says how much of    *)
(* it the commands so far leave true of the core: all of it (exact), all   *)
(* but the pins (cycle), or nothing in particular (lost).                  *)
(***************************************************************************)
EXTENDS SwitchOps

CONSTANTS
  MaxLen,        \* CYCLE_MAX_STATES, the size of the cycle buffer
  Programs,      \* the cycles the host may send with C and E
  Periods,       \* the step periods (>= 50 us) the host may send with F
  Directs        \* the pin sets the host may send with S and Y

Verbs == {"S", "Y", "C", "E", "F", "G", "H", "K", "X"}

ASSUME MaxLenAssumption == MaxLen \in Nat \ {0}

ASSUME ProgramsAssumption ==
  /\ Programs \subseteq Seq(States)
  /\ \A prog \in Programs : Len(prog) \in 1..MaxLen

ASSUME InputAssumption ==
  /\ Periods \subseteq Nat \ {0}
  /\ Directs \subseteq States

VARIABLES
  pins,     \* the FETs whose gate pin is high
  buf,      \* s_seq, every slot of it
  len,      \* s_seq_len
  idx,      \* s_seq_idx
  period,   \* s_period_us
  timer,    \* 0 while s_timer_armed is false, else the period it was armed with
  running,  \* s_running
  pc,       \* where the main loop is in the handler of op
  op,       \* the command being handled, or the last one handled
  drive,    \* the packed state the handler is writing to the pins
  reg,      \* the handler's register: next FET to write, or K's new index
  spec,     \* history: the atomic view of SwitchOps
  view      \* history: how far the core follows it, exact, cycle or lost

core   == <<pins, buf, len, idx, period, timer, running>>
handle == <<pc, op, drive, reg>>
history == <<spec, view>>
vars   == <<core, handle, history>>

Slots    == 0..MaxLen - 1
CycleLen(prog) == Len(prog)              \* the n of a C or E command
FetOrder == <<"P1", "P2", "N1", "N2">>   \* order of the gpio_put calls

PCs == {"idle", "cancel", "clear", "off", "drive", "swap", "period", "start",
        "rearm", "arm", "flag", "step", "store", "reboot"}

Commands ==
  [verb : {"S", "Y"}, pins : Directs] \cup [verb : {"C", "E"}, prog : Programs]
    \cup [verb : {"F"}, us : Periods] \cup [verb : {"G", "H", "K", "X"}]

Init ==
  /\ pins = AllOff /\ buf = [i \in Slots |-> AllOff] /\ len = 0 /\ idx = 0
  /\ period = 0 /\ timer = 0 /\ running = FALSE
  /\ pc = "idle" /\ op = [verb |-> "X"] /\ drive = AllOff /\ reg = 0
  /\ spec = Booted /\ view = "exact"

-----------------------------------------------------------------------------
(* A handler that writes the pins under an armed timer races with it, and   *)
(* K's index does.  Halting puts the pins right again, C everything.        *)
ViewAfter(verb) ==
  CASE verb \in {"C", "X"} -> "exact"
    [] verb \in {"H", "S"} /\ view = "cycle" -> "exact"
    [] verb \in {"F", "G", "Y"} /\ timer # 0 /\ view = "exact" -> "cycle"
    [] verb = "K" /\ timer # 0 -> "lost"
    [] OTHER -> view

(* The main loop takes a command line and enters its handler. *)
Receive(c, label) ==
  /\ pc = "idle"
  /\ op' = c
  /\ pc' = label
  /\ view' = ViewAfter(c.verb)
  /\ UNCHANGED <<core, spec>>

(* mutant: S leaves a running timer running.                                *)
cmd_S_NoHalt(p) ==
  /\ Receive([verb |-> "S", pins |-> p], "drive")
  /\ drive' = p /\ reg' = 0

cmd_S(p) ==
  /\ Receive([verb |-> "S", pins |-> p], IF running THEN "cancel" ELSE "drive")
  /\ drive' = p /\ reg' = 0

cmd_Y(p) ==
  /\ Receive([verb |-> "Y", pins |-> p], "drive")
  /\ drive' = p /\ reg' = 0

cmd_C(prog) == Receive([verb |-> "C", prog |-> prog], "cancel") /\ UNCHANGED <<drive, reg>>
cmd_E(prog) == Receive([verb |-> "E", prog |-> prog], "swap") /\ UNCHANGED <<drive, reg>>
cmd_F(us)   == Receive([verb |-> "F", us |-> us], "period") /\ UNCHANGED <<drive, reg>>
cmd_G       == Receive([verb |-> "G"], "start") /\ UNCHANGED <<drive, reg>>
cmd_H       == Receive([verb |-> "H"], "cancel") /\ UNCHANGED <<drive, reg>>
cmd_K       == Receive([verb |-> "K"], "step") /\ UNCHANGED <<drive, reg>>
cmd_X       == Receive([verb |-> "X"], "reboot") /\ UNCHANGED <<drive, reg>>

(* The handler reaches the point at which its command takes effect. *)
Commit == spec' = Handle(spec, op) /\ UNCHANGED view

-----------------------------------------------------------------------------
(* mutant: halting clears the flag but not the timer.                       *)
CancelTimer_Forgets ==
  /\ pc = "cancel"
  /\ pc' = "clear"
  /\ UNCHANGED <<pins, buf, len, idx, period, timer, running, op, drive, reg, history>>

(* switching_halt: cancel the timer if it is armed ... *)
CancelTimer ==
  /\ pc = "cancel"
  /\ timer' = 0
  /\ pc' = "clear"
  /\ UNCHANGED <<pins, buf, len, idx, period, running, op, drive, reg, history>>

(* ... and clear s_running ... *)
ClearRunning ==
  /\ pc = "clear"
  /\ running' = FALSE
  /\ pc' = "off"
  /\ UNCHANGED <<pins, buf, len, idx, period, timer, op, drive, reg, history>>

(* ... and pull every pin low; H is then done, C and S go on. *)
PinsOff ==
  /\ pc = "off"
  /\ pins' = AllOff
  /\ pc' = CASE op.verb = "S" -> "drive" [] op.verb = "C" -> "swap" [] OTHER -> "idle"
  /\ IF op.verb \in {"S", "C"} THEN UNCHANGED history ELSE Commit
  /\ UNCHANGED <<buf, len, idx, period, timer, running, op, drive, reg>>

(* apply_packed_inline and the gpio_puts of the direct writes: one pin at a *)
(* time.  G and F go on to the timer; for the others it is the last step.   *)
DrivePin ==
  LET fet  == FetOrder[reg + 1]
      last == reg = 3
  IN
  /\ pc = "drive"
  /\ pins' = IF fet \in drive THEN pins \cup {fet} ELSE pins \ {fet}
  /\ reg' = IF last THEN 0 ELSE reg + 1
  /\ pc' = CASE ~last -> "drive"
             [] last /\ op.verb \in {"F", "G"} -> "rearm"
             [] OTHER -> "idle"
  /\ IF last /\ op.verb \notin {"F", "G"} THEN Commit ELSE UNCHANGED history
  /\ UNCHANGED <<buf, len, idx, period, timer, running, op, drive>>

(* mutant: the new length counts one state too many.                        *)
SwapCycle_TooLong ==
  LET n == CycleLen(op.prog)
  IN
  /\ pc = "swap"
  /\ buf' = [i \in Slots |-> IF i < n THEN op.prog[i + 1] ELSE buf[i]]
  /\ len' = n + 1
  /\ idx' = IF op.verb = "C" \/ idx >= n THEN 0 ELSE idx
  /\ pc' = "idle"
  /\ Commit
  /\ UNCHANGED <<pins, period, timer, running, op, drive, reg>>

(* mutant: programming a cycle with C keeps the index.                      *)
SwapCycle_NoRewind ==
  LET n == CycleLen(op.prog)
  IN
  /\ pc = "swap"
  /\ buf' = [i \in Slots |-> IF i < n THEN op.prog[i + 1] ELSE buf[i]]
  /\ len' = n
  /\ idx' = IF idx >= n THEN 0 ELSE idx
  /\ pc' = "idle"
  /\ Commit
  /\ UNCHANGED <<pins, period, timer, running, op, drive, reg>>

(* The interrupt-free swap of switching_program_cycle (which rewinds) and  *)
(* of switching_program_cycle_live (which keeps an index that still fits). *)
SwapCycle ==
  LET n == CycleLen(op.prog)
  IN
  /\ pc = "swap"
  /\ buf' = [i \in Slots |-> IF i < n THEN op.prog[i + 1] ELSE buf[i]]
  /\ len' = n
  /\ idx' = IF op.verb = "C" \/ idx >= n THEN 0 ELSE idx
  /\ pc' = "idle"
  /\ Commit
  /\ UNCHANGED <<pins, period, timer, running, op, drive, reg>>

(* switching_set_period_us *)
StorePeriod ==
  /\ pc = "period"
  /\ period' = op.us
  /\ pc' = IF running THEN "start" ELSE "idle"
  /\ IF running THEN UNCHANGED history ELSE Commit
  /\ UNCHANGED <<pins, buf, len, idx, timer, running, op, drive, reg>>

(* switching_start: the check, and the read of the state to drive.  The    *)
(* timer, if it was armed, is still armed here.                            *)
BeginStart ==
  LET ok == len # 0 /\ period # 0
  IN
  /\ pc = "start"
  /\ drive' = IF ok THEN buf[idx] ELSE drive
  /\ reg' = IF ok THEN 0 ELSE reg
  /\ pc' = IF ok THEN "drive" ELSE "idle"
  /\ IF ok THEN UNCHANGED history ELSE Commit
  /\ UNCHANGED <<core, op>>

Disarm ==
  /\ pc = "rearm"
  /\ timer' = 0
  /\ pc' = "arm"
  /\ UNCHANGED <<pins, buf, len, idx, period, running, op, drive, reg, history>>

(* add_repeating_timer_us may find no free alarm slot: switching_start     *)
(* then returns false with s_running as it was.                            *)
Arm ==
  /\ pc = "arm"
  /\ \E added \in BOOLEAN :
       /\ timer' = IF added THEN period ELSE 0
       /\ pc' = IF added THEN "flag" ELSE "idle"
       /\ view' = IF added THEN view ELSE "lost"
  /\ spec' = Handle(spec, op)
  /\ UNCHANGED <<pins, buf, len, idx, period, running, op, drive, reg>>

(* mutant: starting arms the timer but does not flag it.                    *)
FlagRunning_Forgets ==
  /\ pc = "flag"
  /\ pc' = "idle"
  /\ UNCHANGED <<pins, buf, len, idx, period, timer, running, op, drive, reg, history>>

FlagRunning ==
  /\ pc = "flag"
  /\ running' = TRUE
  /\ pc' = "idle"
  /\ UNCHANGED <<pins, buf, len, idx, period, timer, op, drive, reg, history>>

(* switching_step_once reads the index and computes the next one ... *)
ReadIndex ==
  /\ pc = "step"
  /\ reg' = IF len = 0 THEN reg ELSE NextIdx(idx, len)
  /\ pc' = IF len = 0 THEN "idle" ELSE "store"
  /\ IF len = 0 THEN Commit ELSE UNCHANGED history
  /\ UNCHANGED <<core, op, drive>>

(* ... and stores it, whatever the interrupt did to the index meanwhile. *)
StoreIndex ==
  /\ pc = "store"
  /\ idx' = reg
  /\ drive' = buf[reg]
  /\ reg' = 0
  /\ pc' = "drive"
  /\ UNCHANGED <<pins, buf, len, period, timer, running, op, history>>

(* watchdog_reboot: memory is lost and switching_init pulls the pins low. *)
Reboot ==
  /\ pc = "reboot"
  /\ pins' = AllOff /\ buf' = [i \in Slots |-> AllOff] /\ len' = 0 /\ idx' = 0
  /\ period' = 0 /\ timer' = 0 /\ running' = FALSE
  /\ pc' = "idle"
  /\ Commit
  /\ UNCHANGED <<op, drive, reg>>

(* The repeating timer fires. *)
tick_isr ==
  /\ timer # 0
  /\ len # 0
  /\ idx' = NextIdx(idx, len)
  /\ pins' = buf[idx']
  /\ spec' = Tick(spec)
  /\ UNCHANGED <<buf, len, period, timer, running, handle, view>>

-----------------------------------------------------------------------------
Host ==
  \/ \E p \in Directs : cmd_S(p)
  \/ \E p \in Directs : cmd_Y(p)
  \/ \E prog \in Programs : cmd_C(prog)
  \/ \E prog \in Programs : cmd_E(prog)
  \/ \E us \in Periods : cmd_F(us)
  \/ cmd_G
  \/ cmd_H
  \/ cmd_K
  \/ cmd_X

MainLoop ==
  \/ CancelTimer
  \/ ClearRunning
  \/ PinsOff
  \/ DrivePin
  \/ SwapCycle
  \/ StorePeriod
  \/ BeginStart
  \/ Disarm
  \/ Arm
  \/ FlagRunning
  \/ ReadIndex
  \/ StoreIndex
  \/ Reboot

Next == Host \/ MainLoop \/ tick_isr

Spec == Init /\ [][Next]_vars

-----------------------------------------------------------------------------
TypeOK ==
  /\ pins \in States
  /\ buf \in [Slots -> States]
  /\ len \in 0..MaxLen
  /\ idx \in Slots
  /\ period \in Periods \cup {0}
  /\ timer \in Periods \cup {0}
  /\ running \in BOOLEAN
  /\ pc \in PCs
  /\ op \in Commands
  /\ drive \in States
  /\ reg \in Nat
  /\ view \in {"exact", "cycle", "lost"}

(* Once the reply to H, C or X is out the bridge is dark and stays dark:   *)
(* no pin is high and no interrupt is left that could raise one.           *)
DarkAfterHalt ==
  pc = "idle" /\ op.verb \in {"H", "C", "X"} => pins = AllOff /\ timer = 0 /\ ~running

(* A state written with S is never overwritten by the cycle that was       *)
(* running before it: until the next command the pins are what S asked.    *)
DirectStateHolds ==
  pc = "idle" /\ op.verb = "S" => pins = op.pins /\ timer = 0 /\ ~running

(* The index always points into the cycle now loaded, at every point at    *)
(* which the interrupt can look, so no slot left over from a longer        *)
(* earlier cycle is ever driven - in particular not by the G after an E.   *)
IndexInCycle ==
  /\ len # 0 => idx < len
  /\ pc = "store" => reg < len

(* Between two handlers an armed timer belongs to a running cycle and has  *)
(* the period the host set last: F re-arms, and halting leaves no timer.   *)
TimerMatchesState ==
  pc = "idle" /\ timer # 0 => running /\ timer = period /\ len # 0

(* The interruptible handlers are, one by one, the atomic operations of    *)
(* SwitchOps: between two handlers the core is where applying each command *)
(* and each interrupt atomically, in the order they took effect, gets it.  *)
(* Under an armed timer this is so of S, C, E, H and X, and it holds again *)
(* after the next halt if other commands came in between.                  *)
Concrete ==
  [pins |-> pins, seq |-> [i \in 1..len |-> buf[i - 1]], idx |-> idx,
   period |-> period, running |-> running]

Linearized == pc = "idle" /\ view = "exact" => Concrete = spec

(* With F, G and Y under an armed timer, which the Pi does send on its     *)
(* seamless mode changes, the pins may for a moment differ from the atomic *)
(* view, but the cycle, the index, the period and the running flag do not. *)
CycleLinearized ==
  pc = "idle" /\ view # "lost" => Concrete = [spec EXCEPT !.pins = pins]
=============================================================================
