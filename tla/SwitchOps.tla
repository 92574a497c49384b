------------------------------ MODULE SwitchOps ------------------------------
(***************************************************************************)
(* The switching core of the RP2040 firmware (firmware-c/src/switching.c)  *)
(* with one serial command as one atomic operation: what the handlers of   *)
(* S, Y, C, E, F, G, H and K and the timer interrupt do to a record        *)
(*                                                                         *)
(*   pins    - the set of FETs whose gate pin is high                      *)
(*   seq     - the programmed cycle, a sequence of pin sets                *)
(*   idx     - s_seq_idx, 0-based                                          *)
(*   period  - s_period_us, 0 while unset                                  *)
(*   running - s_running                                                   *)
(*                                                                         *)
(* SwitchIsr shows when this atomic view is what the interruptible code    *)
(* really does; ModeCore uses it for the firmware at the far end of the    *)
(* serial link.                                                            *)
(***************************************************************************)
EXTENDS Naturals, Sequences

Fets == {"P1", "P2", "N1", "N2"}

AllOff == {}
AllOn  == Fets

States == SUBSET Fets

Booted == [pins |-> AllOff, seq |-> <<>>, idx |-> 0, period |-> 0, running |-> FALSE]

-----------------------------------------------------------------------------
(* switching_halt: timer cancelled, running cleared, every pin low. *)
Halt(fw) == [fw EXCEPT !.running = FALSE, !.pins = AllOff]

(* switching_set_direct: halts a running timer, then writes the pins. *)
SetDirect(fw, p) == [fw EXCEPT !.running = FALSE, !.pins = p]

(* switching_set_direct_no_halt: the next tick may overwrite the pins. *)
SetDirectNoHalt(fw, p) == [fw EXCEPT !.pins = p]

(* switching_program_cycle: halt, then swap the cycle and rewind it. *)
ProgramCycle(fw, prog) == [Halt(fw) EXCEPT !.seq = prog, !.idx = 0]

(* switching_program_cycle_live: swap the cycle under the running timer;   *)
(* the index is only rewound when the new cycle is too short for it.       *)
ProgramCycleLive(fw, prog) ==
  [fw EXCEPT !.seq = prog, !.idx = IF @ >= Len(prog) THEN 0 ELSE @]

(* switching_start: refuses an empty cycle or an unset period, otherwise   *)
(* drives the state at the held index and arms the timer.                  *)
CanStart(fw) == fw.seq # <<>> /\ fw.period # 0

Start(fw) ==
  IF CanStart(fw)
    THEN [fw EXCEPT !.pins = fw.seq[fw.idx + 1], !.running = TRUE]
    ELSE fw

(* switching_set_period_us: re-arms a running timer at the new period. *)
SetPeriod(fw, us) ==
  LET timed == [fw EXCEPT !.period = us]
  IN  IF fw.running THEN Start(timed) ELSE timed

(* Both tick_isr and switching_step_once move to the next state of the     *)
(* cycle and drive it, and do nothing while no cycle is loaded.            *)
NextIdx(idx, len) == IF idx + 1 >= len THEN 0 ELSE idx + 1

Advance(fw) ==
  LET i == NextIdx(fw.idx, Len(fw.seq))
  IN  IF fw.seq = <<>> THEN fw ELSE [fw EXCEPT !.idx = i, !.pins = fw.seq[i + 1]]

(* tick_isr: the periodic interrupt exists only while the timer is armed. *)
Tick(fw) == IF fw.running THEN Advance(fw) ELSE fw

(* cmd_parser_handle_line: the handler of one well-formed command. *)
Handle(fw, c) ==
  CASE c.verb = "S" -> SetDirect(fw, c.pins)
    [] c.verb = "Y" -> SetDirectNoHalt(fw, c.pins)
    [] c.verb = "C" -> ProgramCycle(fw, c.prog)
    [] c.verb = "E" -> ProgramCycleLive(fw, c.prog)
    [] c.verb = "F" -> SetPeriod(fw, c.us)
    [] c.verb = "G" -> Start(fw)
    [] c.verb = "H" -> Halt(fw)
    [] c.verb = "K" -> Advance(fw)
    [] c.verb = "X" -> Booted
=============================================================================
