----------------------------- MODULE MicroSwitch -----------------------------
(***************************************************************************)
(* The switching half of the MicroPython firmware (firmware/main.py): the  *)
(* commands S, C, F, G, H, K, X and ctrl-C, run by the main thread, and    *)
(* the timer callback, which runs between two of its steps.  Unlike the C  *)
(* firmware, which drives the four pins with one masked write, it writes   *)
(* them one by one, so that a tick can come in between and leave a mixture *)
(* of two states on the bridge.                                            *)
(*                                                                         *)
(* ops is the same firmware with every command and every tick atomic       *)
(* (SwitchOps): what the main thread should leave behind.                  *)
(***************************************************************************)
EXTENDS SwitchOps

CONSTANTS
  Programs,   \* the cycles the host programs: sequences of pin sets
  Periods,    \* the step periods it sets
  Directs     \* the states it sets with S

MicroSwitchAssumption ==
  /\ Programs \subseteq {p \in Seq(States) : p # <<>>}
  /\ Periods \subseteq Nat \ {0}
  /\ Directs \subseteq States

VARIABLES
  fw,      \* _seq, _seq_idx, _period_us, _running and the pins
  armed,   \* whether the machine.Timer is initialised
  todo,    \* the steps the main thread still has to take for the command it handles
  held,    \* the index K has computed and not stored
  alive,   \* the main loop runs (ctrl-C leaves it)
  ops      \* the firmware with atomic commands

vars == <<fw, armed, todo, held, alive, ops>>

PinOrder == <<"P1", "P2", "N1", "N2">>

Init ==
  /\ fw = Booted /\ armed = FALSE /\ todo = <<>> /\ held = 0 /\ alive = TRUE /\ ops = Booted

-----------------------------------------------------------------------------
(* The steps of the main thread between which a tick may run. *)
Step(op)        == [do |-> op, pin |-> "P1", high |-> FALSE, prog |-> <<>>]
Write(pin, set) == [Step("write") EXCEPT !.pin = pin, !.high = pin \in set]
Swap(p)         == [Step("swap") EXCEPT !.prog = p]

(* set_fets and _apply_packed: one pin after the other. *)
Writes(set) == [i \in 1..4 |-> Write(PinOrder[i], set)]

(* _switching_halt: the timer first, then the pins. *)
HaltSteps_PinsFirst == Writes(AllOff) \o <<Step("disarm")>>
HaltSteps == <<Step("disarm")>> \o Writes(AllOff)

(* _switching_start, once its guard has passed: fetch the state at the held *)
(* index, write it, then re-arm the timer.                                  *)
StartSteps == <<Step("fetch"), Step("arm")>>

(* handle_command: S halts a running timer, C always halts, F re-arms a     *)
(* running one.                                                             *)
Steps(c) ==
  CASE c.verb = "S" -> (IF fw.running THEN HaltSteps ELSE <<>>) \o Writes(c.pins)
    [] c.verb = "C" -> HaltSteps \o <<Swap(c.prog)>>
    [] c.verb = "F" -> IF fw.running THEN StartSteps ELSE <<>>
    [] c.verb = "G" -> IF CanStart(fw) THEN StartSteps ELSE <<>>
    [] c.verb = "H" -> HaltSteps
    [] c.verb = "K" -> IF fw.seq # <<>> THEN <<Step("next"), Step("store"), Step("fetch")>>
                                        ELSE <<>>

Commands ==
       {[verb |-> "S", pins |-> p] : p \in Directs}
  \cup {[verb |-> "C", prog |-> p] : p \in Programs}
  \cup {[verb |-> "F", us |-> u] : u \in Periods}
  \cup {[verb |-> v] : v \in {"G", "H", "K"}}

AtRest == todo = <<>>

Receive(c) ==
  /\ alive /\ AtRest
  /\ todo' = Steps(c)
  /\ fw' = IF c.verb = "F" THEN [fw EXCEPT !.period = c.us] ELSE fw
  /\ ops' = Handle(ops, c)
  /\ UNCHANGED <<armed, held, alive>>

(* X: machine.reset. *)
Reset ==
  /\ alive /\ AtRest
  /\ fw' = Booted /\ armed' = FALSE /\ ops' = Booted
  /\ UNCHANGED <<todo, held, alive>>

(* ctrl-C on the serial line halts and leaves the main loop. *)
CtrlC ==
  /\ alive /\ AtRest
  /\ todo' = HaltSteps /\ alive' = FALSE
  /\ ops' = Halt(ops)
  /\ UNCHANGED <<fw, armed, held>>

MainStep ==
  LET s == Head(todo)
  IN
  /\ todo # <<>>
  /\ todo' = (IF s.do = "fetch" THEN Writes(fw.seq[fw.idx + 1]) ELSE <<>>) \o Tail(todo)
  /\ held' = IF s.do = "next" THEN NextIdx(fw.idx, Len(fw.seq)) ELSE held
  /\ armed' = CASE s.do = "disarm" -> FALSE [] s.do = "arm" -> TRUE [] OTHER -> armed
  /\ fw' = CASE s.do = "disarm" -> [fw EXCEPT !.running = FALSE]
             [] s.do = "arm"    -> [fw EXCEPT !.running = TRUE]
             [] s.do = "write"  -> [fw EXCEPT !.pins = IF s.high THEN @ \cup {s.pin}
                                                                 ELSE @ \ {s.pin}]
             [] s.do = "swap"   -> [fw EXCEPT !.seq = s.prog, !.idx = 0]
             [] s.do = "store"  -> [fw EXCEPT !.idx = held]
             [] OTHER           -> fw
  /\ UNCHANGED <<alive, ops>>

(* _tick: the whole callback runs between two steps of the main thread. *)
TimerTick ==
  /\ armed
  /\ fw' = Advance(fw) /\ ops' = Tick(ops)
  /\ UNCHANGED <<armed, todo, held, alive>>

Next ==
  \/ \E c \in Commands : Receive(c)
  \/ Reset \/ CtrlC \/ MainStep \/ TimerTick

Spec == Init /\ [][Next]_vars

-----------------------------------------------------------------------------
TypeOK ==
  /\ fw \in [pins : States, seq : Programs \cup {<<>>}, idx : Nat, period : Periods \cup {0},
             running : BOOLEAN]
  /\ fw.seq # <<>> => fw.idx < Len(fw.seq)
  /\ armed \in BOOLEAN /\ alive \in BOOLEAN /\ held \in Nat /\ Len(todo) <= 9

(* However ticks fall between the steps of F, G and K, a mixed state does   *)
(* not outlive the switching: with the timer stopped and no command under   *)
(* way the bridge shows what atomic commands would have left, or the state  *)
(* at the held index (K under a running timer can lose a step), and after   *)
(* ctrl-C it is dark (main.py 293-336, 680-697, 867-946, 1000-1005).        *)
HaltedIsWhole ==
  AtRest /\ ~fw.running =>
    /\ fw.pins = ops.pins \/ (fw.seq # <<>> /\ fw.pins = fw.seq[fw.idx + 1])
    /\ fw.seq = ops.seq /\ fw.period = ops.period /\ ~ops.running
    /\ ~alive => fw.pins = AllOff
=============================================================================
