----------------------------- MODULE MicroStream -----------------------------
(***************************************************************************)
(* The sensor half of the MicroPython firmware (firmware/main.py): the     *)
(* stream of D rows with its two gates (the rate and the conversion-ready  *)
(* ALERT of the chips, with a watchdog behind it), the burst capture, and  *)
(* the commands T, A, V, Z, N, R, B and BD.                                *)
(*                                                                         *)
(* The ALERT line is the wired-OR of the chips: a chip that finishes a     *)
(* conversion pulls it low until its Mask/Enable register is read, and     *)
(* only a falling edge of the line raises the interrupt.  Every access to  *)
(* a chip is a step, and a conversion may end between any two.             *)
(*                                                                         *)
(* Rates are small numbers; time is how far the clock has come since the   *)
(* last row: not due, due, or past the watchdog.                           *)
(***************************************************************************)
EXTENDS Naturals, Sequences, FiniteSets, SequencesExt

CONSTANTS
  Chips,      \* the INA226 sensors
  MaxRate,    \* the largest stream rate
  MaxBurst,   \* the largest burst (3000 in the code)
  ProfileRows \* rows of one Z command

MicroStreamAssumption ==
  /\ IsFiniteSet(Chips)
  /\ MaxRate \in Nat \ {0} /\ MaxBurst \in Nat \ {0} /\ ProfileRows \in Nat \ {0}

VARIABLES
  bus,       \* the chips that answer on the I2C bus
  wired,     \* whether the ALERT line reaches the processor
  present,   \* ina226_present
  cnvr,      \* chips whose Mask/Enable routes conversion-ready to ALERT
  flagged,   \* chips with CVRF set
  newer,     \* chips that converted after the sweep of the last row read them
  ready,     \* _cnvr_ready
  armed,     \* _cnvr_armed
  enabled,   \* _cnvr_user_enabled
  hz,        \* stream_hz
  estimate,  \* the rate the settings of A and V allow
  measured,  \* the rate Z has measured, 0 before
  age,       \* time since last_stream: 0, 1 (due) or 2 (past _cnvr_timeout_us)
  burst,     \* [on, left, held]: burst_active, samples still to take, buffer not empty
  at,        \* where the main loop is: "input", "profile" (in a Z) or "work"
  rows,      \* rows this Z has still to emit
  todo,      \* the accesses the main loop still has to make
  row        \* the last row: why it was emitted and whether it was new

chipVars == <<bus, wired, cnvr, flagged, newer>>
cnvrVars == <<present, ready, armed, enabled>>
rateVars == <<hz, estimate, measured, age>>
loop == <<at, rows, todo>>
vars == <<chipVars, cnvrVars, rateVars, burst, loop, row>>

NoBurst == [on |-> FALSE, left |-> 0, held |-> FALSE]
Order   == SetToSeq(Chips)
Over(op, set) == [i \in 1..Cardinality(set) |-> [do |-> op, chip |-> SetToSeq(set)[i]]]
Only(op) == <<[do |-> op, chip |-> Order[1]]>>

Cap == IF measured > 0 THEN measured ELSE estimate
Clamped(rate, cap) == IF rate > cap THEN cap ELSE rate

(* _arm_cnvr, after the mode and the sensors are known: clear the chips,    *)
(* drop the flag, take the interrupt.                                       *)
ArmSteps(on, chips) ==
  IF on /\ chips # {} THEN Over("clear", chips) \o Only("arm") ELSE Only("disarm")

(* ina226_init of each chip, then _arm_cnvr. *)
ApplySteps(on, chips) == Over("init", chips) \o ArmSteps(on, chips)

(* emit_stream_line: sweep, write, and, with CNVR armed, drop the flag       *)
(* before the chips are cleared.                                             *)
EmitSteps_NoUnflag(why) ==
  Over("sweep", present) \o Only(why) \o (IF armed THEN Over("clear", present) ELSE <<>>)
EmitSteps(why) ==
  Over("sweep", present) \o Only(why)
    \o (IF armed THEN Only("unflag") \o Over("clear", present) ELSE <<>>)

Init ==
  /\ bus \in SUBSET Chips /\ wired \in BOOLEAN
  /\ present = bus /\ cnvr = {} /\ flagged = {} /\ newer = {}
  /\ ready = FALSE /\ armed = FALSE /\ enabled = FALSE
  /\ hz = 0 /\ estimate = MaxRate /\ measured = 0 /\ age = 0
  /\ burst = NoBurst /\ at = "input" /\ rows = 0 /\ todo = <<>>
  /\ row = [why |-> "none", fresh |-> TRUE]

-----------------------------------------------------------------------------
(* The chips.  A chip converts all the time; the interrupt latches a flag.  *)
LineLow == flagged \cap cnvr # {}

Convert(c) ==
  /\ c \in bus
  /\ newer' = newer \cup {c} /\ flagged' = flagged \cup {c}
  /\ ready' = (ready \/ (wired /\ armed /\ c \in cnvr /\ ~LineLow))
  /\ UNCHANGED <<bus, wired, present, cnvr, armed, enabled, rateVars, burst, loop, row>>

TimePasses ==
  /\ age < 2
  /\ age' \in age + 1 .. 2
  /\ UNCHANGED <<chipVars, cnvrVars, hz, estimate, measured, burst, loop, row>>

-----------------------------------------------------------------------------
(* One access of the main loop. *)
Access ==
  LET s == Head(todo)
  IN
  /\ todo # <<>>
  /\ todo' = Tail(todo)
  /\ flagged' = IF s.do \in {"init", "clear"} /\ (s.do = "init" => enabled)
                  THEN flagged \ {s.chip} ELSE flagged
  /\ cnvr' = CASE s.do = "init" /\ enabled  -> cnvr \cup {s.chip}
               [] s.do = "init" /\ ~enabled -> cnvr \ {s.chip}
               [] OTHER -> cnvr
  /\ newer' = IF s.do = "sweep" THEN newer \ {s.chip} ELSE newer
  /\ ready' = IF s.do \in {"unflag", "arm", "disarm"} THEN FALSE ELSE ready
  /\ armed' = CASE s.do = "arm" -> TRUE [] s.do = "disarm" -> FALSE [] OTHER -> armed
  /\ row' = CASE s.do = "sweep" -> [row EXCEPT !.fresh = @ \/ s.chip \in newer]
              [] s.do \in {"edge", "watchdog", "timer", "profile"} -> [row EXCEPT !.why = s.do]
              [] OTHER -> row
  /\ UNCHANGED <<bus, wired, present, enabled, rateVars, burst, at, rows>>

(* The loop looks at its input: nothing, or a command.                      *)
AtInput == at = "input" /\ todo = <<>>

NoInput ==
  /\ AtInput
  /\ at' = "work"
  /\ UNCHANGED <<chipVars, cnvrVars, rateVars, burst, rows, todo, row>>

(* T: a rate above the cap is cut to it. *)
CmdT(rate) ==
  /\ AtInput /\ rate \in 0..MaxRate
  /\ hz' = Clamped(rate, Cap)
  /\ at' = "work"
  /\ UNCHANGED <<chipVars, cnvrVars, estimate, measured, age, burst, rows, todo, row>>

(* A and V change what the chips and the bus allow; A programs the chips.   *)
CmdA(allowed) ==
  /\ AtInput /\ allowed \in 1..MaxRate
  /\ estimate' = allowed
  /\ hz' = Clamped(hz, IF measured > 0 THEN measured ELSE allowed)
  /\ todo' = ApplySteps(enabled, present)
  /\ at' = "work"
  /\ UNCHANGED <<chipVars, cnvrVars, measured, age, burst, row, rows>>

CmdV(allowed) ==
  /\ AtInput /\ allowed \in 1..MaxRate
  /\ estimate' = allowed
  /\ hz' = Clamped(hz, IF measured > 0 THEN measured ELSE allowed)
  /\ at' = "work"
  /\ UNCHANGED <<chipVars, cnvrVars, measured, age, burst, rows, todo, row>>

(* Z emits rows one after another, without a look at the gates, and sets    *)
(* the rate it has measured.                                                *)
CmdZ ==
  /\ AtInput
  /\ rows' = ProfileRows /\ at' = "profile"
  /\ UNCHANGED <<chipVars, cnvrVars, rateVars, burst, todo, row>>

ProfileRow ==
  /\ at = "profile" /\ todo = <<>> /\ rows > 0
  /\ todo' = EmitSteps("profile")
  /\ row' = [row EXCEPT !.fresh = FALSE]
  /\ rows' = rows - 1
  /\ UNCHANGED <<chipVars, cnvrVars, rateVars, burst, at>>

ProfileEnds(took) ==
  /\ at = "profile" /\ todo = <<>> /\ rows = 0 /\ took \in 1..MaxRate
  /\ measured' = took /\ hz' = Clamped(hz, took)
  /\ at' = "work"
  /\ UNCHANGED <<chipVars, cnvrVars, estimate, age, burst, rows, todo, row>>

(* N switches the conversion-ready handshake on or off. *)
CmdN(on) ==
  /\ AtInput /\ on \in BOOLEAN
  /\ enabled' = on
  /\ todo' = ApplySteps(on, present)
  /\ at' = "work"
  /\ UNCHANGED <<chipVars, present, ready, armed, rateVars, burst, row, rows>>

(* R scans the bus again. *)
CmdR ==
  /\ AtInput
  /\ present' = bus
  /\ todo' = ApplySteps(enabled, bus)
  /\ at' = "work"
  /\ UNCHANGED <<chipVars, ready, armed, enabled, rateVars, burst, row, rows>>

(* B starts or cancels a burst; BD is refused while one runs.               *)
CmdB(n) ==
  /\ AtInput /\ n \in 0..MaxBurst
  /\ burst' = [on |-> n > 0, left |-> n, held |-> FALSE]
  /\ at' = "work"
  /\ UNCHANGED <<chipVars, cnvrVars, rateVars, rows, todo, row>>

CmdBD ==
  /\ AtInput /\ ~burst.on /\ burst.held
  /\ burst' = NoBurst
  /\ at' = "work"
  /\ UNCHANGED <<chipVars, cnvrVars, rateVars, rows, todo, row>>

-----------------------------------------------------------------------------
AtWork == at = "work" /\ todo = <<>>

(* A running burst takes a sample and skips the stream. *)
Capture ==
  /\ AtWork /\ burst.on
  /\ burst' = [on |-> burst.left > 1, left |-> burst.left - 1, held |-> TRUE]
  /\ at' = "input"
  /\ UNCHANGED <<chipVars, cnvrVars, rateVars, rows, todo, row>>

(* The two gates: the rate, then the conversion or the watchdog. *)
MayEmit_NoWatchdog == IF armed THEN ready ELSE TRUE
MayEmit == armed => ready \/ age = 2

Why == IF ~armed THEN "timer" ELSE IF ready THEN "edge" ELSE "watchdog"

Emit ==
  /\ AtWork /\ ~burst.on /\ hz > 0 /\ age > 0 /\ MayEmit
  /\ todo' = EmitSteps(Why)
  /\ row' = [row EXCEPT !.fresh = FALSE]
  /\ age' = 0 /\ at' = "input"
  /\ UNCHANGED <<chipVars, cnvrVars, hz, estimate, measured, burst, rows>>

NothingDue ==
  /\ AtWork /\ ~burst.on
  /\ ~(hz > 0 /\ age > 0 /\ MayEmit)
  /\ at' = "input"
  /\ UNCHANGED <<chipVars, cnvrVars, rateVars, burst, rows, todo, row>>

-----------------------------------------------------------------------------
Command ==
  \/ \E rate \in 0..MaxRate : CmdT(rate) \/ CmdA(rate) \/ CmdV(rate)
  \/ \E on \in BOOLEAN : CmdN(on)
  \/ \E n \in 0..MaxBurst : CmdB(n)
  \/ CmdZ \/ CmdR \/ CmdBD

Profile == ProfileRow \/ \E took \in 1..MaxRate : ProfileEnds(took)

MainLoop == Access \/ NoInput \/ Command \/ Profile \/ Capture \/ Emit \/ NothingDue

Next == MainLoop \/ TimePasses \/ \E c \in Chips : Convert(c)

Spec == Init /\ [][Next]_vars

(* The loop runs and the clock goes on; the chips owe nothing. *)
FairSpec == Spec /\ WF_vars(MainLoop) /\ WF_vars(TimePasses)

-----------------------------------------------------------------------------
TypeOK ==
  /\ present \subseteq bus /\ bus \subseteq Chips
  /\ cnvr \subseteq Chips /\ flagged \subseteq bus /\ newer \subseteq bus
  /\ {wired, ready, armed, enabled} \subseteq BOOLEAN
  /\ hz \in 0..MaxRate /\ estimate \in 1..MaxRate /\ measured \in 0..MaxRate /\ hz <= Cap
  /\ age \in 0..2 /\ at \in {"input", "profile", "work"} /\ rows \in 0..ProfileRows
  /\ burst \in [on : BOOLEAN, left : 0..MaxBurst, held : BOOLEAN]
  /\ burst.on <=> burst.left > 0

(* A row that the ALERT interrupt released holds at least one conversion    *)
(* newer than the row before it: an edge is never taken for the conversion  *)
(* it came from twice (main.py 425-459, 646-664).                           *)
RowIsFresh == todo = <<>> /\ row.why = "edge" => row.fresh

(* A stream that is on emits, or is put off, whatever happens to the ALERT  *)
(* line: with an edge lost while another chip held the line low, or the     *)
(* wire broken, the watchdog emits (main.py 434-459, 1030-1053).            *)
Emitting == todo # <<>> /\ Head(todo).do \in {"edge", "watchdog", "timer", "profile"}
StreamGoesOn == []<>(hz = 0 \/ burst.on \/ Emitting)
=============================================================================
