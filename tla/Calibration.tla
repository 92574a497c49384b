----------------------------- MODULE Calibration -----------------------------
(***************************************************************************)
(* Two-point calibration of a pair of current sensors: the wizard of the   *)
(* terminal client (tui/widgets/calibration_screen.py), the commands it    *)
(* ends in (tui/app.py, tui/client.py, server/command_server.py,           *)
(* server/gpio_driver.py) and the gain and offset the RP2040 keeps per     *)
(* channel (firmware-c/src/ina226.c).                                      *)
(*                                                                         *)
(* Amperes, gains and offsets are integers modulo a small prime: sums,     *)
(* products and quotients are exact there, as they are, but for rounding,  *)
(* among floats.  Two channels stand for the four; each is off by a fixed  *)
(* gain and offset.                                                        *)
(***************************************************************************)
EXTENDS Naturals, Sequences, FiniteSets

CONSTANTS
  Prime,         \* the modulus: every number but 0 divides 1
  SAMPLE_TARGET, \* samples averaged per point; Prime does not divide it
  Defects,       \* what the channels may be off by: pairs of gain and offset
  MaxRuns,       \* bound on the calibrations the user begins
  MaxFaults      \* bound on unsteady currents, sensor errors, cuts and resets

CalibrationAssumption ==
  /\ Prime \in Nat \ {0, 1} /\ SAMPLE_TARGET \in Nat \ {0} /\ SAMPLE_TARGET % Prime # 0
  /\ \A x \in 1..Prime - 1 : \E y \in 1..Prime - 1 : (x * y) % Prime = 1
  /\ Defects \subseteq (1..Prime - 1) \X (0..Prime - 1)
  /\ MaxRuns \in Nat /\ MaxFaults \in Nat

VARIABLES
  defect,   \* per channel: gain and offset of what the chip measures
  s_cal,    \* per channel: gain and offset of the firmware's correction
  amps,     \* the current that flows through both
  wizard,   \* [step, low, high, lowRaw, highRaw, samples, sink, results]
  sending,  \* set_calibration calls still to be made
  spoiled,  \* history: what went wrong since the wizard was opened
  saved,    \* history: a calibration was saved to its end, and no other begun since
  runs, faults

vars == <<defect, s_cal, amps, wizard, sending, spoiled, saved, runs, faults>>

Channels == {"a", "b"}
Field    == 0..Prime - 1

(* Arithmetic in the field. *)
Plus(x, y)  == (x + y) % Prime
Minus(x, y) == (x + Prime - y) % Prime
Times(x, y) == (x * y) % Prime
Over(x, y)  == CHOOSE q \in Field : Times(q, y) = x      \* y # 0
Mean(s)     ==
  LET sum[i \in 0..Len(s)] == IF i = 0 THEN 0 ELSE Plus(sum[i - 1], s[i])
  IN  Over(sum[Len(s)], SAMPLE_TARGET % Prime)

Identity == <<1, 0>>
Apply(c, x) == Plus(Times(c[1], x), c[2])

(* shunt_raw_to_amps: what is streamed is corrected. *)
Uncorrected(ch) == Apply(defect[ch], amps)
Reading(ch)     == Apply(s_cal[ch], Uncorrected(ch))

Closed == [step |-> "closed", low |-> 0, high |-> 0, lowRaw |-> [ch \in Channels |-> 0],
           highRaw |-> [ch \in Channels |-> 0], samples |-> <<>>, sink |-> FALSE,
           results |-> <<>>]

Init ==
  /\ defect \in [Channels -> Defects] /\ s_cal = [ch \in Channels |-> Identity]
  /\ amps = 1 /\ wizard = Closed /\ sending = <<>>
  /\ spoiled = {} /\ saved = FALSE /\ runs = 0 /\ faults = 0

Fault == faults < MaxFaults /\ faults' = faults + 1

-----------------------------------------------------------------------------
(* action_calibrate, and the choice of the pair.  Corrected already?        *)
Open ==
  /\ wizard.step = "closed" /\ sending = <<>> /\ runs < MaxRuns
  /\ wizard' = [Closed EXCEPT !.step = "low entry"]
  /\ spoiled' = IF \A ch \in Channels : s_cal[ch] = Identity THEN {} ELSE {"corrected"}
  /\ runs' = runs + 1 /\ saved' = FALSE
  /\ UNCHANGED <<defect, s_cal, amps, sending, faults>>

(* Entering the ammeter's reading starts a capture. *)
Entry ==
  /\ wizard.step \in {"low entry", "high entry"}
  /\ wizard' = [wizard EXCEPT
       !.step = IF wizard.step = "low entry" THEN "low capture" ELSE "high capture",
       !.low  = IF wizard.step = "low entry" THEN amps ELSE @,
       !.high = IF wizard.step = "high entry" THEN amps ELSE @,
       !.samples = <<>>, !.sink = TRUE]
  /\ UNCHANGED <<defect, s_cal, amps, sending, spoiled, saved, runs, faults>>

(* The user sets another current: between the points, or while the samples  *)
(* are taken.                                                               *)
SetCurrent ==
  /\ wizard.step \in {"low entry", "high entry", "low capture", "high capture"}
  /\ \E i \in Field \ {amps} : amps' = i
  /\ IF wizard.sink THEN Fault /\ spoiled' = spoiled \cup {"unsteady"}
                    ELSE UNCHANGED <<faults, spoiled>>
  /\ UNCHANGED <<defect, s_cal, wizard, sending, saved, runs>>

(* _on_sample, called with each state frame; a sensor in error counts as 0. *)
OnSample_EarlyMean(values) ==
  LET samples == Append(wizard.samples, values)
      mean    == [ch \in Channels |-> Mean([i \in DOMAIN samples |-> samples[i][ch]])]
      low     == wizard.step = "low capture"
  IN  wizard' = [wizard EXCEPT
        !.samples = samples, !.sink = FALSE,
        !.lowRaw  = IF low THEN mean ELSE @,
        !.highRaw = IF low THEN @ ELSE mean,
        !.step    = IF low THEN "high entry" ELSE "compute"]

OnSample(values) ==
  LET samples == Append(wizard.samples, values)
      full    == Len(samples) = SAMPLE_TARGET
      mean    == [ch \in Channels |-> Mean([i \in DOMAIN samples |-> samples[i][ch]])]
      low     == wizard.step = "low capture"
  IN  wizard' = [wizard EXCEPT
        !.samples = samples, !.sink = ~full,
        !.lowRaw  = IF full /\ low THEN mean ELSE @,
        !.highRaw = IF full /\ ~low THEN mean ELSE @,
        !.step    = IF ~full THEN @ ELSE IF low THEN "high entry" ELSE "compute"]

Sample ==
  /\ wizard.sink
  /\ \/ OnSample([ch \in Channels |-> Reading(ch)]) /\ UNCHANGED <<spoiled, faults>>
     \/ /\ Fault /\ spoiled' = spoiled \cup {"error"}
        /\ \E bad \in Channels :
             OnSample([ch \in Channels |-> IF ch = bad THEN 0 ELSE Reading(ch)])
  /\ UNCHANGED <<defect, s_cal, amps, sending, saved, runs>>

(* _compute_and_show: readings that are the same leave nothing to save.     *)
ComputeAndShow ==
  LET delta(ch) == Minus(wizard.highRaw[ch], wizard.lowRaw[ch])
      gain(ch)  == Over(Minus(wizard.high, wizard.low), delta(ch))
      result(ch) == <<ch, gain(ch), Minus(wizard.low, Times(gain(ch), wizard.lowRaw[ch]))>>
  IN
  /\ wizard.step = "compute"
  /\ wizard' = [wizard EXCEPT !.step = "confirm",
       !.results = IF \E ch \in Channels : delta(ch) = 0 THEN <<>>
                   ELSE <<result("a"), result("b")>>]
  /\ UNCHANGED <<defect, s_cal, amps, sending, spoiled, saved, runs, faults>>

Confirm ==
  /\ wizard.step = "confirm" /\ wizard.results # <<>>
  /\ sending' = wizard.results /\ wizard' = Closed
  /\ UNCHANGED <<defect, s_cal, amps, spoiled, saved, runs, faults>>

Cancel ==
  /\ wizard.step # "closed"
  /\ wizard' = Closed
  /\ UNCHANGED <<defect, s_cal, amps, sending, spoiled, saved, runs, faults>>

-----------------------------------------------------------------------------
(* set_calibration down to the W command, one channel after the other.  A   *)
(* command that does not arrive is reported as saved all the same, since a  *)
(* subscribed client does not wait for replies.                             *)
SetCalibration ==
  /\ sending # <<>>
  /\ \/ /\ s_cal' = [s_cal EXCEPT ![Head(sending)[1]] = Tail(Head(sending))]
        /\ UNCHANGED <<faults, spoiled>>
     \/ Fault /\ spoiled' = spoiled \cup {"cut"} /\ UNCHANGED s_cal
  /\ sending' = Tail(sending)
  /\ saved' = (sending' = <<>>)
  /\ UNCHANGED <<defect, amps, wizard, runs>>

(* W 4: by this wizard's fifth entry, or by another client at any time. *)
Reset ==
  /\ \/ wizard.step = "closed" /\ sending = <<>> /\ UNCHANGED <<spoiled, faults>>
     \/ Fault /\ spoiled' = spoiled \cup {"reset"}
  /\ s_cal' = [ch \in Channels |-> Identity]
  /\ saved' = FALSE
  /\ UNCHANGED <<defect, amps, wizard, sending, runs>>

-----------------------------------------------------------------------------
Next ==
  \/ Open \/ Entry \/ SetCurrent \/ Sample \/ ComputeAndShow \/ Confirm \/ Cancel
  \/ SetCalibration \/ Reset

Spec == Init /\ [][Next]_vars

-----------------------------------------------------------------------------
Steps == {"closed", "low entry", "low capture", "high entry", "high capture", "compute", "confirm"}

TypeOK ==
  /\ s_cal \in [Channels -> Field \X Field] /\ amps \in Field
  /\ wizard.step \in Steps /\ Len(wizard.samples) <= SAMPLE_TARGET
  /\ (wizard.sink <=> wizard.step \in {"low capture", "high capture"})
  /\ Len(sending) <= Cardinality(Channels) /\ runs \in 0..MaxRuns /\ faults \in 0..MaxFaults

Corrects(ch) == \A i \in Field : Apply(s_cal[ch], Apply(defect[ch], i)) = i

(* A calibration that began without a correction in place, during which the *)
(* current was steady and no sensor, command or other client interfered,    *)
(* makes both channels read what flows, whatever the channels are off by,   *)
(* whichever currents were chosen and however often the wizard was left     *)
(* and opened before (calibration_screen.py 184-268).                       *)
SavedIsTrue == saved /\ spoiled = {} => \A ch \in Channels : Corrects(ch)

(* "corrected = gain * raw + offset" (ina226.h 45): the pair the wizard     *)
(* saves is to be applied to what the chip measures.  Fails for a channel   *)
(* that has a correction: the "raw" means the wizard computes from are      *)
(* taken from corrected readings.                                           *)
RecalibratedIsTrue == saved /\ spoiled \subseteq {"corrected"} => \A ch \in Channels : Corrects(ch)
=============================================================================
