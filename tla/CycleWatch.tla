------------------------------ MODULE CycleWatch ------------------------------
(***************************************************************************)
(* Following an external battery cycler: CyclerDetector                    *)
(* (server/cycler_detector.py) classifies each sensor snapshot and         *)
(* debounces the result, the schedule (server/schedule.py) says what the   *)
(* cycler should be doing, and ScheduleMonitor (server/schedule_monitor.py)*)
(* walks the schedule on a clock of its own and compares.                  *)
(*                                                                         *)
(* A snapshot is reduced to what the thresholds tell apart: where the      *)
(* current lies, how many of the three signs of a constant-voltage phase   *)
(* are there, and whether the current clearly rises.  Durations are whole  *)
(* units of time.                                                          *)
(***************************************************************************)
EXTENDS Naturals, Sequences, FiniteSets

CONSTANTS
  None,
  Files,       \* the schedules offered to load_schedule, good and bad
  Samples,     \* the snapshots the sensors may give
  Debounce,    \* DetectionThresholds.debounce_count
  MaxElapsed   \* bound on the clock

Levels == {"rest", "dead", "charge", "discharge"}

CycleWatchAssumption ==
  /\ None \notin Files
  /\ \A f \in Files : f.repeat \in Nat /\ f.steps \in Seq([expect : STRING, lasts : Nat])
  /\ Samples \subseteq [level : Levels, signs : 0..3, rising : BOOLEAN]
  /\ Debounce \in Nat \ {0} /\ MaxElapsed \in Nat

VARIABLES
  schedule,  \* ScheduleMonitor._schedule, or None
  running,   \* _running
  elapsed,   \* time since _start_time
  detector,  \* the debounce of CyclerDetector, its confirmed state and its CV flag
  fed,       \* the state feed has returned and _tick has not stored, or None
  latest,    \* _latest_state
  recent     \* history: the last Debounce snapshots

vars == <<schedule, running, elapsed, detector, fed, latest, recent>>

Init ==
  /\ schedule = None /\ running = FALSE /\ elapsed = 0
  /\ detector = [candidate |-> "unknown", count |-> 0, confirmed |-> "unknown", inCv |-> FALSE]
  /\ fed = None /\ latest = "unknown" /\ recent = <<>>

-----------------------------------------------------------------------------
(* validate_schedule, without the fields the monitor never looks at. *)
Valid(f) ==
  /\ f.steps # <<>> /\ f.repeat >= 1
  /\ \A i \in DOMAIN f.steps :
       /\ f.steps[i].expect \in {"cc_charge", "cv_charge", "rest", "discharge"}
       /\ f.steps[i].lasts > 0

(* load_schedule: a file that is refused leaves everything as it was. *)
Load(f) ==
  /\ IF Valid(f) THEN schedule' = f /\ running' = TRUE /\ elapsed' = 0
                 ELSE UNCHANGED <<schedule, running, elapsed>>
  /\ UNCHANGED <<detector, fed, latest, recent>>

(* restart raises when nothing is loaded. *)
Restart ==
  /\ schedule # None
  /\ running' = TRUE /\ elapsed' = 0
  /\ UNCHANGED <<schedule, detector, fed, latest, recent>>

Stop ==
  /\ running' = FALSE
  /\ UNCHANGED <<schedule, elapsed, detector, fed, latest, recent>>

Clock ==
  /\ schedule # None /\ elapsed < MaxElapsed
  /\ elapsed' = elapsed + 1
  /\ UNCHANGED <<schedule, running, detector, fed, latest, recent>>

-----------------------------------------------------------------------------
(* _compute_plan_locked: a stopped monitor shows the first step, one past   *)
(* the end the last.  EndOf[i] is when step i of a cycle ends ("cum").      *)
Sums(summands, n) ==
  LET sum[i \in 0..n] == IF i = 0 THEN 0 ELSE sum[i - 1] + summands[i]
  IN  sum

Length   == Len(schedule.steps)
EndOf    == Sums([i \in 1..Length |-> schedule.steps[i].lasts], Length)
Duration == EndOf[Length]

FirstUnfinished(at) ==
  CHOOSE i \in 1..Length : at < EndOf[i] /\ \A j \in 1..i - 1 : EndOf[j] <= at

Plan_Late ==
  LET inCycle == elapsed % Duration
  IN CASE ~running -> [cycle |-> 0, step |-> 1, complete |-> FALSE]
       [] running /\ elapsed > Duration * schedule.repeat
            -> [cycle |-> schedule.repeat - 1, step |-> Length, complete |-> TRUE]
       [] OTHER -> [cycle |-> elapsed \div Duration, step |-> FirstUnfinished(inCycle),
                    complete |-> FALSE]

Plan ==
  LET inCycle == elapsed % Duration
  IN CASE ~running -> [cycle |-> 0, step |-> 1, complete |-> FALSE]
       [] running /\ elapsed >= Duration * schedule.repeat
            -> [cycle |-> schedule.repeat - 1, step |-> Length, complete |-> TRUE]
       [] OTHER -> [cycle |-> elapsed \div Duration, step |-> FirstUnfinished(inCycle),
                    complete |-> FALSE]

-----------------------------------------------------------------------------
(* _classify, with the two-of-three vote of _is_cv_phase and the hysteresis *)
(* of _should_exit_cv.                                                      *)
Classify(s, inCv) ==
  CASE s.level = "rest"      -> "rest"
    [] s.level = "discharge" -> "discharge"
    [] s.level = "dead"      -> "unknown"
    [] s.level = "charge"    -> IF (inCv /\ ~s.rising) \/ (~inCv /\ s.signs >= 2)
                                  THEN "cv_charge" ELSE "cc_charge"

(* As below, with the CV flag left set when another state is confirmed. *)
Debounced_KeepsCv(d, candidate) ==
  LET count == IF candidate # d.candidate THEN 1
               ELSE IF d.count < Debounce THEN d.count + 1 ELSE d.count
  IN IF count >= Debounce /\ candidate # d.confirmed
       THEN [candidate |-> candidate, count |-> count, confirmed |-> candidate,
             inCv |-> d.inCv \/ candidate = "cv_charge"]
       ELSE [d EXCEPT !.candidate = candidate, !.count = count]

(* _update_debounce.  Beyond Debounce the counter is not told apart. *)
Debounced(d, candidate) ==
  LET count == IF candidate # d.candidate THEN 1
               ELSE IF d.count < Debounce THEN d.count + 1 ELSE d.count
  IN IF count >= Debounce /\ candidate # d.confirmed
       THEN [candidate |-> candidate, count |-> count, confirmed |-> candidate,
             inCv |-> candidate = "cv_charge"]
       ELSE [d EXCEPT !.candidate = candidate, !.count = count]

(* _tick: nothing without sensor data; feed runs outside the lock. *)
Feed(s) ==
  /\ fed = None
  /\ detector' = Debounced(detector, Classify(s, detector.inCv))
  /\ fed' = detector'.confirmed
  /\ recent' = (IF Len(recent) < Debounce THEN recent ELSE Tail(recent)) \o <<s>>
  /\ UNCHANGED <<schedule, running, elapsed, latest>>

Publish ==
  /\ fed # None
  /\ latest' = fed /\ fed' = None
  /\ UNCHANGED <<schedule, running, elapsed, detector, recent>>

Next ==
  \/ \E f \in Files : Load(f)
  \/ Restart \/ Stop \/ Clock \/ Publish
  \/ \E s \in Samples : Feed(s)

Spec == Init /\ [][Next]_vars

-----------------------------------------------------------------------------
TypeOK ==
  /\ schedule \in Files \cup {None} /\ running \in BOOLEAN /\ elapsed \in 0..MaxElapsed
  /\ running => schedule # None
  /\ detector.count \in 0..Debounce /\ detector.inCv = (detector.confirmed = "cv_charge")
  /\ latest \in {"unknown", "cc_charge", "cv_charge", "rest", "discharge"}
  /\ fed # None => fed = detector.confirmed

(* The plan agrees with the program written out: the steps that have ended  *)
(* when the clock shows elapsed are those before the pointer, over the      *)
(* cycles, however the schedule is loaded, stopped and restarted, and it is *)
(* complete exactly when all have ended (schedule_monitor.py 140-207).      *)
PlanIsOnTime ==
  schedule # None /\ running =>
    LET all    == schedule.repeat * Length
        endsAt == Sums([n \in 1..all |-> schedule.steps[1 + ((n - 1) % Length)].lasts], all)
        ended  == Cardinality({n \in 1..all : endsAt[n] <= elapsed})
    IN IF ended = all
         THEN Plan.complete /\ Plan.step = Length
         ELSE ~Plan.complete /\ Plan.cycle * Length + Plan.step = ended + 1

(* The detector changes its mind only when each of the last Debounce        *)
(* snapshots speaks for the new state, read as the old state tells it to:   *)
(* constant voltage is left for constant current on a rising current only,  *)
(* and entered on two signs of three (cycler_detector.py 194-301).          *)
ChangesOnEvidence ==
  [][detector'.confirmed # detector.confirmed =>
       /\ Len(recent') = Debounce
       /\ \A i \in 1..Debounce :
            Classify(recent'[i], detector.confirmed = "cv_charge") = detector'.confirmed]_vars
=============================================================================
