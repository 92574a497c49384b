------------------------------ MODULE PiNetwork ------------------------------
(***************************************************************************)
(* The network side of the Pi: set_mode flips its radio between its own    *)
(* access point and the known Wi-Fi (server/network_mode.py), at boot      *)
(* (server/ap_fallback.py), for a client of the command server, which has  *)
(* been answered half a second before (server/command_server.py), and for  *)
(* a double press of the power button (server/power_button.py), which      *)
(* tells the operator with the activity LED.                               *)
(*                                                                         *)
(* Every flip is a thread or process of its own; nothing keeps two from    *)
(* running at once.  NetworkManager itself is reduced to the profile that  *)
(* is active.                                                              *)
(***************************************************************************)
EXTENDS Naturals, FiniteSets

CONSTANTS
  None,
  Workers,     \* slots for threads that flip the mode
  MaxFlips,    \* bound on the flips that begin
  MaxPresses,  \* bound on presses of the button
  MaxFaults    \* bound on commands that fail

PiNetworkAssumption ==
  /\ Workers \subseteq Nat \ {0}
  /\ MaxFlips \in Nat /\ MaxPresses \in Nat /\ MaxFaults \in Nat

VARIABLES
  radio,     \* the active profile: "ap", "client" or "none"
  led,       \* the trigger of the LED: "mmc0" in normal use, "none" while it is pulsed
  worker,    \* the threads: what for, what next, the trigger read, the mode to go to
  recent,    \* a key press less than DOUBLE_PRESS_WINDOW_S ago counts as the first of two
  presses, flips, faults,
  mixed      \* history: two blinks were under way at once

vars == <<radio, led, worker, recent, presses, flips, faults, mixed>>

Idle     == [why |-> "none", pc |-> "idle", prev |-> None, goal |-> None]
Blinking == {w \in Workers : worker[w].pc = "pulse"}

Init ==
  /\ radio \in {"client", "none"} /\ led = "mmc0"
  /\ worker = [w \in Workers |->
                 IF w = 1 THEN [why |-> "boot", pc |-> "blink", prev |-> None, goal |-> "ap"]
                          ELSE Idle]
  /\ recent = FALSE /\ presses = 0 /\ flips = 0 /\ faults = 0 /\ mixed = FALSE

Fault == faults < MaxFaults /\ faults' = faults + 1

Begins(new) ==
  /\ flips < MaxFlips /\ flips' = flips + 1
  /\ \E w \in Workers : /\ worker[w].pc = "idle" /\ \A v \in Workers : v < w => worker[v].pc # "idle"
                        /\ worker' = [worker EXCEPT ![w] = new]

-----------------------------------------------------------------------------
(* run: the second of two presses starts a toggle, and counting afresh.    *)
Press ==
  /\ presses < MaxPresses /\ presses' = presses + 1
  /\ recent' = ~recent
  /\ IF recent THEN Begins([Idle EXCEPT !.why = "button", !.pc = "look"])
               ELSE UNCHANGED <<worker, flips>>
  /\ UNCHANGED <<radio, led, faults, mixed>>

WindowEnds ==
  /\ recent /\ recent' = FALSE
  /\ UNCHANGED <<radio, led, worker, presses, flips, faults, mixed>>

(* set_network_mode of a client: a timer flips the mode later.              *)
ClientFlips ==
  /\ \E m \in {"ap", "client"} : Begins([Idle EXCEPT !.why = "client", !.pc = "flip", !.goal = m])
  /\ UNCHANGED <<radio, led, recent, presses, faults, mixed>>

(* _toggle_worker: go the other way from what nmcli says is active.         *)
Look(w) ==
  /\ worker[w].pc = "look"
  /\ \/ /\ worker' = [worker EXCEPT ![w].pc = "blink",
                                    ![w].goal = IF radio = "ap" THEN "client" ELSE "ap"]
        /\ UNCHANGED faults
     \/ Fault /\ worker' = [worker EXCEPT ![w] = Idle]
  /\ UNCHANGED <<radio, led, recent, presses, flips, mixed>>

(* blink: read the trigger, take the LED over, and give it back.  An error  *)
(* on the way still gives it back.                                          *)
BlinkBegins(w) ==
  /\ worker[w].pc = "blink"
  /\ \/ /\ worker' = [worker EXCEPT ![w].pc = "pulse", ![w].prev = led]
        /\ led' = "none"
        /\ mixed' = (mixed \/ Blinking # {})
        /\ UNCHANGED faults
     \/ Fault /\ worker' = [worker EXCEPT ![w].pc = "flip"] /\ UNCHANGED <<led, mixed>>
  /\ UNCHANGED <<radio, recent, presses, flips>>

BlinkEnds_OnSuccess(w) ==
  /\ worker[w].pc = "pulse"
  /\ \/ led' = worker[w].prev /\ UNCHANGED faults
     \/ Fault /\ UNCHANGED led
  /\ worker' = [worker EXCEPT ![w].pc = "flip"]
  /\ UNCHANGED <<radio, recent, presses, flips, mixed>>

BlinkEnds(w) ==
  /\ worker[w].pc = "pulse"
  /\ led' = worker[w].prev
  /\ worker' = [worker EXCEPT ![w].pc = "flip"]
  /\ UNCHANGED <<radio, recent, presses, flips, faults, mixed>>

(* set_mode: bring the profile of the access point up or down.  It cannot   *)
(* be brought down when it is not active.                                   *)
Flip(w) ==
  LET goal == worker[w].goal
      works == goal = "ap" \/ radio = "ap"
      waits == worker[w].why = "button" /\ goal = "client"
  IN
  /\ worker[w].pc = "flip"
  /\ \/ /\ works
        /\ radio' = IF goal = "ap" THEN "ap" ELSE "none"
        /\ worker' = [worker EXCEPT ![w] = IF waits THEN [@ EXCEPT !.pc = "wait"] ELSE Idle]
        /\ UNCHANGED faults
     \/ /\ (~works /\ UNCHANGED faults) \/ Fault
        /\ worker' = [worker EXCEPT ![w] = Idle] /\ UNCHANGED radio
  /\ UNCHANGED <<led, recent, presses, flips, mixed>>

(* _wait_for_client_profile: until a client profile is active, or 20 s.     *)
Wait(w) ==
  /\ worker[w].pc = "wait"
  /\ (radio = "client" /\ UNCHANGED faults) \/ Fault
  /\ worker' = [worker EXCEPT ![w] = Idle]
  /\ UNCHANGED <<radio, led, recent, presses, flips, mixed>>

(* NetworkManager connects to a known network by itself. *)
Associates ==
  /\ radio = "none" /\ radio' = "client"
  /\ UNCHANGED <<led, worker, recent, presses, flips, faults, mixed>>

Next ==
  \/ Press \/ WindowEnds \/ ClientFlips \/ Associates
  \/ \E w \in Workers : Look(w) \/ BlinkBegins(w) \/ BlinkEnds(w) \/ Flip(w) \/ Wait(w)

Spec == Init /\ [][Next]_vars

-----------------------------------------------------------------------------
TypeOK ==
  /\ radio \in {"ap", "client", "none"} /\ led \in {"mmc0", "none"}
  /\ \A w \in Workers : worker[w].pc \in {"idle", "look", "blink", "pulse", "flip", "wait"}
  /\ {recent, mixed} \subseteq BOOLEAN

(* blink restores the previous trigger (power_button.py 65) whatever fails  *)
(* on the way.  Only two blinks at once, of a second double press or of the *)
(* boot, can leave the LED without it: the later one reads the trigger the  *)
(* earlier one has put there.                                               *)
LedIsRestored == Blinking = {} /\ ~mixed => led = "mmc0"
=============================================================================
