----------------------------- MODULE PartsProofs -----------------------------
(***************************************************************************)
(* Proofs about the parts that run side by side, for every value of their  *)
(* constants: a behaviour of the parts is one of each of them, and what is *)
(* proved of a part is proved of the whole.                                *)
(* Here are the MicroPython firmware, the detector, the network, the knob  *)
(* and the search for a Pi; DataProofs has the others, and the types of    *)
(* all parts together.                                                     *)
(***************************************************************************)
EXTENDS Parts, FleetProofs

-----------------------------------------------------------------------------
(* The network of the Pi.                                                  *)

(* When the parts move, the network moves as its module says.              *)
LEMMA NetMoves == PartsSpec => Net!Spec
  <1>1. PartsInit => Net!Init
    BY DEF PartsInit
  <1>2. [PartsNext]_allVars => [Net!Next]_nVars
    BY DEF PartsNext, allVars, nVars
  <1> QED
    BY <1>1, <1>2, PTL DEF PartsSpec, Net!Spec, Net!vars, nVars

NetWorker == [why : {"none", "boot", "button", "client"},
              pc : {"idle", "look", "blink", "pulse", "flip", "wait"},
              prev : {None, "mmc0", "none"}, goal : {None, "ap", "client"}]

NetTypes ==
  /\ nRadio \in {"ap", "client", "none"} /\ nLed \in {"mmc0", "none"}
  /\ nWorker \in [nWorkers -> NetWorker]
  /\ nRecent \in BOOLEAN /\ nMixed \in BOOLEAN

(* A blink has read a trigger.  Unless two were under way at once, the one *)
(* that is has read that of normal use, and without one the LED has it.    *)
OneBlinks ==
  /\ \A w \in Net!Blinking : nWorker[w].prev \in {"mmc0", "none"}
  /\ ~nMixed =>
       /\ Net!Blinking = {} => nLed = "mmc0"
       /\ \A w \in Net!Blinking : nWorker[w].prev = "mmc0" /\ Net!Blinking = {w}

NetInv == NetTypes /\ OneBlinks

(* A step of a thread that neither takes the LED nor gives it back.        *)
LEMMA NetAside ==
  ASSUME NetInv, NEW w \in nWorkers, NEW x \in NetWorker,
         nWorker' = [nWorker EXCEPT ![w] = x], x.pc # "pulse", nWorker[w].pc # "pulse",
         UNCHANGED <<nLed, nMixed>>
  PROVE  OneBlinks' /\ nWorker' \in [nWorkers -> NetWorker]
  <1>1. nWorker \in [nWorkers -> NetWorker]
    BY DEF NetInv, NetTypes
  <1>2. \A v \in nWorkers : nWorker'[v] = IF v = w THEN x ELSE nWorker[v]
    BY <1>1
  <1>3. nWorker' \in [nWorkers -> NetWorker]
    BY <1>1
  <1>4. Net!Blinking' = Net!Blinking /\ w \notin Net!Blinking
    BY <1>2 DEF Net!Blinking
  <1>5. \A v \in Net!Blinking : nWorker'[v] = nWorker[v]
    BY <1>2, <1>4 DEF Net!Blinking
  <1>6. OneBlinks'
    BY <1>4, <1>5 DEF NetInv, OneBlinks
  <1> QED
    BY <1>3, <1>6

(* A step of the network keeps the invariant.                              *)
LEMMA NetStep ==
  ASSUME NetInv, [Net!Next]_nVars
  PROVE  NetInv'
  <1>1. /\ nRadio \in {"ap", "client", "none"} /\ nLed \in {"mmc0", "none"}
        /\ nWorker \in [nWorkers -> NetWorker] /\ nRecent \in BOOLEAN /\ nMixed \in BOOLEAN
    BY DEF NetInv, NetTypes
  <1>2. Net!Idle \in NetWorker /\ Net!Idle.pc = "idle"
    BY DEF Net!Idle, NetWorker
  <1>3. ASSUME NEW x \in NetWorker, x.pc # "pulse", Net!Begins(x), UNCHANGED <<nLed, nMixed>>
        PROVE  OneBlinks' /\ nWorker' \in [nWorkers -> NetWorker]
    <2>1. PICK w \in nWorkers : nWorker[w].pc = "idle" /\ nWorker' = [nWorker EXCEPT ![w] = x]
      BY <1>3 DEF Net!Begins
    <2> QED
      BY <1>3, <2>1, NetAside
  <1>4. CASE UNCHANGED <<nLed, nWorker, nMixed>> /\ nRadio' \in {"ap", "client", "none"} /\ nRecent' \in BOOLEAN
    BY <1>1, <1>4 DEF NetInv, NetTypes, OneBlinks, Net!Blinking
  <1>5. CASE Net!Press
    <2>1. UNCHANGED <<nRadio, nLed, nMixed>> /\ nRecent' \in BOOLEAN
      BY <1>1, <1>5 DEF Net!Press
    <2>2. CASE ~nRecent
      BY <1>4, <1>5, <2>1, <2>2, <1>1 DEF Net!Press
    <2>3. CASE nRecent
      <3> DEFINE x == [Net!Idle EXCEPT !.why = "button", !.pc = "look"]
      <3>1. x \in NetWorker /\ x.pc # "pulse"
        BY DEF Net!Idle, NetWorker
      <3>2. Net!Begins(x)
        BY <1>5, <2>3 DEF Net!Press
      <3>3. OneBlinks' /\ nWorker' \in [nWorkers -> NetWorker]
        BY <1>3, <2>1, <3>1, <3>2
      <3> QED
        BY <1>1, <2>1, <3>3 DEF NetInv, NetTypes
    <2> QED
      BY <1>1, <2>2, <2>3
  <1>6. CASE Net!WindowEnds \/ Net!Associates \/ UNCHANGED nVars
    BY <1>1, <1>4, <1>6 DEF Net!WindowEnds, Net!Associates, nVars
  <1>7. CASE Net!ClientFlips
    <2> DEFINE x(m) == [Net!Idle EXCEPT !.why = "client", !.pc = "flip", !.goal = m]
    <2>1. PICK m \in {"ap", "client"} : Net!Begins(x(m))
      BY <1>7 DEF Net!ClientFlips
    <2>2. UNCHANGED <<nRadio, nLed, nRecent, nMixed>>
      BY <1>7 DEF Net!ClientFlips
    <2>3. x(m) \in NetWorker /\ x(m).pc # "pulse"
      BY DEF Net!Idle, NetWorker
    <2>4. OneBlinks' /\ nWorker' \in [nWorkers -> NetWorker]
      BY <1>3, <2>1, <2>2, <2>3
    <2> QED
      BY <1>1, <2>2, <2>4 DEF NetInv, NetTypes
  <1>8. ASSUME NEW w \in nWorkers, Net!Look(w) \/ Net!Flip(w) \/ Net!Wait(w)
        PROVE  NetInv'
    <2>1. nWorker[w] \in NetWorker
      BY <1>1
    <2>2. UNCHANGED <<nLed, nRecent, nMixed>> /\ nRadio' \in {"ap", "client", "none"}
      BY <1>1, <1>8 DEF Net!Look, Net!Flip, Net!Wait
    <2>3. nWorker[w].pc # "pulse"
      BY <1>8 DEF Net!Look, Net!Flip, Net!Wait
    <2>4. \E x \in NetWorker : x.pc # "pulse" /\ nWorker' = [nWorker EXCEPT ![w] = x]
      <3>1. CASE nWorker' = [nWorker EXCEPT ![w] = Net!Idle]
        BY <1>2, <3>1
      <3>2. CASE Net!Look(w) /\ ~(nWorker' = [nWorker EXCEPT ![w] = Net!Idle])
        <4> DEFINE goal == IF nRadio = "ap" THEN "client" ELSE "ap"
                   x == [nWorker[w] EXCEPT !.pc = "blink", !.goal = goal]
        <4>1. nWorker' = [nWorker EXCEPT ![w].pc = "blink", ![w].goal = goal]
          BY <3>2 DEF Net!Look
        <4>2. nWorker' = [nWorker EXCEPT ![w] = x]
          BY <1>1, <4>1
        <4>3. x \in NetWorker /\ x.pc = "blink"
          BY <2>1 DEF NetWorker
        <4> QED
          BY <4>2, <4>3
      <3>3. CASE Net!Flip(w) /\ ~(nWorker' = [nWorker EXCEPT ![w] = Net!Idle])
        <4> DEFINE x == [nWorker[w] EXCEPT !.pc = "wait"]
        <4>1. nWorker' = [nWorker EXCEPT ![w] = x]
          BY <1>1, <3>3 DEF Net!Flip
        <4>2. x \in NetWorker /\ x.pc = "wait"
          BY <2>1 DEF NetWorker
        <4> QED
          BY <4>1, <4>2
      <3>4. Net!Wait(w) => nWorker' = [nWorker EXCEPT ![w] = Net!Idle]
        BY DEF Net!Wait
      <3> QED
        BY <1>8, <3>1, <3>2, <3>3, <3>4
    <2>5. OneBlinks' /\ nWorker' \in [nWorkers -> NetWorker]
      BY <2>2, <2>3, <2>4, NetAside
    <2> QED
      BY <1>1, <2>2, <2>5 DEF NetInv, NetTypes
  <1>9. ASSUME NEW w \in nWorkers, Net!BlinkBegins(w)
        PROVE  NetInv'
    <2>1. nWorker[w] \in NetWorker /\ nWorker[w].pc = "blink" /\ UNCHANGED <<nRadio, nRecent>>
      BY <1>1, <1>9 DEF Net!BlinkBegins
    <2>2. CASE nWorker' = [nWorker EXCEPT ![w].pc = "flip"] /\ UNCHANGED <<nLed, nMixed>>
      <3> DEFINE x == [nWorker[w] EXCEPT !.pc = "flip"]
      <3>1. x \in NetWorker /\ x.pc # "pulse" /\ nWorker' = [nWorker EXCEPT ![w] = x]
        BY <1>1, <2>1, <2>2 DEF NetWorker
      <3>2. OneBlinks' /\ nWorker' \in [nWorkers -> NetWorker]
        BY <2>1, <2>2, <3>1, NetAside
      <3> QED
        BY <1>1, <2>1, <2>2, <3>2 DEF NetInv, NetTypes
    <2>3. CASE /\ nWorker' = [nWorker EXCEPT ![w].pc = "pulse", ![w].prev = nLed]
               /\ nLed' = "none" /\ nMixed' = (nMixed \/ Net!Blinking # {})
      <3> DEFINE x == [nWorker[w] EXCEPT !.pc = "pulse", !.prev = nLed]
      <3>1. x \in NetWorker /\ x.pc = "pulse" /\ x.prev = nLed
        BY <1>1, <2>1 DEF NetWorker
      <3>2. nWorker' = [nWorker EXCEPT ![w] = x]
        BY <1>1, <2>3
      <3>3. nWorker' \in [nWorkers -> NetWorker] /\ nMixed' \in BOOLEAN
        BY <1>1, <2>3, <3>1, <3>2
      <3>4. \A v \in nWorkers : nWorker'[v] = IF v = w THEN x ELSE nWorker[v]
        BY <1>1, <3>2
      <3>5. Net!Blinking' = Net!Blinking \cup {w}
        BY <3>1, <3>4 DEF Net!Blinking
      <3>6. OneBlinks'
        <4>3. \A v \in Net!Blinking' : nWorker'[v].prev \in {"mmc0", "none"}
          BY <1>1, <3>1, <3>4, <3>5 DEF NetInv, OneBlinks, Net!Blinking
        <4> SUFFICES ASSUME ~nMixed'
                     PROVE  Net!Blinking' = {w} /\ nWorker'[w].prev = "mmc0"
          BY <3>5, <4>3 DEF OneBlinks
        <4>1. ~nMixed /\ Net!Blinking = {}
          BY <1>1, <2>3
        <4>2. nLed = "mmc0"
          BY <4>1 DEF NetInv, OneBlinks
        <4> QED
          BY <3>1, <3>4, <3>5, <4>1, <4>2
      <3> QED
        BY <1>1, <2>1, <2>3, <3>3, <3>6 DEF NetInv, NetTypes
    <2> QED
      BY <1>9, <2>2, <2>3 DEF Net!BlinkBegins
  <1>10. ASSUME NEW w \in nWorkers, Net!BlinkEnds(w)
         PROVE  NetInv'
    <2> DEFINE x == [nWorker[w] EXCEPT !.pc = "flip"]
    <2>1. /\ nWorker[w] \in NetWorker /\ nWorker[w].pc = "pulse" /\ nLed' = nWorker[w].prev
          /\ UNCHANGED <<nRadio, nRecent, nMixed>> /\ nWorker' = [nWorker EXCEPT ![w].pc = "flip"]
      BY <1>1, <1>10 DEF Net!BlinkEnds
    <2>2. x \in NetWorker /\ x.pc = "flip" /\ nWorker' = [nWorker EXCEPT ![w] = x]
      BY <1>1, <2>1 DEF NetWorker
    <2>3. nWorker' \in [nWorkers -> NetWorker]
      BY <1>1, <2>2
    <2>4. \A v \in nWorkers : nWorker'[v] = IF v = w THEN x ELSE nWorker[v]
      BY <1>1, <2>2
    <2>5. Net!Blinking' = Net!Blinking \ {w} /\ w \in Net!Blinking
      BY <2>1, <2>2, <2>4 DEF Net!Blinking
    <2>6. NetTypes'
      <3>1. nLed' \in {"mmc0", "none"}
        BY <2>1, <2>5 DEF NetInv, OneBlinks
      <3> QED
        BY <1>1, <2>1, <2>3, <3>1 DEF NetTypes
    <2>7. OneBlinks'
      <3>2. \A v \in Net!Blinking' : nWorker'[v].prev \in {"mmc0", "none"}
        BY <2>4, <2>5 DEF NetInv, OneBlinks, Net!Blinking
      <3> SUFFICES ASSUME ~nMixed'
                   PROVE  Net!Blinking' = {} /\ nLed' = "mmc0"
        BY <3>2 DEF OneBlinks
      <3>1. Net!Blinking = {w} /\ nWorker[w].prev = "mmc0"
        BY <2>1, <2>5 DEF NetInv, OneBlinks
      <3> QED
        BY <2>1, <2>5, <3>1
    <2> QED
      BY <2>6, <2>7 DEF NetInv
  <1> QED
    BY <1>5, <1>6, <1>7, <1>8, <1>9, <1>10 DEF Net!Next

(* What holds of the network in every state.                               *)
LEMMA NetInvariance == Net!Spec => []NetInv
  <1>1. Net!Init => NetInv
    <2> SUFFICES ASSUME Net!Init
                 PROVE  NetInv
      OBVIOUS
    <2>1. /\ nRadio \in {"client", "none"} /\ nLed = "mmc0" /\ nRecent = FALSE /\ nMixed = FALSE
          /\ nWorker \in [nWorkers -> NetWorker] /\ \A w \in nWorkers : nWorker[w].pc # "pulse"
      BY DEF Net!Init, Net!Idle, NetWorker
    <2>2. Net!Blinking = {}
      BY <2>1 DEF Net!Blinking
    <2> QED
      BY <2>1, <2>2 DEF NetInv, NetTypes, OneBlinks
  <1>2. NetInv /\ [Net!Next]_nVars => NetInv'
    BY NetStep
  <1> QED
    BY <1>1, <1>2, PTL DEF Net!Spec, Net!vars, nVars

(* blink (power_button.py): the LED is back in normal use when no blink is *)
(* under way, unless two were at once.                                     *)
THEOREM LedRestored == PartsSpec => []LedIsRestored
  <1>1. NetInv => LedIsRestored
    BY DEF NetInv, OneBlinks, LedIsRestored, Net!LedIsRestored
  <1> QED
    BY <1>1, NetMoves, NetInvariance, PTL

-----------------------------------------------------------------------------
(* The knob.                                                               *)

(* When the parts move, the knob moves as its module says.                 *)
LEMMA DialMoves == PartsSpec => Dial!Spec
  <1>1. PartsInit => Dial!Init
    BY DEF PartsInit
  <1>2. [PartsNext]_allVars => [Dial!Next]_Dial!vars
    BY DEF PartsNext, allVars, kVars, Dial!vars, Dial!dial, Dial!bases, Dial!engine, Dial!shown,
           Dial!button
  <1> QED
    BY <1>1, <1>2, PTL DEF PartsSpec, Dial!Spec

DialTypes ==
  /\ kSteps \in Int /\ kOffset \in Int /\ kTurned \in Nat
  /\ kFreq \in kMinFreq..kMaxFreq /\ kFreqBase \in kMinFreq..kMaxFreq
  /\ kSelecting \in BOOLEAN /\ kCoarse \in BOOLEAN /\ kRetuned \in BOOLEAN

(* Where the dial points to, as a frequency.                               *)
Aim == Dial!Clamp(kFreqBase + (kSteps - kOffset) * Dial!Detent)

(* Until the dial is polled it is no further from the frequency than it    *)
(* was turned.                                                             *)
AimIsNear == ~kSelecting /\ ~kRetuned => Dial!Abs(kFreq - Aim) <= kTurned * Dial!Detent

DialInv == DialTypes /\ AimIsNear

(* A detent is one or ten tenths of a hertz.                               *)
LEMMA Detents ==
  ASSUME NEW x \in Int
  PROVE  /\ Dial!Detent \in {1, 10} /\ x * Dial!Detent \in Int /\ 0 * Dial!Detent = 0
         /\ x >= 0 => x * Dial!Detent >= 0
         /\ (x + 1) * Dial!Detent = x * Dial!Detent + Dial!Detent
         /\ (x - 1) * Dial!Detent = x * Dial!Detent - Dial!Detent
  <1>1. CASE kCoarse
    <2>1. Dial!Detent = 10
      BY <1>1 DEF Dial!Detent
    <2> QED
      BY <2>1
  <1>2. CASE ~kCoarse
    <2>1. Dial!Detent = 1
      BY <1>2 DEF Dial!Detent
    <2> QED
      BY <2>1
  <1> QED
    BY <1>1, <1>2

(* The limits do not tear apart what is near.                              *)
LEMMA ClampedNear ==
  ASSUME Dial!KnobAssumption, NEW f \in Int, NEW g \in Int, NEW x \in Int, NEW t \in Nat, NEW d \in Nat,
         Dial!Abs(x - Dial!Clamp(f)) <= t, g = f + d \/ g = f - d
  PROVE  Dial!Abs(x - Dial!Clamp(g)) <= t + d
  BY DEF Dial!Abs, Dial!Clamp, Dial!KnobAssumption

(* The dial aims at the frequency it is rebased to.                        *)
LEMMA RebasedAims ==
  ASSUME Dial!KnobAssumption, DialTypes, Dial!Rebase, UNCHANGED <<kSteps, kFreq, kTurned>>, kCoarse' \in BOOLEAN
  PROVE  AimIsNear' /\ kOffset' \in Int /\ kFreqBase' \in kMinFreq..kMaxFreq /\ kRetuned' = FALSE
  <1>1. /\ kFreqBase' = kFreq /\ kOffset' = kSteps /\ kRetuned' = FALSE
        /\ kSteps \in Int /\ kTurned \in Nat /\ kFreq \in kMinFreq..kMaxFreq
        /\ kMinFreq \in Nat /\ kMaxFreq \in Nat
    BY DEF Dial!Rebase, DialTypes, Dial!KnobAssumption
  <1>2. Dial!Detent' \in {1, 10}
    BY DEF Dial!Detent
  <1>3. (kFreqBase + (kSteps - kOffset) * Dial!Detent)' = kFreq
    <2>1. CASE Dial!Detent' = 1
      BY <1>1, <2>1
    <2>2. CASE Dial!Detent' = 10
      BY <1>1, <2>2
    <2> QED
      BY <1>2, <2>1, <2>2
  <1>4. Aim' = kFreq
    BY <1>1, <1>3 DEF Aim, Dial!Clamp
  <1>5. Dial!Abs(kFreq' - Aim') = 0
    BY <1>1, <1>4 DEF Dial!Abs
  <1>6. kTurned' * Dial!Detent' >= 0
    <2>1. CASE Dial!Detent' = 1
      BY <1>1, <2>1
    <2>2. CASE Dial!Detent' = 10
      BY <1>1, <2>2
    <2> QED
      BY <1>2, <2>1, <2>2
  <1> QED
    BY <1>1, <1>5, <1>6 DEF AimIsNear

(* A step of the knob keeps the invariant.                                 *)
LEMMA DialStep ==
  ASSUME Dial!KnobAssumption, DialInv, [Dial!Next]_Dial!vars
  PROVE  DialInv'
  <1>1. /\ kSteps \in Int /\ kOffset \in Int /\ kTurned \in Nat
        /\ kFreq \in kMinFreq..kMaxFreq /\ kFreqBase \in kMinFreq..kMaxFreq
        /\ kSelecting \in BOOLEAN /\ kCoarse \in BOOLEAN /\ kRetuned \in BOOLEAN
        /\ kMinFreq \in Nat /\ kMaxFreq \in Nat /\ kMinFreq <= kMaxFreq
    BY DEF DialInv, DialTypes, Dial!KnobAssumption
  <1>2. CASE UNCHANGED <<kSteps, kOffset, kTurned, kFreq, kFreqBase, kSelecting, kCoarse, kRetuned>>
    BY <1>2 DEF DialInv, DialTypes, AimIsNear, Aim, Dial!Clamp, Dial!Detent
  <1>3. CASE Dial!Turn
    <2>1. /\ kSteps' \in {kSteps - 1, kSteps + 1} /\ kTurned' = kTurned + 1
          /\ UNCHANGED <<kOffset, kFreq, kFreqBase, kSelecting, kCoarse, kRetuned>>
      BY <1>3 DEF Dial!Turn, Dial!bases, Dial!engine, Dial!shown
    <2>2. DialTypes'
      BY <1>1, <2>1 DEF DialTypes
    <2>3. AimIsNear'
      <3> DEFINE d == Dial!Detent
                 f == kFreqBase + (kSteps - kOffset) * d
                 g == kFreqBase + (kSteps' - kOffset) * d
      <3> SUFFICES ASSUME ~kSelecting, ~kRetuned
                   PROVE  Dial!Abs(kFreq - Dial!Clamp(g)) <= (kTurned + 1) * d
        <4>1. Dial!Detent' = d
          BY <2>1 DEF Dial!Detent
        <4>2. Dial!Clamp(g) = Aim'
          BY <2>1, <4>1 DEF Aim, Dial!Clamp
        <4> QED
          BY <2>1, <4>1, <4>2 DEF AimIsNear
      <3>1. /\ d \in {1, 10} /\ (kSteps - kOffset) * d \in Int
            /\ ((kSteps - kOffset) + 1) * d = (kSteps - kOffset) * d + d
            /\ ((kSteps - kOffset) - 1) * d = (kSteps - kOffset) * d - d
            /\ kTurned * d \in Int /\ kTurned * d >= 0 /\ (kTurned + 1) * d = kTurned * d + d
        BY <1>1, Detents
      <3>2. kSteps' - kOffset = (kSteps - kOffset) + 1 \/ kSteps' - kOffset = (kSteps - kOffset) - 1
        <4>1. CASE kSteps' = kSteps + 1
          BY <1>1, <4>1
        <4>2. CASE kSteps' = kSteps - 1
          BY <1>1, <4>2
        <4> QED
          BY <2>1, <4>1, <4>2
      <3>3. g = f + d \/ g = f - d
        BY <1>1, <3>1, <3>2
      <3>4. f \in Int /\ g \in Int /\ kFreq \in Int /\ d \in Nat /\ kTurned * d \in Nat
        BY <1>1, <3>1, <3>3
      <3>5. Dial!Abs(kFreq - Dial!Clamp(f)) <= kTurned * d
        BY DEF DialInv, AimIsNear, Aim
      <3>6. Dial!Abs(kFreq - Dial!Clamp(g)) <= kTurned * d + d
        BY <3>3, <3>4, <3>5, ClampedNear
      <3> QED
        BY <3>1, <3>6
    <2> QED
      BY <2>2, <2>3 DEF DialInv
  <1>4. CASE Dial!Poll
    <2>1. /\ UNCHANGED <<kSteps, kOffset, kFreqBase, kSelecting, kCoarse, kRetuned>> /\ kTurned' = 0
          /\ IF kSelecting THEN UNCHANGED kFreq ELSE kFreq' = Aim
      BY <1>4 DEF Dial!Poll, Dial!bases, Aim
    <2>2. Aim \in kMinFreq..kMaxFreq /\ Aim' = Aim
      <3>1. Dial!Detent \in {1, 10} /\ Dial!Detent' = Dial!Detent
        BY <2>1 DEF Dial!Detent
      <3>2. kFreqBase + (kSteps - kOffset) * Dial!Detent \in Int
        BY <1>1, <3>1
      <3> QED
        BY <1>1, <2>1, <3>1, <3>2 DEF Aim, Dial!Clamp
    <2>3. DialTypes'
      BY <1>1, <2>1, <2>2 DEF DialTypes
    <2>4. AimIsNear'
      <3>1. Dial!Detent' \in {1, 10}
        BY DEF Dial!Detent
      <3>2. ~kSelecting => kFreq' - Aim' = 0
        BY <1>1, <2>1, <2>2
      <3>3. kTurned' * Dial!Detent' = 0
        <4>1. CASE Dial!Detent' = 1
          BY <2>1, <4>1
        <4>2. CASE Dial!Detent' = 10
          BY <2>1, <4>2
        <4> QED
          BY <3>1, <4>1, <4>2
      <3> QED
        BY <2>1, <3>2, <3>3 DEF AimIsNear, Dial!Abs
    <2> QED
      BY <2>3, <2>4 DEF DialInv
  <1>5. CASE Dial!Release
    <2>1. Dial!Rebase /\ UNCHANGED <<kSteps, kTurned, kFreq, kSelecting>> /\ kCoarse' \in BOOLEAN
      BY <1>1, <1>5 DEF Dial!Release, Dial!dial, Dial!engine
    <2>2. AimIsNear' /\ kOffset' \in Int /\ kFreqBase' \in kMinFreq..kMaxFreq /\ kRetuned' = FALSE
      BY <2>1, RebasedAims DEF DialInv
    <2> QED
      BY <1>1, <2>1, <2>2 DEF DialInv, DialTypes
  <1>6. CASE Dial!HoldBegins
    <2>1. UNCHANGED <<kSteps, kTurned, kFreq, kCoarse>> /\ kSelecting' = ~kSelecting
      BY <1>6 DEF Dial!HoldBegins, Dial!dial, Dial!engine
    <2>2. CASE kSelecting
      <3>1. Dial!Rebase
        BY <1>6, <2>2 DEF Dial!HoldBegins
      <3>2. AimIsNear' /\ kOffset' \in Int /\ kFreqBase' \in kMinFreq..kMaxFreq /\ kRetuned' = FALSE
        BY <1>1, <2>1, <3>1, RebasedAims DEF DialInv
      <3> QED
        BY <1>1, <2>1, <3>2 DEF DialInv, DialTypes
    <2>3. CASE ~kSelecting
      BY <1>1, <1>6, <2>1, <2>3 DEF Dial!HoldBegins, DialInv, DialTypes, AimIsNear
    <2> QED
      BY <2>2, <2>3
  <1>7. CASE Dial!HoldEnds
    <2>1. Dial!Rebase /\ UNCHANGED <<kSteps, kTurned, kFreq, kSelecting, kCoarse>>
      BY <1>7 DEF Dial!HoldEnds, Dial!dial, Dial!engine, Dial!shown
    <2>2. AimIsNear' /\ kOffset' \in Int /\ kFreqBase' \in kMinFreq..kMaxFreq /\ kRetuned' = FALSE
      BY <1>1, <2>1, RebasedAims DEF DialInv
    <2> QED
      BY <1>1, <2>1, <2>2 DEF DialInv, DialTypes
  <1>8. CASE Dial!ClientRetunes
    <2>1. /\ kFreq' \in {kMinFreq, kMaxFreq} /\ kRetuned' = TRUE
          /\ UNCHANGED <<kSteps, kOffset, kTurned, kFreqBase, kSelecting, kCoarse>>
      BY <1>8 DEF Dial!ClientRetunes, Dial!dial, Dial!bases, Dial!shown
    <2> QED
      BY <1>1, <2>1 DEF DialInv, DialTypes, AimIsNear
  <1>9. CASE Dial!Press \/ Dial!CalmAgain \/ UNCHANGED Dial!vars
    BY <1>2, <1>9 DEF Dial!Press, Dial!CalmAgain, Dial!vars, Dial!dial, Dial!bases, Dial!engine, Dial!shown
  <1> QED
    BY <1>3, <1>4, <1>5, <1>6, <1>7, <1>8, <1>9 DEF Dial!Next

(* RotaryController and its callbacks: a poll moves the frequency by no    *)
(* more than the detents turned since the last one.                        *)
THEOREM FrequencyFollows == PartsSpec => FrequencyFollowsDial
  <1> DEFINE Follows == kFreq' # kFreq /\ kPolled' # kPolled /\ ~kRetuned =>
                          Dial!Abs(kFreq' - kFreq) <= kTurned * Dial!Detent
  <1>1. Dial!KnobAssumption
    BY PartsAssumption DEF PartsAssumption
  <1>2. Dial!Init => DialInv
    <2> SUFFICES ASSUME Dial!Init
                 PROVE  DialInv
      OBVIOUS
    <2>1. /\ kSteps = 0 /\ kOffset = 0 /\ kTurned = 0 /\ kFreqBase = kFreq /\ kFreq \in kMinFreq..kMaxFreq
          /\ kSelecting = FALSE /\ kCoarse = FALSE /\ kRetuned = FALSE
          /\ kMinFreq \in Nat /\ kMaxFreq \in Nat
      BY <1>1 DEF Dial!Init, Dial!KnobAssumption
    <2>2. Dial!Detent = 1
      BY <2>1 DEF Dial!Detent
    <2>3. Aim = kFreq
      BY <2>1, <2>2 DEF Aim, Dial!Clamp
    <2>4. Dial!Abs(kFreq - Aim) = 0 /\ kTurned * Dial!Detent = 0
      BY <2>1, <2>2, <2>3 DEF Dial!Abs
    <2>5. DialTypes
      <3>1. kSteps \in Int /\ kOffset \in Int /\ kTurned \in Nat
        BY <2>1
      <3>2. kFreqBase \in kMinFreq..kMaxFreq /\ kFreq \in kMinFreq..kMaxFreq
        BY <2>1
      <3>3. kSelecting \in BOOLEAN /\ kCoarse \in BOOLEAN /\ kRetuned \in BOOLEAN
        BY <2>1
      <3> QED
        BY <3>1, <3>2, <3>3 DEF DialTypes
    <2> QED
      BY <2>4, <2>5 DEF DialInv, AimIsNear
  <1>3. DialInv /\ [Dial!Next]_Dial!vars => DialInv'
    BY <1>1, DialStep
  <1>4. DialInv /\ [Dial!Next]_Dial!vars => [Follows]_Dial!vars
    <2> SUFFICES ASSUME DialInv, Dial!Next, kFreq' # kFreq, kPolled' # kPolled, ~kRetuned
                 PROVE  Dial!Abs(kFreq' - kFreq) <= kTurned * Dial!Detent
      OBVIOUS
    <2>1. Dial!Poll
      BY DEF Dial!Next, Dial!Turn, Dial!Press, Dial!Release, Dial!CalmAgain, Dial!HoldBegins, Dial!HoldEnds,
             Dial!ClientRetunes, Dial!dial, Dial!engine, Dial!bases, Dial!shown, Dial!button
    <2>2. ~kSelecting /\ kFreq' = Aim
      BY <2>1 DEF Dial!Poll, Aim
    <2>3. Aim \in Int /\ kFreq \in Int
      <3>1. /\ kFreqBase \in Int /\ kSteps \in Int /\ kOffset \in Int /\ kMinFreq \in Int /\ kMaxFreq \in Int
            /\ kFreq \in Int /\ Dial!Detent \in {1, 10}
        BY <1>1 DEF DialInv, DialTypes, Dial!KnobAssumption, Dial!Detent
      <3>2. kFreqBase + (kSteps - kOffset) * Dial!Detent \in Int
        BY <3>1
      <3> QED
        BY <3>1, <3>2 DEF Aim, Dial!Clamp
    <2>4. Dial!Abs(kFreq - Aim) <= kTurned * Dial!Detent
      BY <2>2 DEF DialInv, AimIsNear
    <2>5. Dial!Abs(kFreq - Aim) = Dial!Abs(Aim - kFreq)
      BY <2>3 DEF Dial!Abs
    <2> QED
      BY <2>2, <2>4, <2>5
  <1>5. [][Follows]_Dial!vars => FrequencyFollowsDial
    BY DEF FrequencyFollowsDial, Dial!FrequencyFollowsDial
  <1> QED
    BY <1>2, <1>3, <1>4, <1>5, DialMoves, PTL DEF Dial!Spec

-----------------------------------------------------------------------------
(* The detector of the cycler.                                             *)

(* When the parts move, the schedule and the detector move as their module *)
(* says.                                                                   *)
LEMMA WatchMoves == PartsSpec => Watch!Spec
  <1>1. PartsInit => Watch!Init
    BY DEF PartsInit
  <1>2. [PartsNext]_allVars => [Watch!Next]_Watch!vars
    BY DEF PartsNext, allVars, wVars, Watch!vars
  <1> QED
    BY <1>1, <1>2, PTL DEF PartsSpec, Watch!Spec

StateNames == {"unknown", "rest", "cc_charge", "cv_charge", "discharge"}

Detectors == [candidate : StateNames, count : 0..wDebounce, confirmed : StateNames, inCv : BOOLEAN]

(* The last n snapshots speak for a state, as the detector d reads them.   *)
LastSpeakFor(q, n, d, state) ==
  \A i \in 1..n : Watch!Classify(q[Len(q) + 1 - i], d.inCv) = state

(* The candidate was counted on the snapshots themselves: the last count   *)
(* of them speak for it, as long as it is not the confirmed state.         *)
WatchInv ==
  /\ wDetector \in Detectors /\ wDetector.inCv = (wDetector.confirmed = "cv_charge")
  /\ wRecent \in Seq(wSamples) /\ wDetector.count <= Len(wRecent) /\ Len(wRecent) <= wDebounce
  /\ wDetector.candidate # wDetector.confirmed =>
       LastSpeakFor(wRecent, wDetector.count, wDetector, wDetector.candidate)

(* The window of the last snapshots after one more.                        *)
LEMMA WindowMoves ==
  ASSUME NEW S, NEW D \in Nat \ {0}, NEW q \in Seq(S), Len(q) <= D, NEW s \in S, NEW q2,
         q2 = (IF Len(q) < D THEN q ELSE Tail(q)) \o <<s>>
  PROVE  /\ q2 \in Seq(S) /\ Len(q2) = (IF Len(q) < D THEN Len(q) + 1 ELSE Len(q)) /\ q2[Len(q2)] = s
         /\ \A i \in 2..Len(q2) : q2[Len(q2) + 1 - i] = q[Len(q) + 1 - (i - 1)]
  <1> DEFINE t == IF Len(q) < D THEN q ELSE Tail(q)
  <1>2. t \in Seq(S) /\ Len(t) = (IF Len(q) < D THEN Len(q) ELSE Len(q) - 1)
        /\ \A k \in 1..Len(t) : t[k] = q[IF Len(q) < D THEN k ELSE k + 1]
    OBVIOUS
  <1>3. q2 \in Seq(S) /\ Len(q2) = Len(t) + 1 /\ q2[Len(t) + 1] = s /\ \A k \in 1..Len(t) : q2[k] = t[k]
    BY <1>2
  <1>4. ASSUME NEW i \in 2..Len(q2)
        PROVE  q2[Len(q2) + 1 - i] = q[Len(q) + 1 - (i - 1)]
    <2>1. Len(q2) + 1 - i \in 1..Len(t)
      BY <1>2, <1>3
    <2>2. q2[Len(q2) + 1 - i] = q[IF Len(q) < D THEN Len(q2) + 1 - i ELSE Len(q2) + 1 - i + 1]
      BY <1>2, <1>3, <2>1
    <2>3. (IF Len(q) < D THEN Len(q2) + 1 - i ELSE Len(q2) + 1 - i + 1) = Len(q) + 1 - (i - 1)
      BY <1>2, <1>3
    <2> QED
      BY <2>2, <2>3
  <1> QED
    BY <1>2, <1>3, <1>4

(* A snapshot is classified as one of the states.                          *)
LEMMA ClassifyNames ==
  ASSUME Watch!CycleWatchAssumption, NEW s \in wSamples, NEW inCv \in BOOLEAN
  PROVE  Watch!Classify(s, inCv) \in StateNames
  <1>1. s.level \in {"rest", "dead", "charge", "discharge"}
    BY DEF Watch!CycleWatchAssumption, Watch!Levels
  <1> QED
    BY <1>1 DEF Watch!Classify, StateNames

(* A snapshot is fed: the count grows by what the window holds, and a new  *)
(* state is confirmed only when the window is full of what speaks for it.  *)
LEMMA FeedStep ==
  ASSUME Watch!CycleWatchAssumption, WatchInv, NEW s \in wSamples, Watch!Feed(s)
  PROVE  /\ WatchInv'
         /\ wDetector'.confirmed # wDetector.confirmed =>
              /\ Len(wRecent') = wDebounce
              /\ LastSpeakFor(wRecent', wDebounce, wDetector, wDetector'.confirmed)
  <1> DEFINE d == wDetector
             c == Watch!Classify(s, d.inCv)
             count == IF c # d.candidate THEN 1 ELSE IF d.count < wDebounce THEN d.count + 1 ELSE d.count
  <1>1. /\ wDebounce \in Nat \ {0} /\ d \in Detectors /\ d.inCv = (d.confirmed = "cv_charge")
        /\ wRecent \in Seq(wSamples) /\ d.count <= Len(wRecent) /\ Len(wRecent) <= wDebounce
    BY DEF Watch!CycleWatchAssumption, WatchInv
  <1>2. /\ wDetector' = Watch!Debounced(d, c)
        /\ wRecent' = (IF Len(wRecent) < wDebounce THEN wRecent ELSE Tail(wRecent)) \o <<s>>
    BY DEF Watch!Feed
  <1>3. /\ wRecent' \in Seq(wSamples) /\ wRecent'[Len(wRecent')] = s
        /\ Len(wRecent') = (IF Len(wRecent) < wDebounce THEN Len(wRecent) + 1 ELSE Len(wRecent))
        /\ \A i \in 2..Len(wRecent') : wRecent'[Len(wRecent') + 1 - i] = wRecent[Len(wRecent) + 1 - (i - 1)]
    BY <1>1, <1>2, WindowMoves
  <1>4. /\ count \in 1..wDebounce /\ count <= Len(wRecent') /\ Len(wRecent') <= wDebounce
        /\ Len(wRecent) \in Nat /\ d.count \in Nat
    BY <1>1, <1>3 DEF Detectors
  <1>5. c \in StateNames
    BY <1>1, ClassifyNames DEF Detectors
  <1>6. c # d.confirmed => LastSpeakFor(wRecent', count, d, c)
    <2> SUFFICES ASSUME c # d.confirmed, NEW i \in 1..count
                 PROVE  Watch!Classify(wRecent'[Len(wRecent') + 1 - i], d.inCv) = c
      BY DEF LastSpeakFor
    <2>1. CASE i = 1
      <3>1. Len(wRecent') + 1 - i = Len(wRecent')
        BY <1>4, <2>1
      <3> QED
        BY <1>3, <3>1
    <2>2. CASE i # 1
      <3>1. c = d.candidate /\ i - 1 \in 1..d.count /\ i \in 2..Len(wRecent')
        BY <1>4, <2>2
      <3>2. LastSpeakFor(wRecent, d.count, d, c)
        BY <3>1 DEF WatchInv
      <3>3. Watch!Classify(wRecent[Len(wRecent) + 1 - (i - 1)], d.inCv) = c
        BY <3>1, <3>2 DEF LastSpeakFor
      <3> QED
        BY <1>3, <3>1, <3>3
    <2> QED
      BY <2>1, <2>2
  <1>7. CASE count >= wDebounce /\ c # d.confirmed
    <2>1. wDetector' = [candidate |-> c, count |-> count, confirmed |-> c, inCv |-> c = "cv_charge"]
      BY <1>2, <1>7 DEF Watch!Debounced
    <2>2. wDetector' \in Detectors
      <3>1. (c = "cv_charge") \in BOOLEAN /\ count \in 0..wDebounce
        BY <1>4
      <3> QED
        BY <1>5, <2>1, <3>1, Zenon DEF Detectors
    <2>3. /\ wDetector'.candidate = c /\ wDetector'.confirmed = c /\ wDetector'.count = count
          /\ wDetector'.inCv = (c = "cv_charge")
      BY <2>1
    <2>4. WatchInv'
      BY <1>3, <1>4, <2>2, <2>3 DEF WatchInv
    <2>5. Len(wRecent') = wDebounce /\ count = wDebounce
      BY <1>1, <1>4, <1>7
    <2> QED
      BY <1>6, <1>7, <2>3, <2>4, <2>5
  <1>8. CASE ~(count >= wDebounce /\ c # d.confirmed)
    <2>1. wDetector' = [d EXCEPT !.candidate = c, !.count = count]
      BY <1>2, <1>8 DEF Watch!Debounced
    <2>2. /\ wDetector' \in Detectors /\ wDetector'.confirmed = d.confirmed /\ wDetector'.inCv = d.inCv
          /\ wDetector'.candidate = c /\ wDetector'.count = count
      <3>1. count \in 0..wDebounce
        BY <1>4
      <3> HIDE DEF count, c
      <3>2. wDetector' \in Detectors
        BY <1>1, <1>5, <2>1, <3>1 DEF Detectors
      <3>3. wDetector'.candidate = c /\ wDetector'.count = count
        BY <1>1, <2>1 DEF Detectors
      <3>4. wDetector'.confirmed = d.confirmed /\ wDetector'.inCv = d.inCv
        BY <1>1, <2>1, Zenon DEF Detectors
      <3> QED
        BY <3>2, <3>3, <3>4
    <2>3. c # d.confirmed => LastSpeakFor(wRecent', count, wDetector', c)
      BY <1>6, <2>2 DEF LastSpeakFor
    <2>4. WatchInv'
      BY <1>1, <1>3, <1>4, <2>2, <2>3 DEF WatchInv
    <2> QED
      BY <2>2, <2>4
  <1> QED
    BY <1>7, <1>8

(* A step of the schedule or the detector keeps the invariant.             *)
LEMMA WatchStep ==
  ASSUME Watch!CycleWatchAssumption, WatchInv, [Watch!Next]_Watch!vars
  PROVE  WatchInv'
  <1>1. CASE UNCHANGED <<wDetector, wRecent>>
    BY <1>1 DEF WatchInv, LastSpeakFor
  <1>2. CASE \E s \in wSamples : Watch!Feed(s)
    BY <1>2, FeedStep
  <1> QED
    BY <1>1, <1>2 DEF Watch!Next, Watch!vars, Watch!Load, Watch!Restart, Watch!Stop, Watch!Clock, Watch!Publish

(* What holds of the detector in every state.                              *)
LEMMA WatchInvariance == Watch!Spec => []WatchInv
  <1>1. Watch!CycleWatchAssumption
    BY PartsAssumption DEF PartsAssumption
  <1>2. Watch!Init => WatchInv
    <2> SUFFICES ASSUME Watch!Init
                 PROVE  WatchInv
      OBVIOUS
    <2>1. /\ wDetector = [candidate |-> "unknown", count |-> 0, confirmed |-> "unknown", inCv |-> FALSE]
          /\ wRecent = <<>> /\ wDebounce \in Nat
      BY <1>1 DEF Watch!Init, Watch!CycleWatchAssumption
    <2>2. wDetector \in Detectors /\ wRecent \in Seq(wSamples) /\ Len(wRecent) = 0
      BY <2>1 DEF Detectors, StateNames
    <2>3. wDetector.inCv = (wDetector.confirmed = "cv_charge")
      <3>1. wDetector.inCv = FALSE /\ wDetector.confirmed = "unknown"
        BY <2>1
      <3> QED
        BY <3>1
    <2>4. wDetector.count = 0 /\ wDetector.candidate = wDetector.confirmed
      BY <2>1
    <2>5. wDetector.count <= Len(wRecent) /\ Len(wRecent) <= wDebounce
      BY <2>1, <2>2, <2>4
    <2> QED
      BY <2>2, <2>3, <2>4, <2>5, Zenon DEF WatchInv
  <1>3. WatchInv /\ [Watch!Next]_Watch!vars => WatchInv'
    BY <1>1, WatchStep
  <1> QED
    BY <1>2, <1>3, PTL DEF Watch!Spec

(* CyclerDetector: the confirmed state changes only when each of the last  *)
(* debounce_count snapshots speaks for the new one.                        *)
THEOREM EvidenceForChange == PartsSpec => ChangesOnEvidence
  <1> DEFINE Evident == wDetector'.confirmed # wDetector.confirmed =>
               /\ Len(wRecent') = wDebounce
               /\ \A i \in 1..wDebounce :
                    Watch!Classify(wRecent'[i], wDetector.confirmed = "cv_charge") = wDetector'.confirmed
  <1>1. Watch!CycleWatchAssumption
    BY PartsAssumption DEF PartsAssumption
  <1>2. WatchInv /\ [Watch!Next]_Watch!vars => [Evident]_Watch!vars
    <2> SUFFICES ASSUME WatchInv, Watch!Next, wDetector'.confirmed # wDetector.confirmed
                 PROVE  /\ Len(wRecent') = wDebounce
                        /\ \A i \in 1..wDebounce :
                             Watch!Classify(wRecent'[i], wDetector.confirmed = "cv_charge") = wDetector'.confirmed
      OBVIOUS
    <2>1. PICK s \in wSamples : Watch!Feed(s)
      BY DEF Watch!Next, Watch!Load, Watch!Restart, Watch!Stop, Watch!Clock, Watch!Publish
    <2>2. Len(wRecent') = wDebounce /\ LastSpeakFor(wRecent', wDebounce, wDetector, wDetector'.confirmed)
      BY <1>1, <2>1, FeedStep
    <2>3. wDetector.inCv = (wDetector.confirmed = "cv_charge") /\ wDebounce \in Nat
      BY <1>1 DEF WatchInv, Watch!CycleWatchAssumption
    <2>4. ASSUME NEW i \in 1..wDebounce
          PROVE  Watch!Classify(wRecent'[i], wDetector.confirmed = "cv_charge") = wDetector'.confirmed
      <3> DEFINE j == wDebounce + 1 - i
      <3>1. j \in 1..wDebounce /\ wDebounce + 1 - j = i
        BY <2>3
      <3>2. Watch!Classify(wRecent'[i], wDetector.inCv) = wDetector'.confirmed
        BY <2>2, <3>1 DEF LastSpeakFor
      <3> QED
        BY <2>3, <3>2
    <2> QED
      BY <2>2, <2>4
  <1>3. [][Evident]_Watch!vars => ChangesOnEvidence
    BY DEF ChangesOnEvidence, Watch!ChangesOnEvidence
  <1> QED
    BY <1>2, <1>3, WatchMoves, WatchInvariance, PTL DEF Watch!Spec

-----------------------------------------------------------------------------
(* The search for a Pi.                                                    *)

(* When the parts move, the search moves as its module says.               *)
LEMMA FindMoves == PartsSpec => Find!Spec
  <1>1. PartsInit => Find!Init
    BY DEF PartsInit
  <1>2. [PartsNext]_allVars => [Find!Next]_Find!vars
    BY DEF PartsNext, allVars, sVars, Find!vars, Find!net, Find!ui, Find!conn
  <1> QED
    BY <1>1, <1>2, PTL DEF PartsSpec, Find!Spec

SearchTypes ==
  /\ sSearch = [s \in sSearches |-> sSearch[s]]
  /\ \A s \in sSearches : DOMAIN sSearch[s] = {"at", "by", "found"} /\ sSearch[s].at \in 0..6
  /\ sSteady \in [sSearches -> SUBSET Find!Hosts]

(* What has answered throughout a search answers now, and none of it is an *)
(* address of a kind that the search has probed and left.  The remembered  *)
(* address may change meanwhile: it is no proof of anything.               *)
ProbedInVain(s) ==
  \A i \in 2..5 : i < sSearch[s].at => Find!Candidates(Find!Chain[i]) \cap sSteady[s] = {}

FindInv ==
  /\ SearchTypes
  /\ \A s \in sSearches : sSteady[s] \subseteq Find!Live(sPlace, sWifi) /\ ProbedInVain(s)

(* The kinds of address, in the order in which they are probed.            *)
LEMMA ChainSteps ==
  /\ Find!Chain[2] = "gateway" /\ Find!Chain[3] = "fleet" /\ Find!Chain[4] = "legacy" /\ Find!Chain[5] = "wired"
  /\ DOMAIN Find!Chain = 1..5 /\ Len(Find!Chain) = 5
  BY DEF Find!Chain

(* What is probed, but for the remembered address, never changes.          *)
LEMMA SameCandidates ==
  ASSUME NEW i \in 2..5
  PROVE  Find!Candidates(Find!Chain[i])' = Find!Candidates(Find!Chain[i])
  BY ChainSteps DEF Find!Candidates

(* The network moves: no search does, and what has answered throughout is  *)
(* what still does.                                                        *)
LEMMA NetworkMoves ==
  ASSUME FindInv, NEW pl, NEW w, Find!Move(pl, w), UNCHANGED sSearch
  PROVE  FindInv'
  <1>1. /\ sPlace' = pl /\ sWifi' = w
        /\ \A s \in sSearches : sSteady'[s] = sSteady[s] \cap Find!Live(pl, w)
        /\ sSteady' = [s \in sSearches |-> sSteady[s] \cap Find!Live(pl, w)]
    BY DEF Find!Move
  <1>2. sSteady \in [sSearches -> SUBSET Find!Hosts]
    BY DEF FindInv, SearchTypes
  <1>3. sSteady' \in [sSearches -> SUBSET Find!Hosts]
    BY <1>1, <1>2
  <1>4. Find!Live(sPlace, sWifi)' = Find!Live(pl, w)
    BY <1>1 DEF Find!Live, Find!Answers, Find!Hosts, Find!Gateway
  <1>5. ASSUME NEW s \in sSearches
        PROVE  sSteady'[s] \subseteq Find!Live(sPlace, sWifi)' /\ ProbedInVain(s)'
    <2>1. ProbedInVain(s)
      BY DEF FindInv
    <2>2. ASSUME NEW i \in 2..5, i < sSearch[s].at
          PROVE  Find!Candidates(Find!Chain[i])' \cap sSteady'[s] = {}
      BY <1>1, <2>1, <2>2, SameCandidates DEF ProbedInVain
    <2> QED
      BY <1>1, <1>4, <2>2 DEF ProbedInVain
  <1> QED
    BY <1>3, <1>5 DEF FindInv, SearchTypes

(* One search moves, none of what has answered throughout is lost.         *)
LEMMA SearchMoves ==
  ASSUME FindInv, NEW s \in sSearches, NEW x, UNCHANGED <<sPlace, sWifi>>,
         sSearch' = [sSearch EXCEPT ![s] = x], DOMAIN x = {"at", "by", "found"}, x.at \in 0..6,
         sSteady' \in [sSearches -> SUBSET Find!Hosts],
         \A t \in sSearches \ {s} : sSteady'[t] = sSteady[t],
         sSteady'[s] \subseteq Find!Live(sPlace, sWifi),
         \A i \in 2..5 : i < x.at => Find!Candidates(Find!Chain[i]) \cap sSteady'[s] = {}
  PROVE  FindInv'
  <1>1. sSearch = [t \in sSearches |-> sSearch[t]]
    BY DEF FindInv, SearchTypes
  <1>2. \A t \in sSearches : sSearch'[t] = IF t = s THEN x ELSE sSearch[t]
    BY <1>1
  <1>3. sSearch' = [t \in sSearches |-> sSearch'[t]]
    BY <1>1
  <1>4. SearchTypes'
    BY <1>2, <1>3 DEF FindInv, SearchTypes
  <1>5. Find!Live(sPlace, sWifi)' = Find!Live(sPlace, sWifi)
    BY DEF Find!Live, Find!Answers, Find!Hosts, Find!Gateway
  <1>6. ASSUME NEW t \in sSearches
        PROVE  sSteady'[t] \subseteq Find!Live(sPlace, sWifi)' /\ ProbedInVain(t)'
    <2>1. ASSUME NEW i \in 2..5, i < sSearch'[t].at
          PROVE  Find!Candidates(Find!Chain[i])' \cap sSteady'[t] = {}
      <3>1. CASE t = s
        BY <1>2, <2>1, <3>1, SameCandidates
      <3>2. CASE t # s
        <4>1. i < sSearch[t].at /\ sSteady'[t] = sSteady[t]
          BY <1>2, <2>1, <3>2
        <4>2. ProbedInVain(t)
          BY DEF FindInv
        <4> QED
          BY <4>1, <4>2, SameCandidates DEF ProbedInVain
      <3> QED
        BY <3>1, <3>2
    <2>2. sSteady'[t] \subseteq Find!Live(sPlace, sWifi)
      BY DEF FindInv
    <2> QED
      BY <1>5, <2>1, <2>2 DEF ProbedInVain
  <1> QED
    BY <1>4, <1>6 DEF FindInv

(* A search begins: all that answers now has answered throughout.          *)
LEMMA SearchBegins ==
  ASSUME FindInv, NEW s \in sSearches, NEW by, Find!Begin(s, by), UNCHANGED <<sPlace, sWifi>>
  PROVE  FindInv'
  <1> DEFINE x == [at |-> 1, by |-> by, found |-> None]
  <1>1. sSearch' = [sSearch EXCEPT ![s] = x] /\ sSteady' = [sSteady EXCEPT ![s] = Find!Live(sPlace, sWifi)]
    BY DEF Find!Begin
  <1>2. DOMAIN x = {"at", "by", "found"} /\ x.at = 1
    OBVIOUS
  <1>3. sSteady \in [sSearches -> SUBSET Find!Hosts] /\ Find!Live(sPlace, sWifi) \subseteq Find!Hosts
    BY DEF FindInv, SearchTypes, Find!Live
  <1>4. /\ sSteady' \in [sSearches -> SUBSET Find!Hosts] /\ sSteady'[s] = Find!Live(sPlace, sWifi)
        /\ \A t \in sSearches \ {s} : sSteady'[t] = sSteady[t]
    BY <1>1, <1>3
  <1> HIDE DEF x
  <1>5. x.at \in 0..6 /\ \A i \in 2..5 : i < x.at => Find!Candidates(Find!Chain[i]) \cap sSteady'[s] = {}
    BY <1>2
  <1>6. sSteady'[s] \subseteq Find!Live(sPlace, sWifi)
    BY <1>4
  <1> QED
    BY <1>1, <1>2, <1>4, <1>5, <1>6, SearchMoves

(* A step of the search keeps the invariant.                               *)
LEMMA FindStep ==
  ASSUME FindInv, [Find!Next]_Find!vars
  PROVE  FindInv'
  <1>1. /\ sSearch = [t \in sSearches |-> sSearch[t]] /\ sSteady \in [sSearches -> SUBSET Find!Hosts]
        /\ \A t \in sSearches : DOMAIN sSearch[t] = {"at", "by", "found"} /\ sSearch[t].at \in 0..6
        /\ \A t \in sSearches : sSteady[t] \subseteq Find!Live(sPlace, sWifi) /\ ProbedInVain(t)
    BY DEF FindInv, SearchTypes
  <1>2. CASE UNCHANGED <<sPlace, sWifi, sSearch, sSteady>>
    BY <1>2, SameCandidates DEF FindInv, SearchTypes, ProbedInVain, Find!Live, Find!Answers, Find!Hosts, Find!Gateway
  <1>3. ASSUME NEW s \in sSearches, NEW x, sSearch' = [sSearch EXCEPT ![s] = x],
               UNCHANGED <<sPlace, sWifi, sSteady>>, DOMAIN x = {"at", "by", "found"}, x.at \in 0..6,
               \A i \in 2..5 : i < x.at => Find!Candidates(Find!Chain[i]) \cap sSteady[s] = {}
        PROVE  FindInv'
    BY <1>1, <1>3, SearchMoves
  <1>4. CASE Find!PiMoves \/ Find!LaptopRoams
    <2>1. UNCHANGED sSearch /\ \E pl, w : Find!Move(pl, w)
      BY <1>4 DEF Find!PiMoves, Find!LaptopRoams
    <2> QED
      BY <2>1, NetworkMoves
  <1>5. CASE Find!SystemJoins
    <2>1. UNCHANGED sSearch
      BY <1>5 DEF Find!SystemJoins
    <2>2. CASE Find!Move(sPlace, sDue)
      BY <2>1, <2>2, NetworkMoves
    <2> QED
      BY <1>2, <1>5, <2>1, <2>2 DEF Find!SystemJoins
  <1>6. CASE Find!OpenDialog \/ Find!SearchAgain \/ Find!FlipToClient
    <2>1. UNCHANGED <<sPlace, sWifi>> /\ \E s \in sSearches : \E by : Find!Begin(s, by)
      BY <1>6 DEF Find!OpenDialog, Find!SearchAgain, Find!FlipToClient, Find!net
    <2> QED
      BY <2>1, SearchBegins
  <1>7. ASSUME NEW s \in sSearches, Find!ProbeHits(s)
        PROVE  FindInv'
    <2>1. PICK h : sSearch' = [sSearch EXCEPT ![s].found = h]
      BY <1>7 DEF Find!ProbeHits
    <2> DEFINE x == [sSearch[s] EXCEPT !.found = h]
    <2>2. sSearch' = [sSearch EXCEPT ![s] = x]
      BY <1>1, <2>1
    <2>3. DOMAIN x = {"at", "by", "found"} /\ x.at = sSearch[s].at
      BY <1>1
    <2>4. UNCHANGED <<sPlace, sWifi, sSteady>>
      BY <1>7 DEF Find!ProbeHits, Find!net
    <2> HIDE DEF x
    <2> QED
      BY <1>1, <1>3, <2>2, <2>3, <2>4 DEF ProbedInVain
  <1>8. ASSUME NEW s \in sSearches, Find!ProbeMisses(s)
        PROVE  FindInv'
    <2> DEFINE n == sSearch[s].at
               x == [sSearch[s] EXCEPT !.at = n + 1]
    <2>1. UNCHANGED <<sPlace, sWifi, sSteady>> /\ n \in 1..5 /\ sSearch' = [sSearch EXCEPT ![s].at = n + 1]
      BY <1>8, ChainSteps DEF Find!ProbeMisses, Find!Probing, Find!net
    <2>2. sSearch' = [sSearch EXCEPT ![s] = x]
      BY <1>1, <2>1
    <2>3. DOMAIN x = {"at", "by", "found"} /\ x.at = n + 1
      BY <1>1
    <2>4. Find!Candidates(Find!Chain[n]) \cap sSteady[s] = {}
      <3> SUFFICES ASSUME NEW h, h \in Find!Candidates(Find!Chain[n]), h \in sSteady[s]
                   PROVE  FALSE
        OBVIOUS
      <3>1. Find!Answers(sPlace, sWifi, h) = None
        BY <1>8 DEF Find!ProbeMisses, Find!Reaches
      <3>2. h \in Find!Live(sPlace, sWifi)
        BY <1>1
      <3> QED
        BY <3>1, <3>2 DEF Find!Live
    <2>5. ASSUME NEW i \in 2..5, i < n + 1
          PROVE  Find!Candidates(Find!Chain[i]) \cap sSteady[s] = {}
      <3>1. i = n \/ i < n
        BY <2>1, <2>5
      <3> QED
        BY <1>1, <2>4, <3>1 DEF ProbedInVain
    <2> HIDE DEF x, n
    <2>6. n + 1 \in 0..6
      BY <2>1
    <2> QED
      BY <1>3, <2>1, <2>2, <2>3, <2>5, <2>6
  <1>9. ASSUME NEW s \in sSearches, Find!AppHears(s) \/ Find!DialogHears(s)
        PROVE  FindInv'
    <2> DEFINE x == [at |-> 0, by |-> Find!App, found |-> None]
    <2>1. UNCHANGED <<sPlace, sWifi, sSteady>> /\ sSearch' = [sSearch EXCEPT ![s] = x]
      BY <1>9 DEF Find!AppHears, Find!DialogHears, Find!Done, Find!net
    <2>2. DOMAIN x = {"at", "by", "found"} /\ x.at = 0
      OBVIOUS
    <2> HIDE DEF x
    <2>3. x.at \in 0..6 /\ \A i \in 2..5 : i < x.at => Find!Candidates(Find!Chain[i]) \cap sSteady[s] = {}
      BY <2>2
    <2> QED
      BY <1>3, <2>1, <2>2, <2>3
  <1>10. ASSUME NEW j \in sJoins, Find!Associate(j)
         PROVE  FindInv'
    BY <1>10, NetworkMoves DEF Find!Associate
  <1>11. ASSUME NEW j \in sJoins, \/ Find!StartJoin(j) \/ Find!Enqueue(j) \/ Find!AssociateFails(j)
                                  \/ Find!GatewayAnswers(j) \/ Find!JoinEnds(j)
         PROVE  FindInv'
    BY <1>2, <1>11 DEF Find!StartJoin, Find!Enqueue, Find!AssociateFails, Find!GatewayAnswers, Find!JoinEnds, Find!net
  <1>12. CASE \/ Find!ConnectionLost \/ Find!Reconnected \/ Find!EnterAddress \/ Find!Cancel \/ Find!OpenPicker
              \/ Find!Prescan \/ Find!PickerScan \/ Find!FlipToAp \/ \E h \in Find!Hosts : Find!ConnectEnds(h)
    BY <1>2, <1>12 DEF Find!ConnectionLost, Find!Reconnected, Find!EnterAddress, Find!Cancel, Find!OpenPicker,
                       Find!Prescan, Find!PickerScan, Find!FlipToAp, Find!ConnectEnds, Find!net
  <1>13. CASE UNCHANGED Find!vars
    BY <1>2, <1>13 DEF Find!vars, Find!net
  <1> QED
    BY <1>4, <1>5, <1>6, <1>7, <1>8, <1>9, <1>10, <1>11, <1>12, <1>13 DEF Find!Next

(* What holds of the searches in every state.                              *)
LEMMA FindInvariance == Find!Spec => []FindInv
  <1>1. Find!Init => FindInv
    <2> SUFFICES ASSUME Find!Init
                 PROVE  FindInv
      OBVIOUS
    <2>1. PICK s \in sSearches :
            /\ sSearch = [t \in sSearches |-> [at |-> IF t = s THEN 1 ELSE 0, by |-> Find!App, found |-> None]]
            /\ sSteady = [t \in sSearches |-> IF t = s THEN Find!Live(sPlace, sWifi) ELSE {}]
      BY DEF Find!Init
    <2>2. \A t \in sSearches : DOMAIN sSearch[t] = {"at", "by", "found"} /\ sSearch[t].at \in {0, 1}
      BY <2>1
    <2>3. Find!Live(sPlace, sWifi) \subseteq Find!Hosts
      BY DEF Find!Live
    <2>4. sSteady \in [sSearches -> SUBSET Find!Hosts] /\ \A t \in sSearches : sSteady[t] \subseteq Find!Live(sPlace, sWifi)
      BY <2>1, <2>3
    <2>5. sSearch = [t \in sSearches |-> sSearch[t]]
      BY <2>1
    <2>6. SearchTypes
      BY <2>2, <2>4, <2>5 DEF SearchTypes
    <2>7. \A t \in sSearches : ProbedInVain(t)
      BY <2>2 DEF ProbedInVain
    <2> QED
      BY <2>4, <2>6, <2>7 DEF FindInv
  <1>2. FindInv /\ [Find!Next]_Find!vars => FindInv'
    BY FindStep
  <1> QED
    BY <1>1, <1>2, PTL DEF Find!Spec

(* discover (discovery.py): a search that ends without a server missed     *)
(* none that could be reached all the while.                               *)
THEOREM SearchMissesNone == PartsSpec => []NothingMissed
  <1>1. FindInv => NothingMissed
    <2> SUFFICES ASSUME FindInv, NEW s \in sSearches, sSearch[s].at = Len(Find!Chain) + 1, NEW h \in sSteady[s]
                 PROVE  FALSE
      BY DEF NothingMissed, Find!NothingMissed
    <2>1. \A i \in 2..5 : Find!Candidates(Find!Chain[i]) \cap sSteady[s] = {}
      BY ChainSteps DEF FindInv, ProbedInVain
    <2>2. h \in Find!Hosts
      BY DEF FindInv, SearchTypes
    <2>3. CASE h = Find!Gateway
      BY <2>1, <2>3, ChainSteps DEF Find!Candidates
    <2>4. CASE h \in sPis
      <3>1. sKind[h] \in {"fleet", "legacy", "wired"}
        BY <2>4, PartsAssumption DEF PartsAssumption, Find!PiFinderAssumption
      <3>2. h \in Find!Candidates(sKind[h])
        BY <2>4, <3>1 DEF Find!Candidates
      <3> QED
        BY <2>1, <3>1, <3>2, ChainSteps
    <2> QED
      BY <2>2, <2>3, <2>4 DEF Find!Hosts
  <1> QED
    BY <1>1, FindMoves, FindInvariance, PTL

-----------------------------------------------------------------------------
(* The switching of the MicroPython firmware.                              *)

(* When the parts move, the firmware moves as its module says.             *)
LEMMA MicroMoves == PartsSpec => Micro!Spec
  <1>1. PartsInit => Micro!Init
    BY DEF PartsInit
  <1>2. [PartsNext]_allVars => [Micro!Next]_Micro!vars
    BY DEF PartsNext, allVars, mVars, Micro!vars
  <1> QED
    BY <1>1, <1>2, PTL DEF PartsSpec, Micro!Spec

MicroSteps ==
  [do : {"disarm", "write", "swap", "fetch", "arm", "next", "store"}, pin : Micro!Fets, high : BOOLEAN,
   prog : Seq(Micro!States)]

Firmwares ==
  {f \in [pins : Micro!States, seq : Seq(Micro!States), idx : Nat, period : Nat, running : BOOLEAN] :
     f.seq # <<>> => f.idx < Len(f.seq)}

(* The number of steps left.                                               *)
Count(todo) == Len(todo)

(* The step to take after which r others are left.                         *)
Left(todo, r) == todo[Count(todo) - r]

(* The steps that leave m to m + 3 others write the pins of a state q, and *)
(* those that were taken have written theirs.                              *)
Writing(todo, q, m) ==
  \A i \in 1..4 : 4 - i + m < Count(todo) => Left(todo, 4 - i + m) = Micro!Write(Micro!PinOrder[i], q)
Written(todo, pins, q, m) ==
  \A i \in 1..4 : 4 - i + m >= Count(todo) => (Micro!PinOrder[i] \in pins <=> Micro!PinOrder[i] \in q)

Together == mFw.seq = mOps.seq /\ mFw.running = mOps.running

(* What the main thread is at, and what it will leave behind: a timer that *)
(* runs may write what it likes, one that is stopped writes nothing.       *)
Quiet ==
  /\ mTodo = <<>> /\ Together
  /\ ~mFw.running => \/ mFw.pins = mOps.pins
                     \/ mFw.seq # <<>> /\ mFw.pins = mFw.seq[mFw.idx + 1]
  /\ ~mAlive => mFw.pins = {} /\ ~mFw.running

Halting ==
  /\ mTodo # <<>> /\ Count(mTodo) <= 5 /\ (Count(mTodo) = 5 => Left(mTodo, 4).do = "disarm") /\ Writing(mTodo, {}, 0)
  /\ Count(mTodo) < 5 => ~mFw.running /\ Written(mTodo, mFw.pins, {}, 0)
  /\ mFw.seq = mOps.seq /\ ~mOps.running /\ mOps.pins = {}

Swapping ==
  /\ mAlive /\ mTodo # <<>> /\ Count(mTodo) <= 6 /\ (Count(mTodo) = 6 => Left(mTodo, 5).do = "disarm") /\ Writing(mTodo, {}, 1)
  /\ Left(mTodo, 0) = Micro!Swap(mOps.seq)
  /\ Count(mTodo) < 6 => ~mFw.running /\ Written(mTodo, mFw.pins, {}, 1)
  /\ ~mOps.running /\ mOps.pins = {}

Setting ==
  /\ mAlive /\ mTodo # <<>> /\ Count(mTodo) <= 9 /\ (Count(mTodo) = 9 => Left(mTodo, 8).do = "disarm")
  /\ Writing(mTodo, {}, 4) /\ Writing(mTodo, mOps.pins, 0)
  /\ Count(mTodo) < 9 => ~mFw.running /\ Written(mTodo, mFw.pins, mOps.pins, 0)
  /\ mFw.seq = mOps.seq /\ ~mOps.running

Starting ==
  /\ mAlive /\ Count(mTodo) = 2 /\ Left(mTodo, 1).do = "fetch" /\ Left(mTodo, 0).do = "arm"
  /\ mFw.seq = mOps.seq /\ mOps.running

Arming ==
  /\ mAlive /\ mTodo # <<>> /\ Count(mTodo) <= 5 /\ Left(mTodo, 0).do = "arm"
  /\ \A r \in 1..4 : r < Count(mTodo) => Left(mTodo, r).do = "write"
  /\ mFw.seq = mOps.seq /\ mOps.running

Stepping ==
  /\ mAlive /\ mTodo # <<>> /\ Count(mTodo) <= 3 /\ Together /\ mFw.seq # <<>>
  /\ Count(mTodo) = 3 => Left(mTodo, 2).do = "next"
  /\ Count(mTodo) >= 2 => Left(mTodo, 1).do = "store"
  /\ Count(mTodo) = 2 => mHeld < Len(mFw.seq)
  /\ Left(mTodo, 0).do = "fetch"

Showing ==
  /\ mAlive /\ mTodo # <<>> /\ Count(mTodo) <= 4 /\ Together
  /\ \E q \in Micro!States :
       /\ Writing(mTodo, q, 0)
       /\ ~mFw.running => mFw.seq # <<>> /\ q = mFw.seq[mFw.idx + 1] /\ Written(mTodo, mFw.pins, q, 0)

MicroTypes ==
  /\ mFw \in Firmwares /\ mOps \in Firmwares /\ mFw.period = mOps.period
  /\ mArmed = mFw.running /\ mAlive \in BOOLEAN /\ mHeld \in Nat /\ mTodo \in Seq(MicroSteps)

MicroInv ==
  /\ MicroTypes
  /\ Quiet \/ Halting \/ Swapping \/ Setting \/ Starting \/ Arming \/ Stepping \/ Showing

(* The step that writes a pin.                                             *)
LEMMA WriteShape ==
  ASSUME NEW pin \in Micro!Fets, NEW q, NEW s, s = Micro!Write(pin, q)
  PROVE  s \in MicroSteps /\ s.do = "write" /\ s.pin = pin /\ (s.high <=> pin \in q)
  <1> DEFINE h == pin \in q
  <1>0. <<>> \in Seq(Micro!States)
    OBVIOUS
  <1>1. h \in BOOLEAN /\ (h <=> pin \in q)
    OBVIOUS
  <1>2. s = [Micro!Step("write") EXCEPT !.pin = pin, !.high = h]
    BY DEF Micro!Write
  <1> HIDE DEF h
  <1>3. s = [do |-> "write", pin |-> pin, high |-> h, prog |-> <<>>]
    BY <1>2 DEF Micro!Step
  <1>4. s \in MicroSteps
    BY <1>0, <1>1, <1>3 DEF MicroSteps
  <1> QED
    BY <1>1, <1>3, <1>4

(* The other steps.                                                        *)
LEMMA StepShapes ==
  /\ \A op \in {"disarm", "fetch", "arm", "next", "store"} :
       Micro!Step(op) \in MicroSteps /\ Micro!Step(op).do = op
  /\ \A p \in Seq(Micro!States) : /\ Micro!Swap(p) \in MicroSteps /\ Micro!Swap(p).do = "swap"
                                  /\ Micro!Swap(p).prog = p
  <1>1. "P1" \in Micro!Fets /\ <<>> \in Seq(Micro!States)
    BY DEF Micro!Fets
  <1>2. \A op \in {"disarm", "fetch", "arm", "next", "store"} :
          Micro!Step(op) \in MicroSteps /\ Micro!Step(op).do = op
    BY <1>1 DEF Micro!Step, MicroSteps
  <1>4. ASSUME NEW p \in Seq(Micro!States)
        PROVE  Micro!Swap(p) \in MicroSteps /\ Micro!Swap(p).do = "swap" /\ Micro!Swap(p).prog = p
    BY <1>1 DEF Micro!Swap, Micro!Step, MicroSteps
  <1> QED
    BY <1>2, <1>4

(* The order of the pins.                                                  *)
LEMMA Pins ==
  /\ Micro!PinOrder[1] = "P1" /\ Micro!PinOrder[2] = "P2" /\ Micro!PinOrder[3] = "N1" /\ Micro!PinOrder[4] = "N2"
  /\ \A i \in 1..4 : Micro!PinOrder[i] \in Micro!Fets
  /\ \A i, j \in 1..4 : Micro!PinOrder[i] = Micro!PinOrder[j] => i = j
  /\ \A x \in Micro!Fets : \E i \in 1..4 : x = Micro!PinOrder[i]
  <1>1. /\ Micro!PinOrder[1] = "P1" /\ Micro!PinOrder[2] = "P2"
        /\ Micro!PinOrder[3] = "N1" /\ Micro!PinOrder[4] = "N2"
    BY DEF Micro!PinOrder
  <1>2. 1..4 = {1, 2, 3, 4}
    OBVIOUS
  <1> QED
    BY <1>1, <1>2 DEF Micro!Fets

(* The writes of a state are four steps.                                   *)
LEMMA WritesAre ==
  ASSUME NEW q
  PROVE  /\ Micro!Writes(q) \in Seq(MicroSteps) /\ Len(Micro!Writes(q)) = 4
         /\ \A i \in 1..4 : Micro!Writes(q)[i] = Micro!Write(Micro!PinOrder[i], q)
  <1>1. Micro!Writes(q) = [i \in 1..4 |-> Micro!Write(Micro!PinOrder[i], q)]
    BY DEF Micro!Writes
  <1>2. \A i \in 1..4 : Micro!Write(Micro!PinOrder[i], q) \in MicroSteps
    BY Pins, WriteShape
  <1>3. Micro!Writes(q) \in Seq(MicroSteps)
    BY <1>1, <1>2, IsASeq
  <1> QED
    BY <1>1, <1>3

(* All four written, the pins show the state.                              *)
LEMMA AllWritten ==
  ASSUME NEW q \in Micro!States, NEW pins \in Micro!States,
         \A i \in 1..4 : Micro!PinOrder[i] \in pins <=> Micro!PinOrder[i] \in q
  PROVE  pins = q
  <1>1. \A x \in Micro!Fets : x \in pins <=> x \in q
    BY Pins
  <1>2. pins \subseteq Micro!Fets /\ q \subseteq Micro!Fets
    BY DEF Micro!States
  <1> QED
    BY <1>1, <1>2

(* A state advanced is a state, of the same cycle.                         *)
LEMMA AdvanceKeeps ==
  ASSUME NEW f \in Firmwares
  PROVE  /\ Micro!Advance(f) \in Firmwares
         /\ Micro!Advance(f).seq = f.seq /\ Micro!Advance(f).period = f.period
         /\ Micro!Advance(f).running = f.running
  <1> DEFINE i == Micro!NextIdx(f.idx, Len(f.seq))
  <1>1. /\ f \in [pins : Micro!States, seq : Seq(Micro!States), idx : Nat, period : Nat, running : BOOLEAN]
        /\ f.seq # <<>> => f.idx < Len(f.seq)
    BY DEF Firmwares
  <1>2. CASE f.seq = <<>>
    BY <1>2 DEF Micro!Advance
  <1>3. CASE f.seq # <<>>
    <2>1. i \in Nat /\ i < Len(f.seq)
      BY <1>1, <1>3 DEF Micro!NextIdx
    <2> HIDE DEF i
    <2>2. f.seq[i + 1] \in Micro!States
      BY <1>1, <2>1
    <2>3. Micro!Advance(f) = [f EXCEPT !.idx = i, !.pins = f.seq[i + 1]]
      BY <1>3 DEF Micro!Advance, i
    <2>4. Micro!Advance(f) \in [pins : Micro!States, seq : Seq(Micro!States), idx : Nat, period : Nat, running : BOOLEAN]
      BY <1>1, <2>1, <2>2, <2>3
    <2>5. /\ Micro!Advance(f).seq = f.seq /\ Micro!Advance(f).period = f.period
          /\ Micro!Advance(f).running = f.running /\ Micro!Advance(f).idx = i
      BY <1>1, <2>3
    <2> QED
      BY <2>1, <2>4, <2>5 DEF Firmwares
  <1> QED
    BY <1>2, <1>3

(* NextIdx stays within the cycle.                                         *)
LEMMA NextWithin ==
  ASSUME NEW f \in Firmwares, f.seq # <<>>
  PROVE  Micro!NextIdx(f.idx, Len(f.seq)) \in Nat /\ Micro!NextIdx(f.idx, Len(f.seq)) < Len(f.seq)
  BY DEF Firmwares, Micro!NextIdx

(* A timer tick keeps the invariant.                                       *)
LEMMA TimerStep ==
  ASSUME MicroInv, Micro!TimerTick
  PROVE  MicroInv'
  <1>1. /\ mFw \in Firmwares /\ mOps \in Firmwares /\ mFw.period = mOps.period
        /\ mArmed = mFw.running /\ mFw.running /\ UNCHANGED <<mArmed, mTodo, mHeld, mAlive>>
        /\ mFw' = Micro!Advance(mFw) /\ mOps' = Micro!Tick(mOps)
    BY DEF MicroInv, MicroTypes, Micro!TimerTick
  <1>2. /\ mFw' \in Firmwares /\ mFw'.seq = mFw.seq /\ mFw'.period = mFw.period /\ mFw'.running = mFw.running
    BY <1>1, AdvanceKeeps
  <1>3. /\ mOps' \in Firmwares /\ mOps'.seq = mOps.seq /\ mOps'.period = mOps.period
        /\ mOps'.running = mOps.running /\ (~mOps.running => mOps'.pins = mOps.pins)
    <2>1. CASE mOps.running
      BY <1>1, <2>1, AdvanceKeeps DEF Micro!Tick
    <2>2. CASE ~mOps.running
      BY <1>1, <2>2 DEF Micro!Tick
    <2> QED
      BY <2>1, <2>2
  <1>4. MicroTypes'
    BY <1>1, <1>2, <1>3 DEF MicroInv, MicroTypes
  <1>5. CASE Quiet
    BY <1>1, <1>2, <1>3, <1>4, <1>5 DEF MicroInv, Quiet, Together
  <1>7. CASE Halting
    BY <1>1, <1>2, <1>3, <1>4, <1>7 DEF MicroInv, Halting, Left, Writing
  <1>8. CASE Swapping
    BY <1>1, <1>2, <1>3, <1>4, <1>8 DEF MicroInv, Swapping, Left, Writing
  <1>9. CASE Setting
    BY <1>1, <1>2, <1>3, <1>4, <1>9 DEF MicroInv, Setting, Left, Writing
  <1>10. CASE Starting
    BY <1>1, <1>2, <1>3, <1>4, <1>10 DEF MicroInv, Starting, Left
  <1>11. CASE Arming
    BY <1>1, <1>2, <1>3, <1>4, <1>11 DEF MicroInv, Arming, Left
  <1>12. CASE Stepping
    BY <1>1, <1>2, <1>3, <1>4, <1>12 DEF MicroInv, Stepping, Together, Left
  <1>13. CASE Showing
    BY <1>1, <1>2, <1>3, <1>4, <1>13 DEF MicroInv, Showing, Together, Left, Writing
  <1> QED
    BY <1>5, <1>7, <1>8, <1>9, <1>10, <1>11, <1>12, <1>13 DEF MicroInv

(* The steps are counted.                                                  *)
LEMMA Counts ==
  ASSUME NEW t \in Seq(MicroSteps)
  PROVE  Count(t) \in Nat /\ (t # <<>> => Count(t) > 0) /\ (Count(t) > 0 => t # <<>>)
  BY EmptySeq DEF Count

(* The main thread takes a step and the others are left.                   *)
LEMMA TakesStep ==
  ASSUME mTodo \in Seq(MicroSteps), mTodo # <<>>, Micro!MainStep, Left(mTodo, Count(mTodo) - 1).do # "fetch"
  PROVE  /\ mTodo' \in Seq(MicroSteps) /\ Count(mTodo') = Count(mTodo) - 1 /\ Count(mTodo) \in Nat \ {0}
         /\ Head(mTodo) = Left(mTodo, Count(mTodo) - 1) /\ Head(mTodo) \in MicroSteps
         /\ \A r \in 0..(Count(mTodo) - 2) : Left(mTodo', r) = Left(mTodo, r)
         /\ UNCHANGED <<mAlive, mOps>>
  <1>1. Count(mTodo) \in Nat \ {0} /\ Count(mTodo) - (Count(mTodo) - 1) = 1
    BY Counts
  <1>2. Head(mTodo) = mTodo[1]
    OBVIOUS
  <1>3. Head(mTodo) = Left(mTodo, Count(mTodo) - 1) /\ Head(mTodo) \in MicroSteps
    BY <1>1, <1>2 DEF Left
  <1>4. mTodo' = <<>> \o Tail(mTodo) /\ UNCHANGED <<mAlive, mOps>>
    BY <1>3 DEF Micro!MainStep
  <1>5. /\ Tail(mTodo) \in Seq(MicroSteps) /\ Len(Tail(mTodo)) = Count(mTodo) - 1
        /\ \A i \in 1..(Count(mTodo) - 1) : Tail(mTodo)[i] = mTodo[i + 1]
    BY <1>1 DEF Count
  <1>6. mTodo' = Tail(mTodo)
    BY <1>4, <1>5
  <1>7. ASSUME NEW r \in 0..(Count(mTodo) - 2)
        PROVE  Left(mTodo', r) = Left(mTodo, r)
    <2>1. (Count(mTodo) - 1) - r \in 1..(Count(mTodo) - 1) /\ ((Count(mTodo) - 1) - r) + 1 = Count(mTodo) - r
      BY <1>1
    <2> QED
      BY <1>5, <1>6, <2>1 DEF Left, Count
  <1>8. Count(mTodo') = Count(mTodo) - 1
    BY <1>5, <1>6 DEF Count
  <1> QED
    BY <1>1, <1>3, <1>4, <1>5, <1>6, <1>7, <1>8

(* A pin is written.                                                       *)
LEMMA WritesPin ==
  ASSUME MicroTypes, mTodo # <<>>, Micro!MainStep, Left(mTodo, Count(mTodo) - 1).do = "write"
  PROVE  /\ MicroTypes' /\ mFw'.seq = mFw.seq /\ mFw'.idx = mFw.idx /\ mFw'.running = mFw.running
         /\ mFw'.pins = IF Left(mTodo, Count(mTodo) - 1).high THEN mFw.pins \cup {Left(mTodo, Count(mTodo) - 1).pin}
                                                     ELSE mFw.pins \ {Left(mTodo, Count(mTodo) - 1).pin}
  <1> DEFINE s == Left(mTodo, Count(mTodo) - 1)
             p == IF s.high THEN mFw.pins \cup {s.pin} ELSE mFw.pins \ {s.pin}
  <1>1. /\ mTodo' \in Seq(MicroSteps) /\ Head(mTodo) = s /\ s \in MicroSteps /\ UNCHANGED <<mAlive, mOps>>
    BY TakesStep DEF MicroTypes
  <1>2. /\ mFw' = [mFw EXCEPT !.pins = IF s.high THEN @ \cup {s.pin} ELSE @ \ {s.pin}]
        /\ mHeld' = mHeld /\ mArmed' = mArmed
    BY <1>1 DEF Micro!MainStep
  <1>3. mFw \in Firmwares
    BY DEF MicroTypes
  <1>4. mFw' = [mFw EXCEPT !.pins = p]
    BY <1>2, <1>3 DEF Firmwares
  <1>5. p \in Micro!States
    BY <1>1, <1>3 DEF Firmwares, MicroSteps, Micro!States
  <1> HIDE DEF p, s
  <1>6. /\ mFw' \in Firmwares /\ mFw'.seq = mFw.seq /\ mFw'.idx = mFw.idx /\ mFw'.running = mFw.running
        /\ mFw'.pins = p /\ mFw'.period = mFw.period
    BY <1>3, <1>4, <1>5 DEF Firmwares
  <1> QED
    BY <1>1, <1>2, <1>6 DEF MicroTypes, p, s

(* The steps left behind are still those that write a state.               *)
LEMMA StillWriting ==
  ASSUME MicroTypes, mTodo # <<>>, Micro!MainStep, Left(mTodo, Count(mTodo) - 1).do # "fetch",
         NEW q, NEW m \in Nat, Writing(mTodo, q, m)
  PROVE  Writing(mTodo', q, m)
  <1>1. Count(mTodo') = Count(mTodo) - 1 /\ Count(mTodo) \in Nat /\ \A r \in 0..(Count(mTodo) - 2) : Left(mTodo', r) = Left(mTodo, r)
    BY TakesStep DEF MicroTypes
  <1>2. ASSUME NEW i \in 1..4, 4 - i + m < Count(mTodo')
        PROVE  Left(mTodo', 4 - i + m) = Micro!Write(Micro!PinOrder[i], q)
    <2>1. 4 - i + m \in 0..(Count(mTodo) - 2) /\ 4 - i + m < Count(mTodo)
      BY <1>1, <1>2
    <2>2. Left(mTodo, 4 - i + m) = Micro!Write(Micro!PinOrder[i], q)
      BY <2>1 DEF Writing
    <2> QED
      BY <1>1, <2>1, <2>2
  <1>3. \A i \in 1..4 : 4 - i + m < Count(mTodo') => Left(mTodo', 4 - i + m) = Micro!Write(Micro!PinOrder[i], q)
    BY <1>2
  <1> QED
    BY <1>3 DEF Writing

(* The next pin of a state is written.                                     *)
LEMMA WritesNext ==
  ASSUME MicroTypes, Micro!MainStep, NEW q, NEW m \in Nat, Writing(mTodo, q, m),
         m < Count(mTodo), Count(mTodo) <= m + 4
  PROVE  /\ MicroTypes' /\ mFw'.seq = mFw.seq /\ mFw'.idx = mFw.idx /\ mFw'.running = mFw.running
         /\ Count(mTodo') = Count(mTodo) - 1 /\ \A r \in 0..(Count(mTodo) - 2) : Left(mTodo', r) = Left(mTodo, r)
         /\ UNCHANGED <<mAlive, mOps>> /\ Writing(mTodo', q, m)
         /\ \A q2 : \A m2 \in Nat : Writing(mTodo, q2, m2) => Writing(mTodo', q2, m2)
         /\ Written(mTodo, mFw.pins, q, m) => Written(mTodo', mFw'.pins, q, m)
  <1> DEFINE k == 5 + m - Count(mTodo)
  <1>0. Count(mTodo) \in Nat /\ mTodo # <<>>
    BY Counts DEF MicroTypes
  <1>1. k \in 1..4 /\ 4 - k + m = Count(mTodo) - 1 /\ 4 - k + m < Count(mTodo) /\ mTodo # <<>> /\ Count(mTodo) \in Nat
    BY <1>0
  <1>2. Left(mTodo, Count(mTodo) - 1) = Micro!Write(Micro!PinOrder[k], q)
    <2>1. Left(mTodo, 4 - k + m) = Micro!Write(Micro!PinOrder[k], q)
      BY <1>1 DEF Writing
    <2> QED
      BY <1>1, <2>1
  <1> HIDE DEF k
  <1>3. /\ Left(mTodo, Count(mTodo) - 1).do = "write" /\ Left(mTodo, Count(mTodo) - 1).pin = Micro!PinOrder[k]
        /\ Left(mTodo, Count(mTodo) - 1).high <=> Micro!PinOrder[k] \in q
    <2>1. Micro!PinOrder[k] \in Micro!Fets
      BY <1>1, Pins
    <2> DEFINE w == Left(mTodo, Count(mTodo) - 1)
    <2>2. w = Micro!Write(Micro!PinOrder[k], q)
      BY <1>2
    <2> HIDE DEF w
    <2>3. w \in MicroSteps /\ w.do = "write" /\ w.pin = Micro!PinOrder[k] /\ (w.high <=> Micro!PinOrder[k] \in q)
      BY <2>1, <2>2, WriteShape
    <2> QED
      BY <2>3 DEF w
  <1>4. /\ MicroTypes' /\ mFw'.seq = mFw.seq /\ mFw'.idx = mFw.idx /\ mFw'.running = mFw.running
        /\ mFw'.pins = IF Micro!PinOrder[k] \in q THEN mFw.pins \cup {Micro!PinOrder[k]}
                                                  ELSE mFw.pins \ {Micro!PinOrder[k]}
    BY <1>1, <1>3, WritesPin
  <1>5. /\ Count(mTodo') = Count(mTodo) - 1 /\ UNCHANGED <<mAlive, mOps>>
        /\ \A r \in 0..(Count(mTodo) - 2) : Left(mTodo', r) = Left(mTodo, r)
    BY <1>1, <1>3, TakesStep DEF MicroTypes
  <1>6. ASSUME Written(mTodo, mFw.pins, q, m), NEW i \in 1..4, 4 - i + m >= Count(mTodo')
        PROVE  Micro!PinOrder[i] \in mFw'.pins <=> Micro!PinOrder[i] \in q
    <2>1. CASE i = k
      BY <1>4, <2>1
    <2>2. CASE i # k
      <3>1. 4 - i + m >= Count(mTodo)
        BY <1>1, <1>5, <1>6, <2>2
      <3>2. Micro!PinOrder[i] \in mFw.pins <=> Micro!PinOrder[i] \in q
        BY <1>6, <3>1 DEF Written
      <3>3. Micro!PinOrder[i] # Micro!PinOrder[k]
        BY <1>1, <2>2, Pins
      <3> QED
        BY <1>4, <3>2, <3>3
    <2> QED
      BY <2>1, <2>2
  <1>7. Written(mTodo, mFw.pins, q, m) => Written(mTodo', mFw'.pins, q, m)
    BY <1>6 DEF Written
  <1>8. \A q2 : \A m2 \in Nat : Writing(mTodo, q2, m2) => Writing(mTodo', q2, m2)
    BY <1>1, <1>3, StillWriting
  <1>9. Writing(mTodo', q, m)
    BY <1>1, <1>3, StillWriting
  <1> QED
    BY <1>4, <1>5, <1>7, <1>8, <1>9

(* The timer is stopped.                                                   *)
LEMMA Disarms ==
  ASSUME MicroTypes, mTodo # <<>>, Micro!MainStep, Left(mTodo, Count(mTodo) - 1).do = "disarm"
  PROVE  /\ MicroTypes' /\ mFw'.seq = mFw.seq /\ ~mFw'.running
         /\ Count(mTodo') = Count(mTodo) - 1 /\ \A r \in 0..(Count(mTodo) - 2) : Left(mTodo', r) = Left(mTodo, r)
         /\ UNCHANGED <<mAlive, mOps>>
         /\ \A q2 : \A m2 \in Nat : Writing(mTodo, q2, m2) => Writing(mTodo', q2, m2)
  <1>1. /\ mTodo' \in Seq(MicroSteps) /\ Count(mTodo') = Count(mTodo) - 1 /\ Head(mTodo) = Left(mTodo, Count(mTodo) - 1)
        /\ UNCHANGED <<mAlive, mOps>> /\ \A r \in 0..(Count(mTodo) - 2) : Left(mTodo', r) = Left(mTodo, r)
    BY TakesStep DEF MicroTypes
  <1>2. mFw' = [mFw EXCEPT !.running = FALSE] /\ mHeld' = mHeld /\ mArmed' = FALSE
    BY <1>1 DEF Micro!MainStep
  <1>3. /\ mFw' \in Firmwares /\ mFw'.seq = mFw.seq /\ mFw'.running = FALSE /\ mFw'.period = mFw.period
    BY <1>2 DEF MicroTypes, Firmwares
  <1>4. MicroTypes'
    BY <1>1, <1>2, <1>3 DEF MicroTypes
  <1> QED
    BY <1>1, <1>3, <1>4, StillWriting

(* The last pin of a state is written.                                     *)
LEMMA LastWritten ==
  ASSUME MicroTypes', NEW q \in Micro!States, NEW m \in Nat, Written(mTodo', mFw'.pins, q, m), Count(mTodo') <= m
  PROVE  mFw'.pins = q
  <1>1. mFw'.pins \in Micro!States /\ Count(mTodo') \in Nat
    BY Counts DEF MicroTypes, Firmwares
  <1>2. \A i \in 1..4 : 4 - i + m >= Count(mTodo')
    BY <1>1
  <1>3. \A i \in 1..4 : Micro!PinOrder[i] \in mFw'.pins <=> Micro!PinOrder[i] \in q
    BY <1>2 DEF Written
  <1> QED
    BY <1>1, <1>3, AllWritten

(* No pin of a state is written yet.                                       *)
LEMMA NoneWritten ==
  ASSUME MicroTypes', NEW q, NEW m \in Nat, Count(mTodo') >= m + 4
  PROVE  Written(mTodo', mFw'.pins, q, m)
  <1>1. Count(mTodo') \in Nat
    BY Counts DEF MicroTypes
  <1>2. \A i \in 1..4 : ~(4 - i + m >= Count(mTodo'))
    BY <1>1
  <1> QED
    BY <1>2 DEF Written

(* A step of the main thread on the way to a stopped bridge.               *)
LEMMA HaltGoes ==
  ASSUME MicroTypes, Halting, Micro!MainStep
  PROVE  MicroInv'
  <1>1. /\ mTodo # <<>> /\ Count(mTodo) <= 5 /\ (Count(mTodo) = 5 => Left(mTodo, 4).do = "disarm") /\ Writing(mTodo, {}, 0)
        /\ Count(mTodo) < 5 => ~mFw.running /\ Written(mTodo, mFw.pins, {}, 0)
        /\ mFw.seq = mOps.seq /\ ~mOps.running /\ mOps.pins = {}
    BY DEF Halting
  <1>0. Count(mTodo) \in Nat /\ Count(mTodo) > 0 /\ Count(mTodo) <= 5
    BY <1>1, Counts DEF MicroTypes
  <1>2. mTodo # <<>> /\ {} \in Micro!States
    BY <1>1 DEF Micro!States
  <1>3. /\ MicroTypes' /\ mFw'.seq = mFw.seq /\ ~mFw'.running /\ Count(mTodo') = Count(mTodo) - 1
        /\ UNCHANGED <<mAlive, mOps>> /\ Writing(mTodo', {}, 0) /\ Written(mTodo', mFw'.pins, {}, 0)
    <2>1. CASE Count(mTodo) = 5
      <3>1. /\ MicroTypes' /\ mFw'.seq = mFw.seq /\ ~mFw'.running /\ Count(mTodo') = 4
            /\ UNCHANGED <<mAlive, mOps>> /\ Writing(mTodo', {}, 0)
        BY <1>1, <1>2, <2>1, Disarms
      <3> QED
        BY <2>1, <3>1, NoneWritten
    <2>2. CASE Count(mTodo) # 5
      <3>1. 0 < Count(mTodo) /\ Count(mTodo) <= 0 + 4 /\ Count(mTodo) < 5
        BY <1>0, <2>2
      <3> QED
        BY <1>1, <3>1, WritesNext
    <2> QED
      BY <2>1, <2>2
  <1>4. CASE Count(mTodo) = 1
    <2>1. mFw'.pins = {} /\ mTodo' = <<>>
      <3>1. Count(mTodo') = 0 /\ Count(mTodo') <= 0
        BY <1>3, <1>4
      <3> QED
        BY <1>2, <1>3, <3>1, LastWritten, Counts DEF MicroTypes
    <2>2. Quiet'
      BY <1>1, <1>3, <2>1 DEF Quiet, Together, MicroTypes, Firmwares
    <2> QED
      BY <1>3, <2>2 DEF MicroInv
  <1>5. CASE Count(mTodo) # 1
    <2>1. Halting'
      <3>1. Count(mTodo') > 0 /\ Count(mTodo') <= 5 /\ Count(mTodo') # 5 /\ mTodo' # <<>>
        <4>1. Count(mTodo') = Count(mTodo) - 1
          BY <1>3
        <4>2. Count(mTodo') > 0 /\ Count(mTodo') <= 5 /\ Count(mTodo') # 5
          BY <1>0, <1>5, <4>1
        <4> QED
          BY <1>3, <4>2, Counts DEF MicroTypes
      <3>2. Writing(mTodo', {}, 0) /\ Written(mTodo', mFw'.pins, {}, 0)
        BY <1>3
      <3>3. ~mFw'.running
        BY <1>3
      <3>4. mFw'.seq = mOps'.seq
        BY <1>1, <1>3
      <3>5. ~mOps'.running
        BY <1>1, <1>3
      <3>6. mOps'.pins = {}
        BY <1>1, <1>3
      <3> QED
        BY <3>1, <3>2, <3>3, <3>4, <3>5, <3>6 DEF Halting
    <2> QED
      BY <1>3, <2>1 DEF MicroInv
  <1> QED
    BY <1>4, <1>5

(* ... to a new cycle.                                                     *)
LEMMA SwapGoes ==
  ASSUME MicroTypes, Swapping, Micro!MainStep
  PROVE  MicroInv'
  <1>1. /\ mAlive /\ mTodo # <<>> /\ Count(mTodo) <= 6 /\ (Count(mTodo) = 6 => Left(mTodo, 5).do = "disarm") /\ Writing(mTodo, {}, 1)
        /\ Left(mTodo, 0) = Micro!Swap(mOps.seq)
        /\ Count(mTodo) < 6 => ~mFw.running /\ Written(mTodo, mFw.pins, {}, 1)
        /\ ~mOps.running /\ mOps.pins = {}
    BY DEF Swapping
  <1>0. Count(mTodo) \in Nat /\ Count(mTodo) > 0 /\ Count(mTodo) <= 6
    BY <1>1, Counts DEF MicroTypes
  <1>2. mTodo # <<>> /\ {} \in Micro!States /\ mOps.seq \in Seq(Micro!States)
    BY <1>1 DEF Micro!States, MicroTypes, Firmwares
  <1>3. CASE Count(mTodo) # 1
    <2>1. /\ MicroTypes' /\ ~mFw'.running /\ Count(mTodo') = Count(mTodo) - 1 /\ Left(mTodo', 0) = Left(mTodo, 0)
          /\ UNCHANGED <<mAlive, mOps>> /\ Writing(mTodo', {}, 1) /\ Written(mTodo', mFw'.pins, {}, 1)
      <3>1. CASE Count(mTodo) = 6
        <4>1. /\ MicroTypes' /\ ~mFw'.running /\ Count(mTodo') = 5 /\ Left(mTodo', 0) = Left(mTodo, 0)
              /\ UNCHANGED <<mAlive, mOps>> /\ Writing(mTodo', {}, 1)
          <5>1. Count(mTodo) - 1 = 5 /\ 0 \in 0..(Count(mTodo) - 2) /\ Count(mTodo) - 1 = 6 - 1
            BY <3>1
          <5>2. Left(mTodo, Count(mTodo) - 1).do = "disarm"
            BY <1>1, <3>1, <5>1
          <5> QED
            BY <1>1, <1>2, <3>1, <5>1, <5>2, Disarms
        <4> QED
          BY <3>1, <4>1, NoneWritten
      <3>2. CASE Count(mTodo) # 6
        <4>1. 1 < Count(mTodo) /\ Count(mTodo) <= 1 + 4 /\ Count(mTodo) < 6 /\ 0 \in 0..(Count(mTodo) - 2)
          BY <1>0, <1>3, <3>2
        <4> QED
          BY <1>1, <4>1, WritesNext
      <3> QED
        BY <3>1, <3>2
    <2>2. Swapping'
      <3>1. Count(mTodo') > 0 /\ Count(mTodo') <= 6 /\ Count(mTodo') # 6 /\ mTodo' # <<>>
        <4>1. Count(mTodo') = Count(mTodo) - 1
          BY <2>1
        <4>2. Count(mTodo') > 0 /\ Count(mTodo') <= 6 /\ Count(mTodo') # 6
          BY <1>0, <1>3, <4>1
        <4> QED
          BY <2>1, <4>2, Counts DEF MicroTypes
      <3> QED
        BY <1>1, <2>1, <3>1 DEF Swapping
    <2> QED
      BY <2>1, <2>2 DEF MicroInv
  <1>4. CASE Count(mTodo) = 1
    <2>1. Left(mTodo, Count(mTodo) - 1).do = "swap" /\ Left(mTodo, Count(mTodo) - 1).prog = mOps.seq
      BY <1>1, <1>2, <1>4, StepShapes
    <2>2. /\ mTodo' \in Seq(MicroSteps) /\ mTodo' = <<>> /\ Head(mTodo) = Left(mTodo, Count(mTodo) - 1)
          /\ UNCHANGED <<mAlive, mOps>>
      BY <1>2, <1>4, <2>1, TakesStep, Counts DEF MicroTypes
    <2>3. mFw' = [mFw EXCEPT !.seq = mOps.seq, !.idx = 0] /\ mHeld' = mHeld /\ mArmed' = mArmed
      BY <2>1, <2>2 DEF Micro!MainStep
    <2>4. /\ mFw' \in Firmwares /\ mFw'.seq = mOps.seq /\ mFw'.running = mFw.running
          /\ mFw'.period = mFw.period /\ mFw'.pins = mFw.pins
      <3>1. mFw' \in [pins : Micro!States, seq : Seq(Micro!States), idx : Nat, period : Nat, running : BOOLEAN]
        BY <1>2, <2>3 DEF MicroTypes, Firmwares
      <3>2. /\ mFw'.seq = mOps.seq /\ mFw'.running = mFw.running /\ mFw'.idx = 0
            /\ mFw'.period = mFw.period /\ mFw'.pins = mFw.pins
        BY <2>3 DEF MicroTypes, Firmwares
      <3>3. mFw'.seq # <<>> => Len(mFw'.seq) > 0
        BY <3>1
      <3> QED
        BY <3>1, <3>2, <3>3 DEF Firmwares
    <2>5. MicroTypes'
      BY <2>2, <2>3, <2>4 DEF MicroTypes
    <2>6. mFw.pins = {}
      <3>1. \A i \in 1..4 : Micro!PinOrder[i] \in mFw.pins <=> Micro!PinOrder[i] \in {}
        BY <1>1, <1>4 DEF Written
      <3> QED
        BY <1>2, <3>1, AllWritten DEF MicroTypes, Firmwares
    <2>7. Quiet'
      BY <1>1, <1>4, <2>2, <2>4, <2>6 DEF Quiet, Together, MicroTypes, Firmwares
    <2> QED
      BY <2>5, <2>7 DEF MicroInv
  <1> QED
    BY <1>3, <1>4

(* ... to a state set directly.                                            *)
LEMMA SetGoes ==
  ASSUME MicroTypes, Setting, Micro!MainStep
  PROVE  MicroInv'
  <1>1. /\ mAlive /\ mTodo # <<>> /\ Count(mTodo) <= 9 /\ (Count(mTodo) = 9 => Left(mTodo, 8).do = "disarm")
        /\ Writing(mTodo, {}, 4) /\ Writing(mTodo, mOps.pins, 0)
        /\ Count(mTodo) < 9 => ~mFw.running /\ Written(mTodo, mFw.pins, mOps.pins, 0)
        /\ mFw.seq = mOps.seq /\ ~mOps.running
    BY DEF Setting
  <1>0. Count(mTodo) \in Nat /\ Count(mTodo) > 0 /\ Count(mTodo) <= 9
    BY <1>1, Counts DEF MicroTypes
  <1>2. mTodo # <<>> /\ mOps.pins \in Micro!States
    BY <1>1 DEF MicroTypes, Firmwares
  <1>3. /\ MicroTypes' /\ mFw'.seq = mFw.seq /\ ~mFw'.running /\ Count(mTodo') = Count(mTodo) - 1
        /\ UNCHANGED <<mAlive, mOps>> /\ Writing(mTodo', {}, 4) /\ Writing(mTodo', mOps.pins, 0) /\ Written(mTodo', mFw'.pins, mOps.pins, 0)
    <2>0. /\ MicroTypes' /\ mFw'.seq = mFw.seq /\ ~mFw'.running /\ Count(mTodo') = Count(mTodo) - 1
          /\ UNCHANGED <<mAlive, mOps>> /\ Writing(mTodo', {}, 4) /\ Writing(mTodo', mOps.pins, 0)
          /\ Count(mTodo) < 5 => Written(mTodo', mFw'.pins, mOps.pins, 0)
      <3>1. CASE Count(mTodo) = 9
        <4>1. Left(mTodo, Count(mTodo) - 1).do = "disarm"
          BY <1>1, <3>1
        <4>2. /\ MicroTypes' /\ mFw'.seq = mFw.seq /\ ~mFw'.running /\ Count(mTodo') = Count(mTodo) - 1
              /\ UNCHANGED <<mAlive, mOps>>
              /\ \A q2 : \A m2 \in Nat : Writing(mTodo, q2, m2) => Writing(mTodo', q2, m2)
          BY <1>2, <4>1, Disarms
        <4> QED
          BY <1>1, <3>1, <4>2
      <3>2. CASE Count(mTodo) >= 5 /\ Count(mTodo) # 9
        <4>1. 4 < Count(mTodo) /\ Count(mTodo) <= 4 + 4 /\ Count(mTodo) < 9
          BY <1>0, <3>2
        <4>2. /\ MicroTypes' /\ mFw'.seq = mFw.seq /\ ~mFw'.running /\ Count(mTodo') = Count(mTodo) - 1
              /\ UNCHANGED <<mAlive, mOps>>
              /\ \A q2 : \A m2 \in Nat : Writing(mTodo, q2, m2) => Writing(mTodo', q2, m2)
          BY <1>1, <1>2, <4>1, WritesNext
        <4>3. ~(Count(mTodo) < 5)
          BY <1>0, <3>2
        <4> QED
          BY <1>1, <4>2, <4>3
      <3>3. CASE Count(mTodo) < 5
        <4>1. 0 < Count(mTodo) /\ Count(mTodo) <= 0 + 4 /\ ~mFw.running /\ Written(mTodo, mFw.pins, mOps.pins, 0)
          BY <1>0, <1>1, <3>3
        <4>2. /\ MicroTypes' /\ mFw'.seq = mFw.seq /\ ~mFw'.running /\ Count(mTodo') = Count(mTodo) - 1
              /\ UNCHANGED <<mAlive, mOps>> /\ Written(mTodo', mFw'.pins, mOps.pins, 0)
              /\ \A q2 : \A m2 \in Nat : Writing(mTodo, q2, m2) => Writing(mTodo', q2, m2)
          BY <1>1, <1>2, <4>1, WritesNext
        <4> QED
          BY <1>1, <4>2
      <3>4. Count(mTodo) = 9 \/ (Count(mTodo) >= 5 /\ Count(mTodo) # 9) \/ Count(mTodo) < 5
        BY <1>0
      <3> QED
        BY <3>1, <3>2, <3>3, <3>4
    <2>1. CASE Count(mTodo) < 5
      BY <2>0, <2>1
    <2>2. CASE ~(Count(mTodo) < 5)
      <3>1. Count(mTodo') >= 0 + 4
        BY <1>0, <2>0, <2>2
      <3>2. Written(mTodo', mFw'.pins, mOps.pins, 0)
        BY <2>0, <3>1, NoneWritten
      <3> QED
        BY <2>0, <3>2
    <2> QED
      BY <2>1, <2>2
  <1>4. CASE Count(mTodo) = 1
    <2>1. mFw'.pins = mOps'.pins /\ mTodo' = <<>>
      <3>1. Count(mTodo') = 0 /\ Count(mTodo') <= 0
        BY <1>3, <1>4
      <3>2. mOps'.pins = mOps.pins
        BY <1>3
      <3> QED
        BY <1>2, <1>3, <3>1, <3>2, LastWritten, Counts DEF MicroTypes
    <2>2. Quiet'
      BY <1>1, <1>3, <2>1 DEF Quiet, Together, MicroTypes, Firmwares
    <2> QED
      BY <1>3, <2>2 DEF MicroInv
  <1>5. CASE Count(mTodo) # 1
    <2>1. Setting'
      <3>1. Count(mTodo') = Count(mTodo) - 1
        BY <1>3
      <3>2. Count(mTodo') > 0 /\ Count(mTodo') <= 9 /\ Count(mTodo') # 9 /\ mTodo' # <<>>
        <4>1. Count(mTodo') > 0 /\ Count(mTodo') <= 9 /\ Count(mTodo') # 9
          BY <1>0, <1>5, <3>1
        <4> QED
          BY <1>3, <4>1, Counts DEF MicroTypes
      <3>3. mOps'.pins = mOps.pins
        BY <1>3
      <3> QED
        BY <1>1, <1>3, <3>2, <3>3 DEF Setting
    <2> QED
      BY <1>3, <2>1 DEF MicroInv
  <1> QED
    BY <1>4, <1>5

(* Steps put in front of others.                                           *)
InFront(a, b) == a \o b

(* Joined, they keep their places.                                         *)
LEMMA Joined ==
  ASSUME NEW a \in Seq(MicroSteps), NEW b \in Seq(MicroSteps)
  PROVE  /\ InFront(a, b) \in Seq(MicroSteps) /\ Count(a) \in Nat /\ Count(b) \in Nat
         /\ Count(InFront(a, b)) = Count(a) + Count(b)
         /\ \A i \in 1..Count(a) : InFront(a, b)[i] = a[i]
         /\ \A i \in 1..Count(b) : InFront(a, b)[Count(a) + i] = b[i]
  <1>1. Len(a) \in Nat /\ Len(b) \in Nat
    OBVIOUS
  <1>2. a \o b \in Seq(MicroSteps) /\ Len(a \o b) = Len(a) + Len(b)
    BY ConcatProperties
  <1>3. \A k \in 1..(Len(a) + Len(b)) : (a \o b)[k] = IF k <= Len(a) THEN a[k] ELSE b[k - Len(a)]
    BY ConcatProperties
  <1>4. ASSUME NEW i \in 1..Len(a)
        PROVE  (a \o b)[i] = a[i]
    <2>1. i \in 1..(Len(a) + Len(b)) /\ i <= Len(a)
      BY <1>1
    <2> QED
      BY <1>3, <2>1
  <1>5. ASSUME NEW i \in 1..Len(b)
        PROVE  (a \o b)[Len(a) + i] = b[i]
    <2>1. /\ Len(a) + i \in 1..(Len(a) + Len(b)) /\ ~(Len(a) + i <= Len(a))
          /\ (Len(a) + i) - Len(a) = i
      BY <1>1
    <2>2. (a \o b)[Len(a) + i] = b[(Len(a) + i) - Len(a)]
      BY <1>3, <2>1
    <2> QED
      BY <2>1, <2>2
  <1> QED
    BY <1>1, <1>2, <1>4, <1>5 DEF Count, InFront

(* The writes of the state at the held index are put in front.             *)
LEMMA Fetches ==
  ASSUME MicroTypes, mTodo # <<>>, Micro!MainStep, Left(mTodo, Count(mTodo) - 1).do = "fetch"
  PROVE  /\ MicroTypes' /\ UNCHANGED <<mFw, mOps, mAlive, mHeld>>
         /\ Count(mTodo') = Count(mTodo) + 3
         /\ Writing(mTodo', mFw.seq[mFw.idx + 1], Count(mTodo) - 1)
         /\ \A r \in 0..(Count(mTodo) - 2) : Left(mTodo', r) = Left(mTodo, r)
  <1> DEFINE q == mFw.seq[mFw.idx + 1]
             w == Micro!Writes(q)
             t == Tail(mTodo)
  <1>1. Count(mTodo) \in Nat /\ Count(mTodo) > 0 /\ mTodo \in Seq(MicroSteps) /\ mTodo # <<>>
    BY Counts DEF MicroTypes
  <1>2. Head(mTodo) = Left(mTodo, Count(mTodo) - 1)
    <2>1. Count(mTodo) - (Count(mTodo) - 1) = 1
      BY <1>1
    <2>2. Head(mTodo) = mTodo[1]
      BY <1>1
    <2> QED
      BY <2>1, <2>2 DEF Left
  <1>3. mTodo' = InFront(w, t) /\ UNCHANGED <<mFw, mOps, mAlive, mHeld, mArmed>>
    BY <1>2 DEF Micro!MainStep, InFront
  <1>4. w \in Seq(MicroSteps) /\ Len(w) = 4 /\ \A i \in 1..4 : w[i] = Micro!Write(Micro!PinOrder[i], q)
    BY WritesAre
  <1>5. /\ t \in Seq(MicroSteps) /\ Len(t) = Count(mTodo) - 1
        /\ \A i \in 1..(Count(mTodo) - 1) : t[i] = mTodo[i + 1]
    BY <1>1 DEF Count
  <1> HIDE DEF w, t, q
  <1>6. /\ mTodo' \in Seq(MicroSteps) /\ Count(mTodo') = Count(mTodo) + 3
        /\ \A i \in 1..4 : mTodo'[i] = w[i]
        /\ \A i \in 1..(Count(mTodo) - 1) : mTodo'[4 + i] = t[i]
    <2>1. Count(w) = 4 /\ Count(t) = Count(mTodo) - 1
      BY <1>4, <1>5 DEF Count
    <2>2. /\ InFront(w, t) \in Seq(MicroSteps) /\ Count(InFront(w, t)) = Count(w) + Count(t)
          /\ \A i \in 1..Count(w) : InFront(w, t)[i] = w[i]
          /\ \A i \in 1..Count(t) : InFront(w, t)[Count(w) + i] = t[i]
      BY <1>4, <1>5, Joined
    <2> QED
      BY <1>1, <1>3, <2>1, <2>2
  <1>7. MicroTypes'
    BY <1>3, <1>6 DEF MicroTypes
  <1>8. ASSUME NEW r \in 0..(Count(mTodo) - 2)
        PROVE  Left(mTodo', r) = Left(mTodo, r)
    <2> DEFINE i == (Count(mTodo) - 1) - r
    <2>1. /\ i \in 1..(Count(mTodo) - 1) /\ i + 1 = Count(mTodo) - r
      BY <1>1
    <2>3. 4 + i = (Count(mTodo) + 3) - r
      BY <1>1
    <2>4. 4 + i = Count(mTodo') - r
      BY <1>6, <2>3
    <2> HIDE DEF i
    <2>2. mTodo'[4 + i] = mTodo[i + 1]
      BY <1>5, <1>6, <2>1
    <2> QED
      BY <2>1, <2>2, <2>4 DEF Left
  <1>9. ASSUME NEW i \in 1..4
        PROVE  Left(mTodo', 4 - i + (Count(mTodo) - 1)) = Micro!Write(Micro!PinOrder[i], q)
    <2>1. Count(mTodo') - (4 - i + (Count(mTodo) - 1)) = i
      BY <1>1, <1>6
    <2> QED
      BY <1>4, <1>6, <2>1 DEF Left
  <1>10. Writing(mTodo', q, Count(mTodo) - 1)
    BY <1>9 DEF Writing
  <1> QED
    BY <1>3, <1>6, <1>7, <1>8, <1>10 DEF q

(* A step of the main thread on the way to a running timer.                *)
LEMMA StartGoes ==
  ASSUME MicroTypes, Starting, Micro!MainStep
  PROVE  MicroInv'
  <1>1. /\ mAlive /\ mTodo # <<>> /\ Count(mTodo) = 2 /\ Left(mTodo, 1).do = "fetch" /\ Left(mTodo, 0).do = "arm"
        /\ mFw.seq = mOps.seq /\ mOps.running
    <2>1. Count(mTodo) = 2
      BY DEF Starting
    <2>2. mTodo # <<>>
      BY <2>1, Counts DEF MicroTypes
    <2> QED
      BY <2>2 DEF Starting
  <1>2. Count(mTodo) - 1 = 1 /\ 0 \in 0..(Count(mTodo) - 2)
    BY <1>1
  <1>3. /\ MicroTypes' /\ UNCHANGED <<mFw, mOps, mAlive>> /\ Count(mTodo') = 5
        /\ Writing(mTodo', mFw.seq[mFw.idx + 1], 1) /\ Left(mTodo', 0) = Left(mTodo, 0)
    <2>1. /\ MicroTypes' /\ UNCHANGED <<mFw, mOps, mAlive>> /\ Count(mTodo') = Count(mTodo) + 3
          /\ Writing(mTodo', mFw.seq[mFw.idx + 1], Count(mTodo) - 1)
          /\ \A r \in 0..(Count(mTodo) - 2) : Left(mTodo', r) = Left(mTodo, r)
      BY <1>1, <1>2, Fetches
    <2>2. Count(mTodo') = 5
      BY <1>1, <2>1
    <2> QED
      BY <1>2, <2>1, <2>2
  <1>4. ASSUME NEW r \in 1..4
        PROVE  Left(mTodo', r).do = "write"
    <2> DEFINE i == 5 - r
    <2>1. i \in 1..4 /\ 4 - i + 1 = r /\ 4 - i + 1 < Count(mTodo')
      BY <1>3
    <2> HIDE DEF i
    <2>2. Left(mTodo', r) = Micro!Write(Micro!PinOrder[i], mFw.seq[mFw.idx + 1])
      BY <1>3, <2>1 DEF Writing
    <2>3. Micro!PinOrder[i] \in Micro!Fets
      BY <2>1, Pins
    <2> QED
      BY <2>2, <2>3, WriteShape
  <1>5. mTodo' # <<>> /\ Count(mTodo') <= 5
    <2>1. Count(mTodo') > 0 /\ Count(mTodo') <= 5
      BY <1>3
    <2> QED
      BY <1>3, <2>1, Counts DEF MicroTypes
  <1>6. Arming'
    BY <1>1, <1>3, <1>4, <1>5 DEF Arming
  <1> QED
    BY <1>3, <1>6 DEF MicroInv

(* ... once it has begun to write.                                         *)
LEMMA ArmGoes ==
  ASSUME MicroTypes, Arming, Micro!MainStep
  PROVE  MicroInv'
  <1>1. /\ mAlive /\ mTodo # <<>> /\ Count(mTodo) <= 5 /\ Left(mTodo, 0).do = "arm"
        /\ \A r \in 1..4 : r < Count(mTodo) => Left(mTodo, r).do = "write"
        /\ mFw.seq = mOps.seq /\ mOps.running /\ mTodo \in Seq(MicroSteps)
    BY DEF Arming, MicroTypes
  <1>2. Count(mTodo) \in Nat /\ Count(mTodo) > 0
    BY <1>1, Counts
  <1>3. CASE Count(mTodo) # 1
    <2>1. Count(mTodo) - 1 \in 1..4 /\ Count(mTodo) - 1 < Count(mTodo) /\ 0 \in 0..(Count(mTodo) - 2)
      BY <1>1, <1>2, <1>3
    <2>2. Left(mTodo, Count(mTodo) - 1).do = "write"
      BY <1>1, <2>1
    <2>3. MicroTypes' /\ mFw'.seq = mFw.seq
      BY <1>1, <2>2, WritesPin
    <2>4. /\ Count(mTodo') = Count(mTodo) - 1 /\ \A r \in 0..(Count(mTodo) - 2) : Left(mTodo', r) = Left(mTodo, r)
          /\ UNCHANGED <<mAlive, mOps>>
      BY <1>1, <2>2, TakesStep
    <2>5. ASSUME NEW r \in 1..4, r < Count(mTodo')
          PROVE  Left(mTodo', r).do = "write"
      <3>1. r \in 0..(Count(mTodo) - 2) /\ r < Count(mTodo)
        BY <1>2, <2>4, <2>5
      <3> QED
        BY <1>1, <2>4, <3>1
    <2>6. mTodo' # <<>> /\ Count(mTodo') <= 5
      <3>1. Count(mTodo') > 0 /\ Count(mTodo') <= 5
        BY <1>1, <1>2, <1>3, <2>4
      <3> QED
        BY <2>3, <3>1, Counts DEF MicroTypes
    <2>7. Left(mTodo', 0).do = "arm" /\ mAlive' /\ mFw'.seq = mOps'.seq /\ mOps'.running
      BY <1>1, <2>1, <2>3, <2>4
    <2>8. Arming'
      BY <2>5, <2>6, <2>7 DEF Arming
    <2> QED
      BY <2>3, <2>8 DEF MicroInv
  <1>4. CASE Count(mTodo) = 1
    <2>1. Left(mTodo, Count(mTodo) - 1).do = "arm"
      BY <1>1, <1>4
    <2>0. /\ mTodo' \in Seq(MicroSteps) /\ Count(mTodo') = Count(mTodo) - 1
          /\ Head(mTodo) = Left(mTodo, Count(mTodo) - 1) /\ UNCHANGED <<mAlive, mOps>>
          /\ \A r \in 0..(Count(mTodo) - 2) : Left(mTodo', r) = Left(mTodo, r)
      BY <1>1, <2>1, TakesStep
    <2>8. Count(mTodo') = 0
      BY <1>4, <2>0
    <2>2. /\ mTodo' \in Seq(MicroSteps) /\ mTodo' = <<>> /\ Head(mTodo) = Left(mTodo, Count(mTodo) - 1)
          /\ UNCHANGED <<mAlive, mOps>>
      BY <2>0, <2>8, Counts
    <2>3. mFw' = [mFw EXCEPT !.running = TRUE] /\ mHeld' = mHeld /\ mArmed' = TRUE
      BY <2>1, <2>2 DEF Micro!MainStep
    <2>4. /\ mFw' \in Firmwares /\ mFw'.seq = mFw.seq /\ mFw'.running = TRUE /\ mFw'.period = mFw.period
      BY <2>3 DEF MicroTypes, Firmwares
    <2>5. MicroTypes'
      BY <2>2, <2>3, <2>4 DEF MicroTypes
    <2>6. mOps.running = TRUE
      BY <1>1 DEF MicroTypes, Firmwares
    <2>7. Quiet'
      BY <1>1, <2>2, <2>4, <2>6 DEF Quiet, Together
    <2> QED
      BY <2>5, <2>7 DEF MicroInv
  <1> QED
    BY <1>3, <1>4

(* A step of the main thread on the way to the next state, ...             *)
LEMMA NextGoes ==
  ASSUME MicroTypes, Stepping, Micro!MainStep
  PROVE  MicroInv'
  <1>1. /\ mAlive /\ mTodo # <<>> /\ Count(mTodo) <= 3 /\ Together /\ mFw.seq # <<>>
        /\ Count(mTodo) = 3 => Left(mTodo, 2).do = "next"
        /\ Count(mTodo) >= 2 => Left(mTodo, 1).do = "store"
        /\ Count(mTodo) = 2 => mHeld < Len(mFw.seq)
        /\ Left(mTodo, 0).do = "fetch" /\ mTodo \in Seq(MicroSteps) /\ mFw \in Firmwares
    BY DEF Stepping, MicroTypes
  <1>2. Count(mTodo) \in Nat /\ Count(mTodo) > 0
    BY <1>1, Counts
  <1>3. CASE Count(mTodo) = 3
    <2>1. Left(mTodo, Count(mTodo) - 1).do = "next" /\ 0 \in 0..(Count(mTodo) - 2) /\ 1 \in 0..(Count(mTodo) - 2)
      BY <1>1, <1>3
    <2>2. /\ mTodo' \in Seq(MicroSteps) /\ Count(mTodo') = 2 /\ Head(mTodo) = Left(mTodo, Count(mTodo) - 1)
          /\ UNCHANGED <<mAlive, mOps>> /\ Left(mTodo', 0) = Left(mTodo, 0) /\ Left(mTodo', 1) = Left(mTodo, 1)
      <3>1. /\ mTodo' \in Seq(MicroSteps) /\ Count(mTodo') = Count(mTodo) - 1
            /\ Head(mTodo) = Left(mTodo, Count(mTodo) - 1) /\ UNCHANGED <<mAlive, mOps>>
            /\ \A r \in 0..(Count(mTodo) - 2) : Left(mTodo', r) = Left(mTodo, r)
        BY <1>1, <2>1, TakesStep
      <3>2. Count(mTodo') = 2
        BY <1>3, <3>1
      <3> QED
        BY <2>1, <3>1, <3>2
    <2>3. mFw' = mFw /\ mHeld' = Micro!NextIdx(mFw.idx, Len(mFw.seq)) /\ mArmed' = mArmed
      BY <2>1, <2>2 DEF Micro!MainStep
    <2>4. mHeld' \in Nat /\ mHeld' < Len(mFw.seq)
      BY <1>1, <2>3, NextWithin
    <2>5. MicroTypes'
      BY <2>2, <2>3, <2>4 DEF MicroTypes
    <2>6. mTodo' # <<>> /\ Count(mTodo') <= 3 /\ Count(mTodo') # 3
      <3>1. Count(mTodo') > 0 /\ Count(mTodo') <= 3 /\ Count(mTodo') # 3
        BY <2>2
      <3> QED
        BY <2>2, <3>1, Counts
    <2>7. Left(mTodo, 1).do = "store"
      BY <1>1, <1>3
    <2>8. Stepping'
      BY <1>1, <2>2, <2>3, <2>4, <2>6, <2>7 DEF Stepping, Together
    <2> QED
      BY <2>5, <2>8 DEF MicroInv
  <1>4. CASE Count(mTodo) = 2
    <2>1. Left(mTodo, Count(mTodo) - 1).do = "store" /\ 0 \in 0..(Count(mTodo) - 2)
      BY <1>1, <1>4
    <2>2. /\ mTodo' \in Seq(MicroSteps) /\ Count(mTodo') = 1 /\ Head(mTodo) = Left(mTodo, Count(mTodo) - 1)
          /\ UNCHANGED <<mAlive, mOps>> /\ Left(mTodo', 0) = Left(mTodo, 0)
      <3>1. /\ mTodo' \in Seq(MicroSteps) /\ Count(mTodo') = Count(mTodo) - 1
            /\ Head(mTodo) = Left(mTodo, Count(mTodo) - 1) /\ UNCHANGED <<mAlive, mOps>>
            /\ \A r \in 0..(Count(mTodo) - 2) : Left(mTodo', r) = Left(mTodo, r)
        BY <1>1, <2>1, TakesStep
      <3>2. Count(mTodo') = 1
        BY <1>4, <3>1
      <3> QED
        BY <2>1, <3>1, <3>2
    <2>3. mFw' = [mFw EXCEPT !.idx = mHeld] /\ mHeld' = mHeld /\ mArmed' = mArmed
      BY <2>1, <2>2 DEF Micro!MainStep
    <2>4. /\ mFw' \in Firmwares /\ mFw'.seq = mFw.seq /\ mFw'.running = mFw.running /\ mFw'.period = mFw.period
      <3>1. mHeld < Len(mFw.seq) /\ mHeld \in Nat
        BY <1>1, <1>4 DEF MicroTypes
      <3> QED
        BY <2>3, <3>1 DEF MicroTypes, Firmwares
    <2>5. MicroTypes'
      BY <2>2, <2>3, <2>4 DEF MicroTypes
    <2>6. mTodo' # <<>> /\ Count(mTodo') <= 3 /\ Count(mTodo') # 3 /\ Count(mTodo') # 2 /\ ~(Count(mTodo') >= 2)
      <3>1. Count(mTodo') > 0 /\ Count(mTodo') <= 3 /\ Count(mTodo') # 3 /\ Count(mTodo') # 2 /\ ~(Count(mTodo') >= 2)
        BY <2>2
      <3> QED
        BY <2>2, <3>1, Counts
    <2>7. Stepping'
      BY <1>1, <2>2, <2>4, <2>6 DEF Stepping, Together
    <2> QED
      BY <2>5, <2>7 DEF MicroInv
  <1>5. CASE Count(mTodo) = 1
    <2> DEFINE q == mFw.seq[mFw.idx + 1]
    <2>1. Left(mTodo, Count(mTodo) - 1).do = "fetch" /\ Count(mTodo) - 1 = 0
      BY <1>1, <1>5
    <2>2. /\ MicroTypes' /\ UNCHANGED <<mFw, mOps, mAlive>> /\ Count(mTodo') = 4 /\ Writing(mTodo', q, 0)
      <3>1. /\ MicroTypes' /\ UNCHANGED <<mFw, mOps, mAlive>> /\ Count(mTodo') = Count(mTodo) + 3
            /\ Writing(mTodo', q, Count(mTodo) - 1)
        BY <1>1, <2>1, Fetches
      <3>2. Count(mTodo') = 4
        BY <1>5, <3>1
      <3> QED
        BY <2>1, <3>1, <3>2
    <2>3. q \in Micro!States
      BY <1>1 DEF Firmwares
    <2> HIDE DEF q
    <2>4. Written(mTodo', mFw'.pins, q, 0)
      <3>1. Count(mTodo') >= 0 + 4
        BY <2>2
      <3> QED
        BY <2>2, <3>1, NoneWritten
    <2>5. mTodo' # <<>> /\ Count(mTodo') <= 4
      <3>1. Count(mTodo') > 0 /\ Count(mTodo') <= 4
        BY <2>2
      <3> QED
        BY <2>2, <3>1, Counts DEF MicroTypes
    <2>6. q = mFw'.seq[mFw'.idx + 1]
      BY <2>2 DEF q
    <2>7. mAlive' /\ Together' /\ mFw'.seq # <<>>
      BY <1>1, <2>2 DEF Together
    <2>8. Showing'
      BY <2>2, <2>3, <2>4, <2>5, <2>6, <2>7 DEF Showing
    <2> QED
      BY <2>2, <2>8 DEF MicroInv
  <1> QED
    BY <1>1, <1>2, <1>3, <1>4, <1>5

(* ... and as it shows it.                                                 *)
LEMMA ShowGoes ==
  ASSUME MicroTypes, Showing, Micro!MainStep
  PROVE  MicroInv'
  <1>1. /\ mAlive /\ mTodo # <<>> /\ Count(mTodo) <= 4 /\ Together /\ mFw \in Firmwares
    BY DEF Showing, MicroTypes
  <1>2. PICK q \in Micro!States :
          /\ Writing(mTodo, q, 0)
          /\ ~mFw.running => mFw.seq # <<>> /\ q = mFw.seq[mFw.idx + 1] /\ Written(mTodo, mFw.pins, q, 0)
    BY DEF Showing
  <1>3. Count(mTodo) \in Nat /\ Count(mTodo) > 0 /\ Count(mTodo) <= 0 + 4
    BY <1>1, Counts DEF MicroTypes
  <1>4. /\ MicroTypes' /\ mFw'.seq = mFw.seq /\ mFw'.idx = mFw.idx /\ mFw'.running = mFw.running
        /\ Count(mTodo') = Count(mTodo) - 1 /\ UNCHANGED <<mAlive, mOps>> /\ Writing(mTodo', q, 0)
        /\ Written(mTodo, mFw.pins, q, 0) => Written(mTodo', mFw'.pins, q, 0)
    BY <1>2, <1>3, WritesNext
  <1>5. Together' /\ mAlive'
    BY <1>1, <1>4 DEF Together
  <1>6. ~mFw'.running => mFw'.seq # <<>> /\ q = mFw'.seq[mFw'.idx + 1] /\ Written(mTodo', mFw'.pins, q, 0)
    BY <1>2, <1>4
  <1>7. CASE Count(mTodo) = 1
    <2>1. mTodo' = <<>> /\ Count(mTodo') <= 0
      <3>1. Count(mTodo') = 0
        BY <1>4, <1>7
      <3> QED
        BY <1>4, <3>1, Counts DEF MicroTypes
    <2>2. ~mFw'.running => mFw'.pins = q
      BY <1>4, <1>6, <2>1, LastWritten
    <2>3. Quiet'
      BY <1>5, <1>6, <2>1, <2>2 DEF Quiet
    <2> QED
      BY <1>4, <2>3 DEF MicroInv
  <1>8. CASE Count(mTodo) # 1
    <2>1. mTodo' # <<>> /\ Count(mTodo') <= 4
      <3>1. Count(mTodo') > 0 /\ Count(mTodo') <= 4
        BY <1>3, <1>4, <1>8
      <3> QED
        BY <1>4, <3>1, Counts DEF MicroTypes
    <2>2. Showing'
      BY <1>4, <1>5, <1>6, <2>1 DEF Showing
    <2> QED
      BY <1>4, <2>2 DEF MicroInv
  <1> QED
    BY <1>7, <1>8

(* The steps of a halt: the timer, then the pins.                          *)
LEMMA HaltsAre ==
  /\ Micro!HaltSteps \in Seq(MicroSteps) /\ Count(Micro!HaltSteps) = 5
  /\ Micro!HaltSteps[1].do = "disarm"
  /\ \A i \in 1..4 : Micro!HaltSteps[1 + i] = Micro!Write(Micro!PinOrder[i], {})
  <1> DEFINE a == <<Micro!Step("disarm")>>
             w == Micro!Writes({})
  <1>1. a \in Seq(MicroSteps) /\ Count(a) = 1 /\ a[1].do = "disarm"
    BY StepShapes DEF Count
  <1>2. w \in Seq(MicroSteps) /\ Count(w) = 4 /\ \A i \in 1..4 : w[i] = Micro!Write(Micro!PinOrder[i], {})
    BY WritesAre DEF Count
  <1>3. Micro!HaltSteps = InFront(a, w)
    BY DEF InFront, Micro!HaltSteps, Micro!AllOff
  <1> HIDE DEF a, w
  <1>4. /\ InFront(a, w) \in Seq(MicroSteps) /\ Count(InFront(a, w)) = Count(a) + Count(w)
        /\ \A i \in 1..Count(a) : InFront(a, w)[i] = a[i]
        /\ \A i \in 1..Count(w) : InFront(a, w)[Count(a) + i] = w[i]
    BY <1>1, <1>2, Joined
  <1> QED
    BY <1>1, <1>2, <1>3, <1>4

(* A command to halt is received.                                          *)
LEMMA HaltReceived ==
  ASSUME MicroTypes, Quiet, mTodo' = Micro!HaltSteps, mOps' = Micro!Halt(mOps), mAlive' \in BOOLEAN,
         UNCHANGED <<mFw, mArmed, mHeld>>
  PROVE  MicroInv'
  <1>1. /\ mTodo' \in Seq(MicroSteps) /\ Count(mTodo') = 5 /\ mTodo'[1].do = "disarm"
        /\ \A i \in 1..4 : mTodo'[1 + i] = Micro!Write(Micro!PinOrder[i], {})
    BY HaltsAre
  <1>2. /\ mOps' \in Firmwares /\ mOps'.seq = mOps.seq /\ mOps'.period = mOps.period
        /\ mOps'.running = FALSE /\ mOps'.pins = {}
    BY DEF MicroTypes, Firmwares, Micro!Halt, Micro!AllOff, Micro!States
  <1>3. MicroTypes'
    BY <1>1, <1>2 DEF MicroTypes
  <1>4. mTodo' # <<>> /\ Count(mTodo') <= 5 /\ ~(Count(mTodo') < 5)
    <2>1. Count(mTodo') > 0 /\ Count(mTodo') <= 5 /\ ~(Count(mTodo') < 5)
      BY <1>1
    <2> QED
      BY <1>1, <2>1, Counts
  <1>5. Left(mTodo', 4).do = "disarm"
    <2>1. Count(mTodo') - 4 = 1
      BY <1>1
    <2> QED
      BY <1>1, <2>1 DEF Left
  <1>6. Writing(mTodo', {}, 0)
    <2>1. ASSUME NEW i \in 1..4
          PROVE  Left(mTodo', 4 - i + 0) = Micro!Write(Micro!PinOrder[i], {})
      <3>1. Count(mTodo') - (4 - i + 0) = 1 + i
        BY <1>1
      <3> QED
        BY <1>1, <3>1 DEF Left
    <2> QED
      BY <2>1 DEF Writing
  <1>7. Halting'
    BY <1>2, <1>4, <1>5, <1>6 DEF Halting, Quiet, Together
  <1> QED
    BY <1>3, <1>7 DEF MicroInv

(* A new cycle is received.                                                *)
LEMMA CycleReceived ==
  ASSUME MicroTypes, Quiet, mAlive, NEW p \in Seq(Micro!States), p # <<>>,
         mTodo' = Micro!HaltSteps \o <<Micro!Swap(p)>>, mOps' = Micro!ProgramCycle(mOps, p),
         UNCHANGED <<mFw, mArmed, mHeld, mAlive>>
  PROVE  MicroInv'
  <1> DEFINE a == Micro!HaltSteps
             b == <<Micro!Swap(p)>>
  <1>1. /\ a \in Seq(MicroSteps) /\ Count(a) = 5 /\ a[1].do = "disarm"
        /\ \A i \in 1..4 : a[1 + i] = Micro!Write(Micro!PinOrder[i], {})
    BY HaltsAre
  <1>2. b \in Seq(MicroSteps) /\ Count(b) = 1 /\ b[1] = Micro!Swap(p)
    BY StepShapes DEF Count
  <1> HIDE DEF a, b
  <1>3. /\ mTodo' \in Seq(MicroSteps) /\ Count(mTodo') = 6
        /\ mTodo'[6] = Micro!Swap(p)
        /\ \A i \in 1..5 : mTodo'[i] = a[i]
    <2>1. mTodo' = InFront(a, b)
      BY DEF a, b, InFront
    <2>2. /\ InFront(a, b) \in Seq(MicroSteps) /\ Count(InFront(a, b)) = Count(a) + Count(b)
          /\ \A i \in 1..Count(a) : InFront(a, b)[i] = a[i]
          /\ \A i \in 1..Count(b) : InFront(a, b)[Count(a) + i] = b[i]
      BY <1>1, <1>2, Joined
    <2>3. InFront(a, b) \in Seq(MicroSteps) /\ Count(InFront(a, b)) = 6
      BY <1>1, <1>2, <2>2
    <2>4. \A i \in 1..5 : InFront(a, b)[i] = a[i]
      BY <1>1, <2>2
    <2>5. InFront(a, b)[6] = Micro!Swap(p)
      <3>1. 1 \in 1..Count(b) /\ Count(a) + 1 = 6
        BY <1>1, <1>2
      <3>2. InFront(a, b)[Count(a) + 1] = b[1]
        BY <2>2, <3>1
      <3> QED
        BY <1>2, <3>1, <3>2
    <2> QED
      BY <2>1, <2>3, <2>4, <2>5
  <1>4. /\ mOps' \in Firmwares /\ mOps'.seq = p /\ mOps'.period = mOps.period
        /\ mOps'.running = FALSE /\ mOps'.pins = {}
    <2> DEFINE h == Micro!Halt(mOps)
    <2>1. {} \in Micro!States /\ Len(p) > 0
      BY DEF Micro!States
    <2>2. h \in Firmwares /\ h.period = mOps.period /\ h.running = FALSE /\ h.pins = {}
      BY <2>1 DEF MicroTypes, Firmwares, Micro!Halt, Micro!AllOff
    <2>3. mOps' = [h EXCEPT !.seq = p, !.idx = 0]
      BY DEF Micro!ProgramCycle
    <2> HIDE DEF h
    <2>4. h \in [pins : Micro!States, seq : Seq(Micro!States), idx : Nat, period : Nat, running : BOOLEAN]
      BY <2>2 DEF Firmwares
    <2>5. mOps' = [pins |-> {}, seq |-> p, idx |-> 0, period |-> mOps.period, running |-> FALSE]
      BY <2>2, <2>3, <2>4
    <2>6. mOps.period \in Nat
      BY DEF MicroTypes, Firmwares
    <2>7. mOps' \in [pins : Micro!States, seq : Seq(Micro!States), idx : Nat, period : Nat, running : BOOLEAN]
      BY <2>1, <2>5, <2>6
    <2> QED
      BY <2>1, <2>5, <2>7 DEF Firmwares
  <1>5. MicroTypes'
    BY <1>3, <1>4 DEF MicroTypes
  <1>6. mTodo' # <<>> /\ Count(mTodo') <= 6 /\ ~(Count(mTodo') < 6)
    <2>1. Count(mTodo') > 0 /\ Count(mTodo') <= 6 /\ ~(Count(mTodo') < 6)
      BY <1>3
    <2> QED
      BY <1>3, <2>1, Counts
  <1>7. Left(mTodo', 5).do = "disarm" /\ Left(mTodo', 0) = Micro!Swap(mOps'.seq)
    <2>1. Count(mTodo') - 5 = 1 /\ Count(mTodo') - 0 = 6 /\ 1 \in 1..5
      BY <1>3
    <2> QED
      BY <1>1, <1>3, <1>4, <2>1 DEF Left
  <1>8. Writing(mTodo', {}, 1)
    <2>1. ASSUME NEW i \in 1..4
          PROVE  Left(mTodo', 4 - i + 1) = Micro!Write(Micro!PinOrder[i], {})
      <3>1. Count(mTodo') - (4 - i + 1) = 1 + i /\ 1 + i \in 1..5
        BY <1>3
      <3> QED
        BY <1>1, <1>3, <3>1 DEF Left
    <2> QED
      BY <2>1 DEF Writing
  <1>9. Swapping'
    BY <1>4, <1>6, <1>7, <1>8 DEF Swapping
  <1> QED
    BY <1>5, <1>9 DEF MicroInv

(* A state is set directly, the timer stopped ...                          *)
LEMMA SetReceived ==
  ASSUME MicroTypes, Quiet, mAlive, NEW p \in Micro!States, mOps' = Micro!SetDirect(mOps, p),
         mTodo' = IF mFw.running THEN Micro!HaltSteps \o Micro!Writes(p) ELSE Micro!Writes(p),
         UNCHANGED <<mFw, mArmed, mHeld, mAlive>>
  PROVE  MicroInv'
  <1> DEFINE a == Micro!HaltSteps
             w == Micro!Writes(p)
  <1>1. /\ a \in Seq(MicroSteps) /\ Count(a) = 5 /\ a[1].do = "disarm"
        /\ \A i \in 1..4 : a[1 + i] = Micro!Write(Micro!PinOrder[i], {})
    BY HaltsAre
  <1>2. w \in Seq(MicroSteps) /\ Count(w) = 4 /\ \A i \in 1..4 : w[i] = Micro!Write(Micro!PinOrder[i], p)
    BY WritesAre DEF Count
  <1>3. mTodo' = IF mFw.running THEN InFront(a, w) ELSE w
    BY DEF InFront
  <1> HIDE DEF a, w
  <1>4. /\ mOps' \in Firmwares /\ mOps'.seq = mOps.seq /\ mOps'.period = mOps.period
        /\ mOps'.running = FALSE /\ mOps'.pins = p
    BY DEF MicroTypes, Firmwares, Micro!SetDirect
  <1>5. mFw'.seq = mOps'.seq
    BY <1>4 DEF Quiet, Together
  <1>6. CASE mFw.running
    <2>1. /\ mTodo' \in Seq(MicroSteps) /\ Count(mTodo') = 9
          /\ \A i \in 1..5 : mTodo'[i] = a[i]
          /\ \A i \in 1..4 : mTodo'[5 + i] = w[i]
      <3>1. mTodo' = InFront(a, w)
        BY <1>3, <1>6
      <3>2. /\ InFront(a, w) \in Seq(MicroSteps) /\ Count(InFront(a, w)) = Count(a) + Count(w)
            /\ \A i \in 1..Count(a) : InFront(a, w)[i] = a[i]
            /\ \A i \in 1..Count(w) : InFront(a, w)[Count(a) + i] = w[i]
        BY <1>1, <1>2, Joined
      <3>3. InFront(a, w) \in Seq(MicroSteps) /\ Count(InFront(a, w)) = 9
        BY <1>1, <1>2, <3>2
      <3>4. \A i \in 1..5 : InFront(a, w)[i] = a[i]
        BY <1>1, <3>2
      <3>5. ASSUME NEW i \in 1..4
            PROVE  InFront(a, w)[5 + i] = w[i]
        <4>1. i \in 1..Count(w) /\ Count(a) + i = 5 + i
          BY <1>1, <1>2
        <4>2. InFront(a, w)[Count(a) + i] = w[i]
          BY <3>2, <4>1
        <4> QED
          BY <4>1, <4>2
      <3> QED
        BY <3>1, <3>3, <3>4, <3>5
    <2>2. MicroTypes'
      BY <1>4, <2>1 DEF MicroTypes
    <2>3. mTodo' # <<>> /\ Count(mTodo') <= 9 /\ ~(Count(mTodo') < 9)
      <3>1. Count(mTodo') > 0 /\ Count(mTodo') <= 9 /\ ~(Count(mTodo') < 9)
        BY <2>1
      <3> QED
        BY <2>1, <3>1, Counts
    <2>4. Left(mTodo', 8).do = "disarm"
      <3>1. Count(mTodo') - 8 = 1 /\ 1 \in 1..5
        BY <2>1
      <3> QED
        BY <1>1, <2>1, <3>1, ZenonT(60) DEF Left
    <2>5. Writing(mTodo', {}, 4)
      <3>1. ASSUME NEW i \in 1..4
            PROVE  Left(mTodo', 4 - i + 4) = Micro!Write(Micro!PinOrder[i], {})
        <4>1. Count(mTodo') - (4 - i + 4) = 1 + i /\ 1 + i \in 1..5
          BY <2>1, SMTT(30)
        <4>2. Left(mTodo', 4 - i + 4) = mTodo'[1 + i]
          BY <4>1 DEF Left
        <4>3. mTodo'[1 + i] = a[1 + i]
          BY <2>1, <4>1
        <4> QED
          BY <1>1, <4>2, <4>3
      <3> QED
        BY <3>1 DEF Writing
    <2>6. Writing(mTodo', mOps'.pins, 0)
      <3>1. ASSUME NEW i \in 1..4
            PROVE  Left(mTodo', 4 - i + 0) = Micro!Write(Micro!PinOrder[i], p)
        <4>1. Count(mTodo') - (4 - i + 0) = 5 + i
          BY <2>1
        <4>2. Left(mTodo', 4 - i + 0) = mTodo'[5 + i]
          BY <4>1 DEF Left
        <4>3. mTodo'[5 + i] = w[i]
          BY <2>1
        <4> QED
          BY <1>2, <4>2, <4>3
      <3> QED
        BY <1>4, <3>1 DEF Writing
    <2>7. Setting'
      BY <1>4, <1>5, <2>3, <2>4, <2>5, <2>6 DEF Setting
    <2> QED
      BY <2>2, <2>7 DEF MicroInv
  <1>7. CASE ~mFw.running
    <2>1. mTodo' = w /\ mTodo' \in Seq(MicroSteps) /\ Count(mTodo') = 4
      BY <1>2, <1>3, <1>7
    <2>2. MicroTypes'
      BY <1>4, <2>1 DEF MicroTypes
    <2>3. mTodo' # <<>> /\ Count(mTodo') <= 9 /\ Count(mTodo') # 9
      <3>1. Count(mTodo') > 0 /\ Count(mTodo') <= 9 /\ Count(mTodo') # 9
        BY <2>1
      <3> QED
        BY <2>1, <3>1, Counts
    <2>4. Writing(mTodo', {}, 4)
      <3>1. \A i \in 1..4 : ~(4 - i + 4 < Count(mTodo'))
        BY <2>1
      <3> QED
        BY <3>1 DEF Writing
    <2>5. Writing(mTodo', mOps'.pins, 0)
      <3>1. ASSUME NEW i \in 1..4
            PROVE  Left(mTodo', 4 - i + 0) = Micro!Write(Micro!PinOrder[i], p)
        <4>1. Count(mTodo') - (4 - i + 0) = i
          BY <2>1
        <4> QED
          BY <1>2, <2>1, <4>1 DEF Left
      <3> QED
        BY <1>4, <3>1 DEF Writing
    <2>6. Written(mTodo', mFw'.pins, mOps'.pins, 0)
      <3>1. \A i \in 1..4 : ~(4 - i + 0 >= Count(mTodo'))
        BY <2>1
      <3> QED
        BY <3>1 DEF Written
    <2>7. Setting'
      BY <1>4, <1>5, <1>7, <2>3, <2>4, <2>5, <2>6 DEF Setting
    <2> QED
      BY <2>2, <2>7 DEF MicroInv
  <1> QED
    BY <1>6, <1>7

(* The timer is started, or restarted.                                     *)
LEMMA StartReceived ==
  ASSUME MicroTypes, mAlive, mTodo' = Micro!StartSteps, mFw' \in Firmwares, mOps' \in Firmwares,
         mFw'.period = mOps'.period, mFw'.seq = mOps'.seq, mFw'.running = mFw.running, mOps'.running,
         UNCHANGED <<mArmed, mHeld, mAlive>>
  PROVE  MicroInv'
  <1> DEFINE a == Micro!Step("fetch")
             b == Micro!Step("arm")
  <1>1. a \in MicroSteps /\ a.do = "fetch" /\ b \in MicroSteps /\ b.do = "arm" /\ mTodo' = <<a, b>>
    BY StepShapes DEF Micro!StartSteps
  <1> HIDE DEF a, b
  <1>2. mTodo' \in Seq(MicroSteps) /\ Count(mTodo') = 2 /\ mTodo'[1].do = "fetch" /\ mTodo'[2].do = "arm"
    BY <1>1 DEF Count
  <1>3. Left(mTodo', 1).do = "fetch" /\ Left(mTodo', 0).do = "arm"
    <2>1. Count(mTodo') - 1 = 1 /\ Count(mTodo') - 0 = 2
      BY <1>2
    <2> QED
      BY <1>2, <2>1 DEF Left
  <1>4. MicroTypes'
    BY <1>2 DEF MicroTypes
  <1>5. Starting'
    BY <1>2, <1>3 DEF Starting
  <1> QED
    BY <1>4, <1>5 DEF MicroInv

(* The next state is asked for.                                            *)
LEMMA NextReceived ==
  ASSUME MicroTypes, Quiet, mAlive, mFw.seq # <<>>, mOps' = Micro!Advance(mOps),
         mTodo' = <<Micro!Step("next"), Micro!Step("store"), Micro!Step("fetch")>>,
         UNCHANGED <<mFw, mArmed, mHeld, mAlive>>
  PROVE  MicroInv'
  <1> DEFINE a == Micro!Step("next")
             b == Micro!Step("store")
             d == Micro!Step("fetch")
  <1>1. /\ a \in MicroSteps /\ a.do = "next" /\ b \in MicroSteps /\ b.do = "store"
        /\ d \in MicroSteps /\ d.do = "fetch" /\ mTodo' = <<a, b, d>>
    BY StepShapes
  <1> HIDE DEF a, b, d
  <1>2. /\ mTodo' \in Seq(MicroSteps) /\ Count(mTodo') = 3 /\ mTodo'[1].do = "next"
        /\ mTodo'[2].do = "store" /\ mTodo'[3].do = "fetch"
    BY <1>1 DEF Count
  <1>3. Left(mTodo', 2).do = "next" /\ Left(mTodo', 1).do = "store" /\ Left(mTodo', 0).do = "fetch"
    <2>1. Count(mTodo') - 2 = 1 /\ Count(mTodo') - 1 = 2 /\ Count(mTodo') - 0 = 3
      BY <1>2
    <2> QED
      BY <1>2, <2>1 DEF Left
  <1>4. mTodo' # <<>> /\ Count(mTodo') <= 3 /\ Count(mTodo') # 2
    <2>1. Count(mTodo') > 0 /\ Count(mTodo') <= 3 /\ Count(mTodo') # 2
      BY <1>2
    <2> QED
      BY <1>2, <2>1, Counts
  <1>5. /\ mOps' \in Firmwares /\ mOps'.seq = mOps.seq /\ mOps'.period = mOps.period
        /\ mOps'.running = mOps.running
    BY AdvanceKeeps DEF MicroTypes
  <1>6. MicroTypes' /\ Together'
    BY <1>2, <1>5 DEF MicroTypes, Quiet, Together
  <1>7. Stepping'
    BY <1>3, <1>4, <1>6 DEF Stepping
  <1> QED
    BY <1>6, <1>7 DEF MicroInv

(* A timer that starts keeps the cycle and the period.                     *)
LEMMA StartKeeps ==
  ASSUME NEW f \in Firmwares
  PROVE  /\ Micro!Start(f) \in Firmwares
         /\ Micro!Start(f).seq = f.seq /\ Micro!Start(f).period = f.period
         /\ f.running \/ Micro!CanStart(f) => Micro!Start(f).running
  <1>1. CASE Micro!CanStart(f)
    <2> DEFINE q == f.seq[f.idx + 1]
    <2>1. q \in Micro!States
      BY <1>1 DEF Firmwares, Micro!CanStart
    <2>2. Micro!Start(f) = [f EXCEPT !.pins = q, !.running = TRUE]
      BY <1>1 DEF Micro!Start
    <2> HIDE DEF q
    <2> QED
      BY <2>1, <2>2 DEF Firmwares
  <1>2. CASE ~Micro!CanStart(f)
    BY <1>2 DEF Micro!Start
  <1> QED
    BY <1>1, <1>2

(* The firmware as it boots.                                               *)
LEMMA BootedIs ==
  /\ Micro!Booted \in Firmwares /\ Micro!Booted.running = FALSE /\ <<>> \in Seq(MicroSteps)
  <1>1. <<>> \in Seq(Micro!States) /\ {} \in Micro!States /\ <<>> \in Seq(MicroSteps)
    BY DEF Micro!States
  <1> QED
    BY <1>1 DEF Micro!Booted, Micro!AllOff, Firmwares

(* With no step left the main thread is at rest.                           *)
LEMMA AtRestQuiet ==
  ASSUME MicroInv, mTodo = <<>>
  PROVE  Quiet
  <1>1. Count(mTodo) # 2
    <2>1. ~(Count(mTodo) > 0)
      BY Counts DEF MicroInv, MicroTypes
    <2> QED
      BY <2>1
  <1> QED
    BY <1>1 DEF MicroInv, Halting, Swapping, Setting, Starting, Arming, Stepping, Showing

(* A command is received.                                                  *)
LEMMA ReceiveStep ==
  ASSUME MicroTypes, Quiet, NEW c \in Micro!Commands, Micro!Receive(c)
  PROVE  MicroInv'
  <1>1. /\ mAlive /\ mTodo' = Micro!Steps(c) /\ mOps' = Micro!Handle(mOps, c)
        /\ mFw' = IF c.verb = "F" THEN [mFw EXCEPT !.period = c.us] ELSE mFw
        /\ UNCHANGED <<mArmed, mHeld, mAlive>>
    BY DEF Micro!Receive
  <1>2. /\ mTodo = <<>> /\ mFw.seq = mOps.seq /\ mFw.running = mOps.running
        /\ mFw \in Firmwares /\ mOps \in Firmwares /\ mFw.period = mOps.period
    BY DEF Quiet, Together, MicroTypes
  <1>3. CASE c \in {[verb |-> "S", pins |-> p] : p \in mDirects}
    <2>1. PICK p \in mDirects : c = [verb |-> "S", pins |-> p]
      BY <1>3
    <2>2. p \in Micro!States
      BY PartsAssumption DEF PartsAssumption, Micro!MicroSwitchAssumption
    <2>3. c.verb = "S" /\ c.pins = p
      BY <2>1
    <2>4. mTodo' = (IF mFw.running THEN Micro!HaltSteps ELSE <<>>) \o Micro!Writes(p)
      BY <1>1, <2>3 DEF Micro!Steps
    <2>5. <<>> \o Micro!Writes(p) = Micro!Writes(p)
      BY WritesAre, ConcatEmptySeq
    <2>6. mTodo' = IF mFw.running THEN Micro!HaltSteps \o Micro!Writes(p) ELSE Micro!Writes(p)
      BY <2>4, <2>5
    <2>7. mOps' = Micro!SetDirect(mOps, p) /\ mFw' = mFw
      BY <1>1, <2>3 DEF Micro!Handle
    <2> QED
      BY <1>1, <2>2, <2>6, <2>7, SetReceived
  <1>4. CASE c \in {[verb |-> "C", prog |-> p] : p \in mPrograms}
    <2>1. PICK p \in mPrograms : c = [verb |-> "C", prog |-> p]
      BY <1>4
    <2>2. p \in Seq(Micro!States) /\ p # <<>>
      BY PartsAssumption DEF PartsAssumption, Micro!MicroSwitchAssumption
    <2>3. c.verb = "C" /\ c.prog = p
      BY <2>1
    <2>4. mTodo' = Micro!HaltSteps \o <<Micro!Swap(p)>>
      BY <1>1, <2>3 DEF Micro!Steps
    <2>5. mOps' = Micro!ProgramCycle(mOps, p) /\ mFw' = mFw
      BY <1>1, <2>3 DEF Micro!Handle
    <2> QED
      BY <1>1, <2>2, <2>4, <2>5, CycleReceived
  <1>5. CASE c \in {[verb |-> "F", us |-> u] : u \in mPeriods}
    <2>1. PICK u \in mPeriods : c = [verb |-> "F", us |-> u]
      BY <1>5
    <2>2. u \in Nat /\ u # 0
      BY PartsAssumption DEF PartsAssumption, Micro!MicroSwitchAssumption
    <2>3. c.verb = "F" /\ c.us = u
      BY <2>1
    <2>4. mTodo' = IF mFw.running THEN Micro!StartSteps ELSE <<>>
      BY <1>1, <2>3 DEF Micro!Steps
    <2>5. mOps' = Micro!SetPeriod(mOps, u) /\ mFw' = [mFw EXCEPT !.period = u]
      BY <1>1, <2>3 DEF Micro!Handle
    <2>6. /\ mFw' \in Firmwares /\ mFw'.period = u /\ mFw'.seq = mFw.seq /\ mFw'.idx = mFw.idx
          /\ mFw'.running = mFw.running /\ mFw'.pins = mFw.pins
      BY <1>2, <2>2, <2>5 DEF Firmwares
    <2>7. CASE mFw.running
      <3>1. /\ mOps' \in Firmwares /\ mOps'.period = u /\ mOps'.seq = mOps.seq /\ mOps'.running
        <4>1. mFw.seq = mOps.seq /\ mOps.running
          BY <1>2, <2>7
        <4>2. mOps' = Micro!Start([mOps EXCEPT !.period = u])
          BY <2>5, <4>1 DEF Micro!SetPeriod
        <4>3. [mOps EXCEPT !.period = u] \in Firmwares
          BY <1>2, <2>2 DEF Firmwares
        <4>4. /\ [mOps EXCEPT !.period = u].seq = mOps.seq /\ [mOps EXCEPT !.period = u].period = u
              /\ [mOps EXCEPT !.period = u].running = mOps.running
          BY <1>2 DEF Firmwares
        <4> QED
          BY <4>1, <4>2, <4>3, <4>4, StartKeeps
      <3> QED
        BY <1>1, <1>2, <2>4, <2>6, <2>7, <3>1, StartReceived
    <2>8. CASE ~mFw.running
      <3>1. /\ mOps' \in Firmwares /\ mOps'.period = u /\ mOps'.seq = mOps.seq
            /\ mOps'.running = mOps.running /\ mOps'.pins = mOps.pins
        <4>1. mOps' = [mOps EXCEPT !.period = u]
          BY <1>2, <2>5, <2>8 DEF Micro!SetPeriod
        <4> QED
          BY <1>2, <2>2, <4>1 DEF Firmwares
      <3>2. MicroTypes' /\ Quiet'
        BY <1>1, <1>2, <2>4, <2>6, <2>8, <3>1 DEF MicroTypes, Quiet, Together
      <3> QED
        BY <3>2 DEF MicroInv
    <2> QED
      BY <2>7, <2>8
  <1>6. CASE c \in {[verb |-> v] : v \in {"G", "H", "K"}}
    <2>1. c.verb \in {"G", "H", "K"}
      BY <1>6
    <2>2. mFw' = mFw
      BY <1>1, <2>1
    <2>3. CASE c.verb = "G"
      <3>1. mOps' = Micro!Start(mOps) /\ mTodo' = IF Micro!CanStart(mFw) THEN Micro!StartSteps ELSE <<>>
        BY <1>1, <2>3 DEF Micro!Handle, Micro!Steps
      <3>2. Micro!CanStart(mFw) <=> Micro!CanStart(mOps)
        BY <1>2 DEF Micro!CanStart
      <3>3. CASE Micro!CanStart(mOps)
        <4>1. mOps' \in Firmwares /\ mOps'.seq = mOps.seq /\ mOps'.period = mOps.period /\ mOps'.running
          BY <1>2, <3>1, <3>3, StartKeeps DEF Micro!CanStart
        <4> QED
          BY <1>1, <1>2, <2>2, <3>1, <3>2, <3>3, <4>1, StartReceived
      <3>4. CASE ~Micro!CanStart(mOps)
        <4>1. mOps' = mOps /\ mTodo' = mTodo
          BY <1>2, <3>1, <3>2, <3>4 DEF Micro!Start
        <4> QED
          BY <1>1, <2>2, <4>1 DEF MicroInv, MicroTypes, Quiet, Together
      <3> QED
        BY <3>3, <3>4
    <2>4. CASE c.verb = "H"
      <3>1. mOps' = Micro!Halt(mOps) /\ mTodo' = Micro!HaltSteps
        BY <1>1, <2>4 DEF Micro!Handle, Micro!Steps
      <3>2. mAlive' \in BOOLEAN
        BY <1>1 DEF MicroTypes
      <3> QED
        BY <1>1, <2>2, <3>1, <3>2, HaltReceived
    <2>5. CASE c.verb = "K"
      <3>1. /\ mOps' = Micro!Advance(mOps)
            /\ mTodo' = IF mFw.seq # <<>> THEN <<Micro!Step("next"), Micro!Step("store"), Micro!Step("fetch")>>
                                          ELSE <<>>
        BY <1>1, <2>5 DEF Micro!Handle, Micro!Steps
      <3>2. CASE mFw.seq # <<>>
        BY <1>1, <2>2, <3>1, <3>2, NextReceived
      <3>3. CASE mFw.seq = <<>>
        <4>1. mOps' = mOps /\ mTodo' = mTodo
          BY <1>2, <3>1, <3>3 DEF Micro!Advance
        <4> QED
          BY <1>1, <2>2, <4>1 DEF MicroInv, MicroTypes, Quiet, Together
      <3> QED
        BY <3>2, <3>3
    <2> QED
      BY <2>1, <2>3, <2>4, <2>5
  <1> QED
    BY <1>3, <1>4, <1>5, <1>6 DEF Micro!Commands

(* The main thread takes a step.                                           *)
LEMMA MainGoes ==
  ASSUME MicroInv, Micro!MainStep
  PROVE  MicroInv'
  <1>1. MicroTypes /\ mTodo # <<>>
    BY DEF MicroInv, Micro!MainStep
  <1>2. ~Quiet
    BY <1>1 DEF Quiet
  <1> QED
    BY <1>1, <1>2, HaltGoes, SwapGoes, SetGoes, StartGoes, ArmGoes, NextGoes, ShowGoes DEF MicroInv

(* The invariant is inductive.                                             *)
LEMMA MicroStep ==
  ASSUME MicroInv, [Micro!Next]_Micro!vars
  PROVE  MicroInv'
  <1>1. ASSUME NEW c \in Micro!Commands, Micro!Receive(c)
        PROVE  MicroInv'
    <2>1. MicroTypes /\ mTodo = <<>>
      BY <1>1 DEF MicroInv, Micro!Receive, Micro!AtRest
    <2>2. Quiet
      BY <2>1, AtRestQuiet DEF MicroInv
    <2> QED
      BY <1>1, <2>1, <2>2, ReceiveStep
  <1>2. CASE Micro!Reset
    <2>1. /\ mFw' = Micro!Booted /\ mOps' = Micro!Booted /\ mArmed' = FALSE /\ mTodo' = <<>> /\ mAlive
          /\ UNCHANGED <<mHeld, mAlive>>
      BY <1>2 DEF Micro!Reset, Micro!AtRest
    <2>2. MicroTypes' /\ Quiet'
      BY <2>1, BootedIs DEF MicroInv, MicroTypes, Quiet, Together
    <2> QED
      BY <2>2 DEF MicroInv
  <1>3. CASE Micro!CtrlC
    <2>1. /\ mTodo = <<>> /\ mTodo' = Micro!HaltSteps /\ mAlive' = FALSE /\ mOps' = Micro!Halt(mOps)
          /\ UNCHANGED <<mFw, mArmed, mHeld>>
      BY <1>3 DEF Micro!CtrlC, Micro!AtRest
    <2>2. MicroTypes /\ Quiet
      BY <2>1, AtRestQuiet DEF MicroInv
    <2> QED
      BY <2>1, <2>2, HaltReceived
  <1>4. CASE Micro!MainStep
    BY <1>4, MainGoes
  <1>5. CASE Micro!TimerTick
    BY <1>5, TimerStep
  <1>6. CASE UNCHANGED Micro!vars
    BY <1>6 DEF Micro!vars, MicroInv, MicroTypes, Quiet, Together, Halting, Swapping, Setting, Starting,
       Arming, Stepping, Showing, Left, Writing, Written, Count
  <1> QED
    BY <1>1, <1>2, <1>3, <1>4, <1>5, <1>6 DEF Micro!Next

(* What holds of the firmware in every state.                              *)
LEMMA MicroInvariance == Micro!Spec => []MicroInv
  <1>1. Micro!Init => MicroInv
    <2> SUFFICES ASSUME Micro!Init
                 PROVE  MicroInv
      OBVIOUS
    <2>1. /\ mFw = Micro!Booted /\ mOps = Micro!Booted /\ mArmed = FALSE /\ mTodo = <<>> /\ mHeld = 0
          /\ mAlive = TRUE
      BY DEF Micro!Init
    <2>2. MicroTypes /\ Quiet
      BY <2>1, BootedIs DEF MicroTypes, Quiet, Together
    <2> QED
      BY <2>2 DEF MicroInv
  <1>2. MicroInv /\ [Micro!Next]_Micro!vars => MicroInv'
    BY MicroStep
  <1> QED
    BY <1>1, <1>2, PTL DEF Micro!Spec

(* The firmware at rest.                                                   *)
THEOREM HaltIsWhole == PartsSpec => []HaltedIsWhole
  <1>1. MicroInv => HaltedIsWhole
    <2> SUFFICES ASSUME MicroInv, mTodo = <<>>, ~mFw.running
                 PROVE  /\ mFw.pins = mOps.pins \/ (mFw.seq # <<>> /\ mFw.pins = mFw.seq[mFw.idx + 1])
                        /\ mFw.seq = mOps.seq /\ mFw.period = mOps.period /\ ~mOps.running
                        /\ ~mAlive => mFw.pins = {}
      BY DEF HaltedIsWhole, Micro!HaltedIsWhole, Micro!AtRest, Micro!AllOff
    <2>1. MicroTypes /\ Quiet
      BY AtRestQuiet DEF MicroInv
    <2> QED
      BY <2>1 DEF MicroTypes, Quiet, Together
  <1> QED
    BY <1>1, MicroMoves, MicroInvariance, PTL

-----------------------------------------------------------------------------
(* The types of the firmware and of the search.                             *)

(* The cycle and the period of the MicroPython firmware were once sent: its *)
(* steps hold no other cycle.                                               *)
SentPrograms == mPrograms \cup {<<>>}

SentSteps == {s \in MicroSteps : s.prog \in SentPrograms}

Sent ==
  mFw.seq \in SentPrograms /\ mFw.period \in mPeriods \cup {0} /\ mTodo \in Seq(SentSteps)

(* The steps that hold no cycle, and the one that does.                     *)
LEMMA StepsSent ==
  /\ \A op \in {"disarm", "fetch", "arm", "next", "store"} : Micro!Step(op) \in SentSteps
  /\ \A p \in mPrograms : Micro!Swap(p) \in SentSteps
  /\ \A q : Micro!Writes(q) \in Seq(SentSteps)
  <1>1. ASSUME NEW op \in {"disarm", "fetch", "arm", "next", "store"} PROVE Micro!Step(op) \in SentSteps
    <2>1. Micro!Step(op) \in MicroSteps /\ Micro!Step(op).prog = <<>>
      BY StepShapes DEF Micro!Step
    <2> QED
      BY <2>1 DEF SentSteps, SentPrograms
  <1>2. ASSUME NEW p \in mPrograms PROVE Micro!Swap(p) \in SentSteps
    <2>1. p \in Seq(Micro!States)
      BY PartsAssumption DEF PartsAssumption, Micro!MicroSwitchAssumption
    <2> QED
      BY <2>1, StepShapes DEF SentSteps, SentPrograms
  <1>3. ASSUME NEW q PROVE Micro!Writes(q) \in Seq(SentSteps)
    <2>1. ASSUME NEW i \in 1..4 PROVE Micro!Write(Micro!PinOrder[i], q) \in SentSteps
      <3>1. PICK pin \in Micro!Fets : pin = Micro!PinOrder[i]
        BY Pins
      <3>2. Micro!Write(pin, q) \in MicroSteps
        BY WriteShape
      <3>3. Micro!Write(pin, q).prog = <<>>
        BY DEF Micro!Write, Micro!Step
      <3> QED
        BY <3>1, <3>2, <3>3 DEF SentSteps, SentPrograms
    <2>2. Micro!Writes(q) = [i \in 1..4 |-> Micro!Write(Micro!PinOrder[i], q)]
      BY DEF Micro!Writes
    <2> QED
      BY <2>1, <2>2, IsASeq
  <1> QED
    BY <1>1, <1>2, <1>3

(* The steps of a command.                                                  *)
LEMMA CommandSent ==
  ASSUME NEW c \in Micro!Commands
  PROVE  Micro!Steps(c) \in Seq(SentSteps) /\ Micro!HaltSteps \in Seq(SentSteps)
  <1>1. Micro!HaltSteps \in Seq(SentSteps)
    <2>1. <<Micro!Step("disarm")>> \in Seq(SentSteps) /\ Micro!Writes(Micro!AllOff) \in Seq(SentSteps)
      BY StepsSent
    <2> QED
      BY <2>1, ConcatProperties DEF Micro!HaltSteps
  <1>2. CASE c \in {[verb |-> "S", pins |-> p] : p \in mDirects}
    <2>1. c.verb = "S"
      BY <1>2
    <2>2. Micro!Steps(c) = (IF mFw.running THEN Micro!HaltSteps ELSE <<>>) \o Micro!Writes(c.pins)
      BY <2>1 DEF Micro!Steps
    <2>3. (IF mFw.running THEN Micro!HaltSteps ELSE <<>>) \in Seq(SentSteps) /\ Micro!Writes(c.pins) \in Seq(SentSteps)
      BY <1>1, StepsSent
    <2> QED
      BY <1>1, <2>2, <2>3, ConcatProperties
  <1>3. CASE c \in {[verb |-> "C", prog |-> p] : p \in mPrograms}
    <2>1. PICK p \in mPrograms : c = [verb |-> "C", prog |-> p]
      BY <1>3
    <2>2. Micro!Steps(c) = Micro!HaltSteps \o <<Micro!Swap(p)>>
      BY <2>1 DEF Micro!Steps
    <2>3. <<Micro!Swap(p)>> \in Seq(SentSteps)
      BY StepsSent
    <2> QED
      BY <1>1, <2>2, <2>3, ConcatProperties
  <1>4. CASE c \in {[verb |-> "F", us |-> u] : u \in mPeriods} \cup {[verb |-> v] : v \in {"G", "H", "K"}}
    <2>1. c.verb \in {"F", "G", "H", "K"}
      BY <1>4
    <2>2. Micro!Steps(c) \in {<<>>, Micro!HaltSteps, <<Micro!Step("fetch"), Micro!Step("arm")>>,
                              <<Micro!Step("next"), Micro!Step("store"), Micro!Step("fetch")>>}
      BY <2>1 DEF Micro!Steps, Micro!StartSteps
    <2>3. /\ <<Micro!Step("fetch"), Micro!Step("arm")>> \in Seq(SentSteps)
          /\ <<Micro!Step("next"), Micro!Step("store"), Micro!Step("fetch")>> \in Seq(SentSteps)
      BY StepsSent
    <2>4. <<>> \in Seq(SentSteps)
      OBVIOUS
    <2> QED
      BY <1>1, <2>2, <2>3, <2>4, Zenon
  <1> QED
    BY <1>1, <1>2, <1>3, <1>4 DEF Micro!Commands

(* A step of the firmware keeps this.                                       *)
LEMMA SentKept ==
  ASSUME MicroInv, Sent, [Micro!Next]_Micro!vars
  PROVE  Sent'
  <1>0. mFw \in Firmwares /\ DOMAIN mFw = {"pins", "seq", "idx", "period", "running"}
    BY DEF MicroInv, MicroTypes, Firmwares
  <1>1. ASSUME NEW c \in Micro!Commands, Micro!Receive(c)
        PROVE  Sent'
    <2>1. mTodo' = Micro!Steps(c) /\ mFw' = IF c.verb = "F" THEN [mFw EXCEPT !.period = c.us] ELSE mFw
      BY <1>1 DEF Micro!Receive
    <2>2. c.verb = "F" => c.us \in mPeriods
      BY DEF Micro!Commands
    <2>3. mFw'.seq = mFw.seq /\ mFw'.period \in {mFw.period} \cup mPeriods
      BY <1>0, <2>1, <2>2
    <2> QED
      BY <2>1, <2>3, CommandSent DEF Sent
  <1>2. CASE Micro!Reset
    BY <1>2 DEF Micro!Reset, Micro!Booted, Sent, SentPrograms
  <1>3. CASE Micro!CtrlC
    <2>1. mTodo' = Micro!HaltSteps /\ mFw' = mFw
      BY <1>3 DEF Micro!CtrlC
    <2>2. [verb |-> "G"] \in Micro!Commands
      BY DEF Micro!Commands
    <2> QED
      BY <2>1, <2>2, CommandSent DEF Sent
  <1>4. CASE Micro!MainStep
    <2> DEFINE s == Head(mTodo)
               w == IF s.do = "fetch" THEN Micro!Writes(mFw.seq[mFw.idx + 1]) ELSE <<>>
    <2>1. s \in SentSteps /\ Tail(mTodo) \in Seq(SentSteps)
      BY <1>4 DEF Sent, Micro!MainStep
    <2>2. w \in Seq(SentSteps)
      BY StepsSent
    <2>3. mTodo' = w \o Tail(mTodo)
      BY <1>4 DEF Micro!MainStep
    <2>4. mTodo' \in Seq(SentSteps)
      <3> HIDE DEF w
      <3> QED
        BY <2>1, <2>2, <2>3, ConcatProperties
    <2>5. mFw'.seq \in {mFw.seq, s.prog} /\ mFw'.period = mFw.period
      <3> HIDE DEF s
      <3>1. \/ mFw' = mFw \/ mFw' = [mFw EXCEPT !.running = FALSE] \/ mFw' = [mFw EXCEPT !.running = TRUE]
            \/ \E q : mFw' = [mFw EXCEPT !.pins = q]
            \/ mFw' = [mFw EXCEPT !.seq = s.prog, !.idx = 0] \/ mFw' = [mFw EXCEPT !.idx = mHeld]
        BY <1>4 DEF Micro!MainStep, s
      <3> QED
        BY <1>0, <3>1
    <2>6. s.prog \in SentPrograms
      BY <2>1 DEF SentSteps
    <2> QED
      BY <2>4, <2>5, <2>6 DEF Sent
  <1>5. CASE Micro!TimerTick
    <2>1. mFw' = Micro!Advance(mFw) /\ mTodo' = mTodo
      BY <1>5 DEF Micro!TimerTick
    <2> QED
      BY <1>0, <2>1, AdvanceKeeps DEF Sent
  <1>6. CASE UNCHANGED Micro!vars
    BY <1>6 DEF Micro!vars, Sent
  <1> QED
    BY <1>1, <1>2, <1>3, <1>4, <1>5, <1>6 DEF Micro!Next

(* The type of the MicroPython firmware: no command has more than nine      *)
(* steps.                                                                   *)
LEMMA MicroTyped == PartsSpec => []Micro!TypeOK
  <1>1. Micro!Init => Sent
    BY DEF Micro!Init, Micro!Booted, Sent, SentPrograms
  <1>2. MicroInv /\ Sent /\ [Micro!Next]_Micro!vars => Sent'
    BY SentKept
  <1>3. MicroInv /\ Sent => Micro!TypeOK
    <2> SUFFICES ASSUME MicroInv, Sent PROVE Micro!TypeOK
      OBVIOUS
    <2>1. mFw \in Firmwares /\ mArmed = mFw.running /\ mAlive \in BOOLEAN /\ mHeld \in Nat
      BY DEF MicroInv, MicroTypes
    <2>2. mFw \in [pins : Micro!States, seq : SentPrograms, idx : Nat, period : mPeriods \cup {0}, running : BOOLEAN]
      BY <2>1, Zenon DEF Firmwares, Sent
    <2>3. Len(mTodo) <= 9
      <3>1. Count(mTodo) \in Nat /\ (mTodo = <<>> => Count(mTodo) = 0)
        BY Counts DEF MicroInv, MicroTypes
      <3>2. Quiet => mTodo = <<>>
        BY DEF Quiet
      <3>3. Count(mTodo) <= 9
        BY <3>1, <3>2 DEF MicroInv, Halting, Swapping, Setting, Starting, Arming, Stepping, Showing
      <3> QED
        BY <3>3 DEF Count
    <2>4. mArmed \in BOOLEAN /\ (mFw.seq # <<>> => mFw.idx < Len(mFw.seq))
      BY <2>1, Zenon DEF Firmwares
    <2> QED
      BY <2>1, <2>2, <2>3, <2>4, Zenon DEF SentPrograms, Micro!TypeOK
  <1> QED
    BY <1>1, <1>2, <1>3, MicroMoves, MicroInvariance, PTL DEF Micro!Spec

-----------------------------------------------------------------------------
(* The search for a Pi.  A dialog that is open was opened, and counts;      *)
(* whatever makes, holds or renews a connection has an address to go to;    *)
(* a join that has begun has an access point.                               *)
Windows == [kind : {"dialog", "picker"}, n : 1..sMaxScreens, here : sPis \cup {"lan", None},
            offers : SUBSET sPis]

PlaceTypes ==
  /\ sPlace \in [sPis -> {"off", "lan", "ap"}] /\ sWifi \in sPis \cup {"lan"}
  /\ sQueues \in BOOLEAN /\ sDue \in sPis \cup {None}

WindowTypes ==
  /\ sListed \subseteq sPis /\ sOpened \in 0..sMaxScreens
  /\ sScreens \in Seq(Windows) /\ Len(sScreens) <= sOpened

LinkTypes ==
  /\ {sCached, sTarget} \subseteq Find!Hosts \cup {None} /\ sTrying \subseteq Find!Hosts
  /\ sClient \in {None} \cup [pi : sPis, host : Find!Hosts] /\ sRetrying \in BOOLEAN
  /\ sName \in sPis \cup {None}
  /\ sTarget \notin Find!Hosts => sTrying = {} /\ sClient = None /\ ~sRetrying

FoundTypes == \A s \in sSearches : sSearch[s].found \in Find!Hosts \cup {None}

JoinTypes ==
  /\ DOMAIN sJoin = sJoins
  /\ \A j \in sJoins :
       sJoin[j] \in [at : {"none", "associate", "probe", "ok", "failed"}, ssid : sPis \cup {None},
                     by : Nat, via : sPis \cup {None}]
  /\ \A j \in sJoins : sJoin[j].at # "none" => sJoin[j].ssid \in sPis

FoundInv == PlaceTypes /\ WindowTypes /\ LinkTypes /\ FoundTypes /\ JoinTypes

(* What answers at an address is a Pi.                                      *)
LEMMA AnsweredByPi ==
  ASSUME PlaceTypes, NEW h \in Find!Hosts
  PROVE  Find!Reaches(h) \in sPis \cup {None}
  BY DEF PlaceTypes, Find!Reaches, Find!Answers, Find!Hosts, Find!Gateway

(* The world moves within its places.                                       *)
LEMMA MovesTyped ==
  ASSUME PlaceTypes, NEW pl \in [sPis -> {"off", "lan", "ap"}], NEW w \in sPis \cup {"lan"}, Find!Move(pl, w)
  PROVE  sPlace' \in [sPis -> {"off", "lan", "ap"}] /\ sWifi' \in sPis \cup {"lan"}
  BY DEF Find!Move

(* A search begins with nothing found.                                      *)
LEMMA BeginsTyped ==
  ASSUME FindInv, FoundTypes, NEW s \in sSearches, NEW by, Find!Begin(s, by)
  PROVE  FoundTypes'
  <1> DEFINE x == [at |-> 1, by |-> by, found |-> None]
  <1>1. sSearch' = [sSearch EXCEPT ![s] = x] /\ x.found = None
    BY DEF Find!Begin
  <1> HIDE DEF x
  <1>2. \A t \in sSearches : sSearch'[t] = IF t = s THEN x ELSE sSearch[t]
    BY <1>1 DEF FindInv, SearchTypes
  <1> QED
    BY <1>1, <1>2 DEF FoundTypes

(* It ends with nothing found, too.                                         *)
LEMMA DoneTyped ==
  ASSUME FindInv, FoundTypes, NEW s \in sSearches, sSearch' = Find!Done(s)
  PROVE  FoundTypes'
  <1> DEFINE x == [at |-> 0, by |-> Find!App, found |-> None]
  <1>1. sSearch' = [sSearch EXCEPT ![s] = x] /\ x.found = None
    BY DEF Find!Done
  <1> HIDE DEF x
  <1>2. \A t \in sSearches : sSearch'[t] = IF t = s THEN x ELSE sSearch[t]
    BY <1>1 DEF FindInv, SearchTypes
  <1> QED
    BY <1>1, <1>2 DEF FoundTypes

(* A connection is made to an address.                                      *)
LEMMA ConnectTyped ==
  ASSUME LinkTypes, PlaceTypes, NEW h \in Find!Hosts, Find!DoConnect(h), UNCHANGED sClient,
         sCached' \in Find!Hosts \cup {None}
  PROVE  LinkTypes'
  <1>1. sTarget' = h /\ sTrying' = sTrying \cup {h} /\ sRetrying' = FALSE /\ sName' \in sPis \cup {None}
    BY DEF Find!DoConnect, LinkTypes
  <1> QED
    BY <1>1 DEF LinkTypes

(* A dialog opens, with a number of its own.                                *)
LEMMA OpenTyped ==
  ASSUME WindowTypes, PlaceTypes, NEW kind \in {"dialog", "picker"}, Find!Open(kind), UNCHANGED sListed
  PROVE  WindowTypes'
  <1>1. sMaxScreens \in Nat
    BY PartsAssumption DEF PartsAssumption, Find!PiFinderAssumption
  <1>2. sOpened < sMaxScreens /\ sOpened' = sOpened + 1
    BY DEF Find!Open
  <1>3. sOpened' \in 0..sMaxScreens /\ sOpened + 1 \in 1..sMaxScreens
    BY <1>1, <1>2 DEF WindowTypes
  <1>4. PICK w \in Find!Ssid :
          sScreens' = Append(sScreens, [kind |-> kind, n |-> sOpened + 1, here |-> w,
                                        offers |-> IF kind = "picker" THEN sListed ELSE {}])
    BY DEF Find!Open
  <1>5. PICK x \in Windows : sScreens' = Append(sScreens, x)
    <2>1. w \in sPis \cup {"lan", None} /\ (IF kind = "picker" THEN sListed ELSE {}) \in SUBSET sPis
      BY DEF Find!Ssid, PlaceTypes, WindowTypes
    <2>2. [kind |-> kind, n |-> sOpened + 1, here |-> w,
           offers |-> IF kind = "picker" THEN sListed ELSE {}] \in Windows
      BY <1>3, <2>1 DEF Windows
    <2> QED
      BY <1>4, <2>2
  <1>6. sScreens' \in Seq(Windows) /\ Len(sScreens') = Len(sScreens) + 1
    BY <1>5 DEF WindowTypes
  <1>7. Len(sScreens') <= sOpened'
    <2>1. Len(sScreens) <= sOpened /\ Len(sScreens) \in Nat /\ sOpened \in Nat
      BY DEF WindowTypes
    <2> QED
      BY <1>2, <1>6, <2>1
  <1>8. Windows' = Windows
    BY DEF Windows
  <1> QED
    BY <1>3, <1>6, <1>7 DEF WindowTypes

(* The dialog in front is closed.                                           *)
LEMMA DismissTyped ==
  ASSUME WindowTypes, sScreens # <<>>, Find!Dismiss, UNCHANGED <<sListed, sOpened>>
  PROVE  WindowTypes'
  <1>1. sScreens' = SubSeq(sScreens, 1, Len(sScreens) - 1)
    BY DEF Find!Dismiss, Find!Front
  <1>2. sScreens \in Seq(Windows) /\ Len(sScreens) \in Nat \ {0}
    BY DEF WindowTypes
  <1>3. sScreens' \in Seq(Windows) /\ Len(sScreens') = Len(sScreens) - 1
    <2>1. PICK k \in Nat \ {0}, m \in Nat : k = Len(sScreens) /\ m = k - 1
      <3>1. PICK k \in Nat \ {0} : k = Len(sScreens)
        BY <1>2
      <3>2. k - 1 \in Nat
        OBVIOUS
      <3> QED
        BY <3>1, <3>2
    <2>2. \A i \in 1..m : i \in 1..k
      BY <2>1
    <2>3. \A i \in 1..m : sScreens[i] \in Windows
      BY <1>2, <2>1, <2>2
    <2>4. SubSeq(sScreens, 1, m) \in Seq(Windows) /\ Len(SubSeq(sScreens, 1, m)) = IF 1 <= m THEN m - 1 + 1 ELSE 0
      BY <2>3, SubSeqProperties
    <2>5. (IF 1 <= m THEN m - 1 + 1 ELSE 0) = m
      OBVIOUS
    <2> QED
      BY <1>1, <2>1, <2>4, <2>5
  <1>4. Len(sScreens') <= sOpened
    <2>1. Len(sScreens) <= sOpened /\ sOpened \in Nat
      BY DEF WindowTypes
    <2> QED
      BY <1>2, <1>3, <2>1
  <1> QED
    BY <1>3, <1>4 DEF WindowTypes

(* The dialog in front is one.                                              *)
LEMMA FrontIs ==
  ASSUME WindowTypes, sScreens # <<>>
  PROVE  /\ Find!Last(sScreens) \in Windows /\ Find!Last(sScreens) = sScreens[Len(sScreens)]
         /\ Len(sScreens) \in 1..Len(sScreens)
  <1>1. sScreens \in Seq(Windows) /\ Len(sScreens) \in 1..Len(sScreens)
    BY DEF WindowTypes
  <1> QED
    BY <1>1 DEF Find!Last

(* What is offered are Pis.                                                 *)
LEMMA OfferedArePis ==
  ASSUME WindowTypes, NEW p \in Find!Offered
  PROVE  p \in sPis /\ sScreens # <<>> /\ Find!Last(sScreens).n \in Nat
  <1>1. sScreens # <<>>
    BY DEF Find!Offered
  <1>2. PICK x \in Windows : x = Find!Last(sScreens)
    BY <1>1, FrontIs
  <1>3. x.offers \subseteq sPis /\ x.n \in Nat
    BY <1>2 DEF Windows
  <1>4. p \in sPis
    BY <1>1, <1>2, <1>3 DEF Find!Offered
  <1> QED
    BY <1>1, <1>2, <1>3, <1>4

(* A join changes to another that is one.                                   *)
LEMMA JoinTyped ==
  ASSUME JoinTypes, NEW j \in sJoins, NEW x, sJoin' = [sJoin EXCEPT ![j] = x],
         x \in [at : {"none", "associate", "probe", "ok", "failed"}, ssid : sPis \cup {None},
                by : Nat, via : sPis \cup {None}],
         x.at # "none" => x.ssid \in sPis
  PROVE  JoinTypes'
  <1>1. \A i \in sJoins : sJoin'[i] = IF i = j THEN x ELSE sJoin[i]
    BY DEF JoinTypes
  <1>2. DOMAIN sJoin' = sJoins
    BY DEF JoinTypes
  <1> QED
    BY <1>1, <1>2 DEF JoinTypes

(* A join goes on to its next step.                                         *)
LEMMA JoinStepTyped ==
  ASSUME JoinTypes, NEW j \in sJoins, NEW at \in {"probe", "failed"}, sJoin[j].at # "none",
         sJoin' = [sJoin EXCEPT ![j].at = at]
  PROVE  JoinTypes'
  <1> DEFINE x == [sJoin[j] EXCEPT !.at = at]
  <1>1. x \in [at : {"none", "associate", "probe", "ok", "failed"}, ssid : sPis \cup {None},
               by : Nat, via : sPis \cup {None}]
    BY DEF JoinTypes
  <1>3. x.ssid \in sPis
    BY DEF JoinTypes
  <1>2. sJoin' = [sJoin EXCEPT ![j] = x]
    BY DEF JoinTypes
  <1> HIDE DEF x
  <1> QED
    BY <1>1, <1>2, <1>3, JoinTyped

(* The steps that leave the dialogs and the joins alone.                    *)
LEMMA WorldTyped ==
  ASSUME FoundInv, FindInv,
         \/ Find!PiMoves \/ Find!LaptopRoams \/ Find!SystemJoins \/ Find!ConnectionLost
         \/ Find!Reconnected \/ Find!FlipToClient \/ Find!FlipToAp
  PROVE  FoundInv'
  <1>1. ASSUME UNCHANGED <<sListed, sScreens, sOpened>> PROVE WindowTypes'
    BY <1>1 DEF FoundInv, WindowTypes, Windows
  <1>2. ASSUME UNCHANGED <<sCached, sTarget, sTrying, sClient, sRetrying, sName>> PROVE LinkTypes'
    BY <1>2 DEF FoundInv, LinkTypes
  <1>3. ASSUME UNCHANGED sSearch PROVE FoundTypes'
    BY <1>3 DEF FoundInv, FoundTypes
  <1>4. ASSUME UNCHANGED sJoin PROVE JoinTypes'
    BY <1>4 DEF FoundInv, JoinTypes
  <1>5. ASSUME UNCHANGED <<sPlace, sWifi, sQueues, sDue>> PROVE PlaceTypes'
    BY <1>5 DEF FoundInv, PlaceTypes
  <1>6. CASE Find!PiMoves
    <2>1. /\ UNCHANGED <<sListed, sScreens, sOpened, sName, sCached, sTarget, sTrying, sClient, sRetrying>>
          /\ UNCHANGED <<sSearch, sJoin, sQueues, sDue>>
      BY <1>6 DEF Find!PiMoves, Find!ui, Find!conn
    <2>2. PICK p \in sPis, x \in {"off", "lan", "ap"} : Find!Move([sPlace EXCEPT ![p] = x], sWifi)
      BY <1>6 DEF Find!PiMoves
    <2>3. [sPlace EXCEPT ![p] = x] \in [sPis -> {"off", "lan", "ap"}] /\ sWifi \in sPis \cup {"lan"}
      BY DEF FoundInv, PlaceTypes
    <2>4. PlaceTypes'
      BY <2>1, <2>2, <2>3 DEF FoundInv, PlaceTypes, Find!Move
    <2> QED
      BY <1>1, <1>2, <1>3, <1>4, <2>1, <2>4 DEF FoundInv
  <1>7. CASE Find!LaptopRoams
    <2>1. /\ UNCHANGED <<sListed, sScreens, sOpened, sName, sCached, sTarget, sTrying, sClient, sRetrying>>
          /\ UNCHANGED <<sSearch, sJoin, sQueues, sDue>>
      BY <1>7 DEF Find!LaptopRoams, Find!ui, Find!conn
    <2>2. PICK w \in {"lan"} \cup {p \in sPis : sPlace[p] = "ap"} : Find!Move(sPlace, w)
      BY <1>7 DEF Find!LaptopRoams
    <2>4. PlaceTypes'
      BY <2>1, <2>2 DEF FoundInv, PlaceTypes, Find!Move
    <2> QED
      BY <1>1, <1>2, <1>3, <1>4, <2>1, <2>4 DEF FoundInv
  <1>8. CASE Find!SystemJoins
    <2>1. /\ UNCHANGED <<sListed, sScreens, sOpened, sName, sCached, sTarget, sTrying, sClient, sRetrying>>
          /\ UNCHANGED <<sSearch, sJoin, sQueues>> /\ sDue # None /\ sDue' = None
          /\ Find!Move(sPlace, sDue) \/ UNCHANGED <<sPlace, sWifi>>
      BY <1>8 DEF Find!SystemJoins, Find!ui, Find!conn
    <2>4. PlaceTypes'
      BY <2>1 DEF FoundInv, PlaceTypes, Find!Move
    <2> QED
      BY <1>1, <1>2, <1>3, <1>4, <2>1, <2>4 DEF FoundInv
  <1>9. CASE Find!ConnectionLost
    <2>1. /\ UNCHANGED <<sListed, sScreens, sOpened, sName, sCached, sTarget, sTrying>>
          /\ UNCHANGED <<sSearch, sJoin, sPlace, sWifi, sQueues, sDue>>
          /\ sClient # None /\ sClient' = None /\ sRetrying' = TRUE
      BY <1>9 DEF Find!ConnectionLost, Find!ui, Find!net
    <2>2. LinkTypes'
      BY <2>1 DEF FoundInv, LinkTypes
    <2> QED
      BY <1>1, <1>3, <1>4, <1>5, <2>1, <2>2 DEF FoundInv
  <1>10. CASE Find!Reconnected
    <2>1. /\ UNCHANGED <<sListed, sScreens, sOpened, sName, sCached, sTarget, sTrying>>
          /\ UNCHANGED <<sSearch, sJoin, sPlace, sWifi, sQueues, sDue>>
          /\ sRetrying /\ sRetrying' = FALSE
          /\ \/ Find!Reaches(sTarget) # None /\ sClient' = [pi |-> Find!Reaches(sTarget), host |-> sTarget]
             \/ sClient' = sClient
      BY <1>10 DEF Find!Reconnected, Find!ui, Find!net
    <2>2. sTarget \in Find!Hosts
      BY <2>1 DEF FoundInv, LinkTypes
    <2>3. Find!Reaches(sTarget) \in sPis \cup {None}
      BY <2>2, AnsweredByPi DEF FoundInv
    <2>4. sClient' \in {None} \cup [pi : sPis, host : Find!Hosts]
      BY <2>1, <2>2, <2>3 DEF FoundInv, LinkTypes
    <2>5. LinkTypes'
      BY <2>1, <2>2, <2>4 DEF FoundInv, LinkTypes
    <2> QED
      BY <1>1, <1>3, <1>4, <1>5, <2>1, <2>5 DEF FoundInv
  <1>11. CASE Find!FlipToClient
    <2>1. /\ UNCHANGED <<sListed, sScreens, sOpened, sName, sCached, sTarget, sTrying>>
          /\ UNCHANGED <<sJoin, sPlace, sWifi, sQueues, sDue>>
          /\ sClient' = None /\ sRetrying' = FALSE /\ \E s \in sSearches : Find!Begin(s, Find!App)
      BY <1>11 DEF Find!FlipToClient, Find!ui, Find!net
    <2>2. LinkTypes'
      BY <2>1 DEF FoundInv, LinkTypes
    <2>3. FoundTypes'
      BY <2>1, BeginsTyped DEF FoundInv
    <2> QED
      BY <1>1, <1>4, <1>5, <2>1, <2>2, <2>3 DEF FoundInv
  <1>12. CASE Find!FlipToAp
    <2>1. /\ UNCHANGED <<sListed, sScreens, sOpened, sName, sCached, sTrying>>
          /\ UNCHANGED <<sSearch, sJoin, sPlace, sWifi, sQueues, sDue>>
          /\ sClient' = None /\ sRetrying' = TRUE /\ sTarget' = Find!Gateway
      BY <1>12 DEF Find!FlipToAp, Find!ui, Find!net
    <2>2. LinkTypes'
      BY <2>1 DEF FoundInv, LinkTypes, Find!Hosts
    <2> QED
      BY <1>1, <1>3, <1>4, <1>5, <2>1, <2>2 DEF FoundInv
  <1> QED
    BY <1>6, <1>7, <1>8, <1>9, <1>10, <1>11, <1>12

(* The steps of the user.                                                   *)
LEMMA UserTyped ==
  ASSUME FoundInv, FindInv,
         \/ Find!OpenDialog \/ Find!SearchAgain \/ Find!EnterAddress \/ Find!Cancel
         \/ Find!OpenPicker \/ Find!Prescan \/ Find!PickerScan
  PROVE  FoundInv'
  <1>2. ASSUME UNCHANGED <<sCached, sTarget, sTrying, sClient, sRetrying, sName>> PROVE LinkTypes'
    BY <1>2 DEF FoundInv, LinkTypes
  <1>3. ASSUME UNCHANGED sSearch PROVE FoundTypes'
    BY <1>3 DEF FoundInv, FoundTypes
  <1>4. UNCHANGED <<sJoin, sPlace, sWifi, sQueues, sDue>>
    BY DEF Find!OpenDialog, Find!SearchAgain, Find!EnterAddress, Find!Cancel, Find!OpenPicker, Find!Prescan,
           Find!PickerScan, Find!net
  <1>5. JoinTypes' /\ PlaceTypes'
    BY <1>4 DEF FoundInv, JoinTypes, PlaceTypes
  <1>6. CASE Find!OpenDialog
    <2>1. /\ UNCHANGED <<sListed, sName, sCached, sTarget, sTrying>> /\ Find!Open("dialog")
          /\ sClient' = None /\ sRetrying' = FALSE /\ \E s \in sSearches : \E by : Find!Begin(s, by)
      BY <1>6 DEF Find!OpenDialog
    <2>2. LinkTypes'
      BY <2>1 DEF FoundInv, LinkTypes
    <2>3. FoundTypes'
      BY <2>1, BeginsTyped DEF FoundInv
    <2>4. WindowTypes'
      BY <2>1, OpenTyped DEF FoundInv
    <2> QED
      BY <1>5, <2>2, <2>3, <2>4 DEF FoundInv
  <1>7. CASE Find!SearchAgain
    <2>1. /\ UNCHANGED <<sListed, sScreens, sOpened, sName, sCached, sTarget, sTrying, sClient, sRetrying>>
          /\ \E s \in sSearches : \E by : Find!Begin(s, by)
      BY <1>7 DEF Find!SearchAgain, Find!ui, Find!conn
    <2>2. WindowTypes'
      BY <2>1 DEF FoundInv, WindowTypes, Windows
    <2>3. FoundTypes'
      BY <2>1, BeginsTyped DEF FoundInv
    <2> QED
      BY <1>2, <1>5, <2>1, <2>2, <2>3 DEF FoundInv
  <1>8. CASE Find!EnterAddress
    <2>1. /\ UNCHANGED <<sClient, sListed, sOpened, sCached, sSearch>> /\ Find!Dismiss /\ sScreens # <<>>
          /\ \E h \in Find!Hosts : Find!DoConnect(h)
      BY <1>8 DEF Find!EnterAddress, Find!InFront
    <2>2. WindowTypes'
      BY <2>1, DismissTyped DEF FoundInv
    <2>3. LinkTypes'
      <3>1. sCached' \in Find!Hosts \cup {None}
        BY <2>1 DEF FoundInv, LinkTypes
      <3> QED
        BY <2>1, <3>1, ConnectTyped DEF FoundInv
    <2> QED
      BY <1>3, <1>5, <2>1, <2>2, <2>3 DEF FoundInv
  <1>9. CASE Find!Cancel
    <2>1. /\ UNCHANGED <<sListed, sOpened, sName, sCached, sTarget, sTrying, sClient, sRetrying, sSearch>>
          /\ Find!Dismiss /\ sScreens # <<>>
      BY <1>9 DEF Find!Cancel, Find!conn
    <2>2. WindowTypes'
      BY <2>1, DismissTyped DEF FoundInv
    <2> QED
      BY <1>2, <1>3, <1>5, <2>1, <2>2 DEF FoundInv
  <1>10. CASE Find!OpenPicker
    <2>1. /\ UNCHANGED <<sListed, sName, sCached, sTarget, sTrying, sClient, sRetrying, sSearch>>
          /\ Find!Open("picker")
      BY <1>10 DEF Find!OpenPicker, Find!conn
    <2>2. WindowTypes'
      BY <2>1, OpenTyped DEF FoundInv
    <2> QED
      BY <1>2, <1>3, <1>5, <2>1, <2>2 DEF FoundInv
  <1>11. CASE Find!Prescan
    <2>1. /\ UNCHANGED <<sScreens, sOpened, sName, sCached, sTarget, sTrying, sClient, sRetrying, sSearch>>
          /\ sListed' \subseteq sPis
      BY <1>11 DEF Find!Prescan, Find!conn, Find!Scans
    <2>2. WindowTypes'
      BY <2>1 DEF FoundInv, WindowTypes, Windows
    <2> QED
      BY <1>2, <1>3, <1>5, <2>1, <2>2 DEF FoundInv
  <1>12. CASE Find!PickerScan
    <2>1. /\ UNCHANGED <<sOpened, sName, sCached, sTarget, sTrying, sClient, sRetrying, sSearch>>
          /\ sListed' \subseteq sPis /\ sScreens # <<>>
          /\ sScreens' = [sScreens EXCEPT ![Len(sScreens)].offers = sListed']
      BY <1>12 DEF Find!PickerScan, Find!conn, Find!Scans, Find!InFront
    <2> DEFINE n == Len(sScreens)
               x == [sScreens[n] EXCEPT !.offers = sListed']
    <2>2. sScreens \in Seq(Windows) /\ n \in 1..n /\ sScreens[n] \in Windows
      BY <2>1, FrontIs DEF FoundInv, WindowTypes
    <2>3. x \in Windows
      BY <2>1, <2>2 DEF Windows
    <2>4. sScreens' = [sScreens EXCEPT ![n] = x]
      BY <2>1
    <2> HIDE DEF x
    <2>5. sScreens' \in Seq(Windows) /\ Len(sScreens') = Len(sScreens)
      BY <2>2, <2>3, <2>4
    <2>6. Windows' = Windows
      BY DEF Windows
    <2>7. WindowTypes'
      BY <2>1, <2>5, <2>6 DEF FoundInv, WindowTypes
    <2> QED
      BY <1>2, <1>3, <1>5, <2>1, <2>7 DEF FoundInv
  <1> QED
    BY <1>6, <1>7, <1>8, <1>9, <1>10, <1>11, <1>12

(* The steps of a search, of a connection and of a join.                    *)
LEMMA SearchTyped ==
  ASSUME FoundInv, FindInv, NEW s \in sSearches,
         Find!ProbeHits(s) \/ Find!ProbeMisses(s) \/ Find!AppHears(s) \/ Find!DialogHears(s)
  PROVE  FoundInv'
  <1>1. UNCHANGED <<sJoin, sPlace, sWifi, sQueues, sDue, sListed>>
    BY DEF Find!ProbeHits, Find!ProbeMisses, Find!AppHears, Find!DialogHears, Find!net, Find!ui
  <1>2. JoinTypes' /\ PlaceTypes'
    BY <1>1 DEF FoundInv, JoinTypes, PlaceTypes
  <1>3. \A t \in sSearches : DOMAIN sSearch[t] = {"at", "by", "found"}
    BY DEF FindInv, SearchTypes
  <1>4. ASSUME UNCHANGED <<sListed, sScreens, sOpened>> PROVE WindowTypes'
    BY <1>4 DEF FoundInv, WindowTypes, Windows
  <1>5. ASSUME NEW x, x.found \in Find!Hosts \cup {None}, sSearch' = [sSearch EXCEPT ![s] = x]
        PROVE  FoundTypes'
    <2>1. \A t \in sSearches : sSearch'[t] = IF t = s THEN x ELSE sSearch[t]
      BY <1>5 DEF FindInv, SearchTypes
    <2> QED
      BY <1>5, <2>1 DEF FoundInv, FoundTypes
  <1>6. CASE Find!ProbeHits(s)
    <2>1. /\ UNCHANGED <<sScreens, sOpened, sName, sTarget, sTrying, sClient, sRetrying>>
          /\ \E h \in Find!Candidates(Find!Chain[sSearch[s].at]) :
               sSearch' = [sSearch EXCEPT ![s].found = h] /\ sCached' = h
      BY <1>6 DEF Find!ProbeHits, Find!ui, Find!conn
    <2>2. PICK h \in Find!Candidates(Find!Chain[sSearch[s].at]) :
            sSearch' = [sSearch EXCEPT ![s].found = h] /\ sCached' = h
      BY <2>1
    <2>3. h \in Find!Hosts
      BY DEF Find!Candidates, Find!Hosts, FoundInv, LinkTypes
    <2> DEFINE x == [sSearch[s] EXCEPT !.found = h]
    <2>4. sSearch' = [sSearch EXCEPT ![s] = x] /\ x.found = h
      BY <1>3, <2>2 DEF FindInv, SearchTypes
    <2> HIDE DEF x
    <2>5. FoundTypes'
      BY <1>5, <2>3, <2>4
    <2>6. LinkTypes'
      BY <2>1, <2>2, <2>3 DEF FoundInv, LinkTypes
    <2> QED
      BY <1>1, <1>2, <1>4, <2>1, <2>5, <2>6 DEF FoundInv
  <1>7. CASE Find!ProbeMisses(s)
    <2>1. /\ UNCHANGED <<sScreens, sOpened, sName, sCached, sTarget, sTrying, sClient, sRetrying>>
          /\ sSearch' = [sSearch EXCEPT ![s].at = @ + 1]
      BY <1>7 DEF Find!ProbeMisses, Find!ui, Find!conn
    <2> DEFINE x == [sSearch[s] EXCEPT !.at = @ + 1]
    <2>2. sSearch' = [sSearch EXCEPT ![s] = x] /\ x.found = sSearch[s].found
      BY <1>3, <2>1 DEF FindInv, SearchTypes
    <2> HIDE DEF x
    <2>3. FoundTypes'
      BY <1>5, <2>2 DEF FoundInv, FoundTypes
    <2>4. LinkTypes'
      BY <2>1 DEF FoundInv, LinkTypes
    <2> QED
      BY <1>1, <1>2, <1>4, <2>1, <2>3, <2>4 DEF FoundInv
  <1>8. CASE Find!AppHears(s)
    <2>1. UNCHANGED sCached /\ sSearch' = Find!Done(s)
      BY <1>8 DEF Find!AppHears
    <2>2. FoundTypes'
      BY <2>1, DoneTyped DEF FoundInv
    <2>3. sCached' \in Find!Hosts \cup {None}
      BY <2>1 DEF FoundInv, LinkTypes
    <2>4. CASE sSearch[s].found # None /\ Find!DoConnect(sSearch[s].found) /\ UNCHANGED <<sClient, sScreens, sOpened>>
      <3>1. sSearch[s].found \in Find!Hosts
        BY <2>4 DEF FoundInv, FoundTypes
      <3>2. LinkTypes'
        BY <2>3, <2>4, <3>1, ConnectTyped DEF FoundInv
      <3> QED
        BY <1>1, <1>2, <1>4, <2>2, <2>4, <3>2 DEF FoundInv
    <2>5. CASE Find!Open("dialog") /\ UNCHANGED <<sTarget, sClient, sTrying, sRetrying, sName>>
      <3>1. LinkTypes'
        BY <2>1, <2>5 DEF FoundInv, LinkTypes
      <3>2. WindowTypes'
        BY <1>1, <2>5, OpenTyped DEF FoundInv
      <3> QED
        BY <1>2, <2>2, <3>1, <3>2 DEF FoundInv
    <2> QED
      BY <1>8, <2>4, <2>5 DEF Find!AppHears, Find!conn
  <1>9. CASE Find!DialogHears(s)
    <2>1. UNCHANGED <<sClient, sOpened, sCached>> /\ sSearch' = Find!Done(s)
      BY <1>9 DEF Find!DialogHears
    <2>2. FoundTypes'
      BY <2>1, DoneTyped DEF FoundInv
    <2>3. sCached' \in Find!Hosts \cup {None}
      BY <2>1 DEF FoundInv, LinkTypes
    <2>4. CASE /\ Find!Hears(sSearch[s].by) /\ sSearch[s].found # None
               /\ Find!DoConnect(sSearch[s].found) /\ Find!Dismiss
      <3>1. sSearch[s].found \in Find!Hosts
        BY <2>4 DEF FoundInv, FoundTypes
      <3>2. LinkTypes'
        BY <2>1, <2>3, <2>4, <3>1, ConnectTyped DEF FoundInv
      <3>3. WindowTypes'
        BY <1>1, <2>1, <2>4, DismissTyped DEF FoundInv, Find!Hears
      <3> QED
        BY <1>2, <2>2, <3>2, <3>3 DEF FoundInv
    <2>5. CASE UNCHANGED <<sTarget, sTrying, sRetrying, sName, sScreens>>
      <3>1. LinkTypes'
        BY <2>1, <2>5 DEF FoundInv, LinkTypes
      <3> QED
        BY <1>1, <1>2, <1>4, <2>1, <2>2, <2>5, <3>1 DEF FoundInv
    <2> QED
      BY <1>9, <2>4, <2>5 DEF Find!DialogHears
  <1> QED
    BY <1>6, <1>7, <1>8, <1>9

(* An attempt to connect ends, in a connection or none.                     *)
LEMMA ConnectEndsTyped ==
  ASSUME FoundInv, NEW h \in Find!Hosts, Find!ConnectEnds(h)
  PROVE  FoundInv'
  <1>1. /\ UNCHANGED <<sListed, sScreens, sOpened, sName, sTarget, sRetrying>>
        /\ UNCHANGED <<sSearch, sJoin, sPlace, sWifi, sQueues, sDue>>
        /\ h \in sTrying /\ sTrying' = sTrying \ {h}
        /\ \/ UNCHANGED <<sClient, sCached>>
           \/ /\ Find!Reaches(h) # None /\ sClient' = [pi |-> Find!Reaches(h), host |-> h]
              /\ sCached' = IF h = sTarget THEN h ELSE sCached
    BY DEF Find!ConnectEnds, Find!ui, Find!net
  <1>2. sTarget \in Find!Hosts
    BY <1>1 DEF FoundInv, LinkTypes
  <1>3. Find!Reaches(h) \in sPis \cup {None}
    BY AnsweredByPi DEF FoundInv
  <1>4. sClient' \in {None} \cup [pi : sPis, host : Find!Hosts] /\ sCached' \in Find!Hosts \cup {None}
    BY <1>1, <1>3 DEF FoundInv, LinkTypes
  <1>5. LinkTypes'
    BY <1>1, <1>2, <1>4 DEF FoundInv, LinkTypes
  <1>6. WindowTypes' /\ FoundTypes'
    BY <1>1 DEF FoundInv, WindowTypes, Windows, FoundTypes
  <1>7. PlaceTypes' /\ JoinTypes'
    BY <1>1 DEF FoundInv, PlaceTypes, JoinTypes
  <1> QED
    BY <1>5, <1>6, <1>7 DEF FoundInv

(* A join begins, goes on or ends.                                          *)
LEMMA JoinsTyped ==
  ASSUME FoundInv, FindInv, NEW j \in sJoins,
         \/ Find!StartJoin(j) \/ Find!Associate(j) \/ Find!Enqueue(j) \/ Find!AssociateFails(j)
         \/ Find!GatewayAnswers(j) \/ Find!JoinEnds(j)
  PROVE  FoundInv'
  <1> DEFINE Attempts == [at : {"none", "associate", "probe", "ok", "failed"}, ssid : sPis \cup {None},
                          by : Nat, via : sPis \cup {None}]
  <1>1. JoinTypes /\ sJoin[j] \in Attempts /\ (sJoin[j].at # "none" => sJoin[j].ssid \in sPis)
    BY DEF FoundInv, JoinTypes
  <1>2. UNCHANGED <<sSearch, sListed, sOpened>>
    BY DEF Find!StartJoin, Find!Associate, Find!Enqueue, Find!AssociateFails, Find!GatewayAnswers, Find!JoinEnds,
           Find!ui
  <1>3. FoundTypes'
    BY <1>2 DEF FoundInv, FoundTypes
  <1>4. ASSUME UNCHANGED <<sScreens, sCached, sTarget, sTrying, sClient, sRetrying, sName>>
        PROVE  WindowTypes' /\ LinkTypes'
    BY <1>2, <1>4 DEF FoundInv, WindowTypes, Windows, LinkTypes
  <1>5. ASSUME UNCHANGED <<sPlace, sWifi, sQueues, sDue>> PROVE PlaceTypes'
    BY <1>5 DEF FoundInv, PlaceTypes
  <1>6. CASE Find!StartJoin(j)
    <2>1. UNCHANGED <<sScreens, sCached, sTarget, sTrying, sClient, sRetrying, sName, sPlace, sWifi, sQueues, sDue>>
      BY <1>6 DEF Find!StartJoin, Find!net, Find!ui, Find!conn
    <2>2. PICK p \in Find!Offered :
            sJoin' = [sJoin EXCEPT ![j] = [at |-> "associate", ssid |-> p, by |-> Find!Last(sScreens).n, via |-> None]]
      BY <1>6 DEF Find!StartJoin
    <2>3. p \in sPis /\ Find!Last(sScreens).n \in Nat
      BY OfferedArePis DEF FoundInv
    <2> DEFINE x == [at |-> "associate", ssid |-> p, by |-> Find!Last(sScreens).n, via |-> None]
    <2>4. x \in Attempts /\ x.ssid \in sPis
      BY <2>3
    <2>5. JoinTypes'
      <3> HIDE DEF x
      <3> QED
        BY <1>1, <2>2, <2>4, JoinTyped DEF x
    <2> QED
      BY <1>3, <1>4, <1>5, <2>1, <2>5 DEF FoundInv
  <1>7. CASE Find!Associate(j)
    <2>1. /\ UNCHANGED <<sScreens, sCached, sTarget, sTrying, sClient, sRetrying, sName, sQueues, sDue>>
          /\ sJoin[j].at = "associate" /\ Find!Move(sPlace, sJoin[j].ssid)
          /\ sJoin' = [sJoin EXCEPT ![j].at = "probe"]
      BY <1>7 DEF Find!Associate, Find!ui, Find!conn
    <2>2. JoinTypes'
      BY <1>1, <2>1, JoinStepTyped
    <2>3. PlaceTypes'
      BY <1>1, <2>1 DEF FoundInv, PlaceTypes, Find!Move
    <2> QED
      BY <1>3, <1>4, <2>1, <2>2, <2>3 DEF FoundInv
  <1>8. CASE Find!Enqueue(j)
    <2>1. /\ UNCHANGED <<sScreens, sCached, sTarget, sTrying, sClient, sRetrying, sName, sQueues, sPlace, sWifi>>
          /\ sJoin[j].at = "associate" /\ sDue' = sJoin[j].ssid
          /\ sJoin' = [sJoin EXCEPT ![j].at = "probe"]
      BY <1>8 DEF Find!Enqueue, Find!ui, Find!conn
    <2>2. JoinTypes'
      BY <1>1, <2>1, JoinStepTyped
    <2>3. PlaceTypes'
      BY <1>1, <2>1 DEF FoundInv, PlaceTypes
    <2> QED
      BY <1>3, <1>4, <2>1, <2>2, <2>3 DEF FoundInv
  <1>9. CASE Find!AssociateFails(j)
    <2>1. /\ UNCHANGED <<sScreens, sCached, sTarget, sTrying, sClient, sRetrying, sName, sPlace, sWifi, sQueues, sDue>>
          /\ sJoin[j].at = "associate" /\ sJoin' = [sJoin EXCEPT ![j].at = "failed"]
      BY <1>9 DEF Find!AssociateFails, Find!net, Find!ui, Find!conn
    <2>2. JoinTypes'
      BY <1>1, <2>1, JoinStepTyped
    <2> QED
      BY <1>3, <1>4, <1>5, <2>1, <2>2 DEF FoundInv
  <1>10. CASE Find!GatewayAnswers(j)
    <2>1. /\ UNCHANGED <<sScreens, sCached, sTarget, sTrying, sClient, sRetrying, sName, sPlace, sWifi, sQueues, sDue>>
          /\ sJoin[j].at = "probe"
          /\ \/ sJoin' = [sJoin EXCEPT ![j].at = "ok", ![j].via = Find!Reaches(Find!Gateway)]
             \/ sJoin' = [sJoin EXCEPT ![j].at = "failed"]
      BY <1>10 DEF Find!GatewayAnswers, Find!net, Find!ui, Find!conn
    <2>2. JoinTypes'
      <3>1. CASE sJoin' = [sJoin EXCEPT ![j].at = "failed"]
        BY <1>1, <2>1, <3>1, JoinStepTyped
      <3>2. CASE sJoin' = [sJoin EXCEPT ![j].at = "ok", ![j].via = Find!Reaches(Find!Gateway)]
        <4>1. PICK v \in sPis \cup {None} : v = Find!Reaches(Find!Gateway)
          BY AnsweredByPi DEF FoundInv, Find!Hosts
        <4> DEFINE x == [sJoin[j] EXCEPT !.at = "ok", !.via = v]
        <4>2. x \in Attempts /\ x.ssid \in sPis
          BY <1>1, <2>1
        <4>3. sJoin' = [sJoin EXCEPT ![j] = x]
          BY <1>1, <3>2, <4>1 DEF JoinTypes
        <4> HIDE DEF x
        <4> QED
          BY <1>1, <4>2, <4>3, JoinTyped
      <3> QED
        BY <2>1, <3>1, <3>2
    <2> QED
      BY <1>3, <1>4, <1>5, <2>1, <2>2 DEF FoundInv
  <1>11. CASE Find!JoinEnds(j)
    <2> DEFINE x == [at |-> "none", ssid |-> None, by |-> Find!App, via |-> None]
    <2>1. UNCHANGED <<sPlace, sWifi, sQueues, sDue>> /\ sJoin' = [sJoin EXCEPT ![j] = x]
          /\ sJoin[j].at \in {"ok", "failed"}
      BY <1>11 DEF Find!JoinEnds, Find!net
    <2>2. x \in Attempts /\ x.at = "none"
      BY DEF Find!App
    <2>3. JoinTypes'
      <3> HIDE DEF x
      <3> QED
        BY <1>1, <2>1, <2>2, JoinTyped
    <2>4. CASE UNCHANGED <<sScreens, sCached, sTarget, sTrying, sClient, sRetrying, sName>>
      BY <1>3, <1>4, <1>5, <2>1, <2>3, <2>4 DEF FoundInv
    <2>5. CASE Find!Hears(sJoin[j].by) /\ Find!Dismiss /\ Find!DoConnect(Find!Gateway) /\ UNCHANGED <<sClient, sCached>>
      <3>1. WindowTypes'
        BY <1>2, <2>5, DismissTyped DEF FoundInv, Find!Hears
      <3>2. sCached' \in Find!Hosts \cup {None} /\ Find!Gateway \in Find!Hosts
        BY <2>5 DEF FoundInv, LinkTypes, Find!Hosts
      <3>3. LinkTypes'
        BY <2>5, <3>2, ConnectTyped DEF FoundInv
      <3> QED
        BY <1>3, <1>5, <2>1, <2>3, <3>1, <3>3 DEF FoundInv
    <2>6. CASE /\ Find!Hears(sJoin[j].by) /\ Find!Dismiss
               /\ sName' = sJoin[j].ssid /\ sClient' = None /\ sCached' = Find!Gateway
               /\ sTarget' = Find!Gateway /\ sTrying' = sTrying \cup {Find!Gateway} /\ sRetrying' = FALSE
      <3>1. WindowTypes'
        BY <1>2, <2>6, DismissTyped DEF FoundInv, Find!Hears
      <3>2. Find!Gateway \in Find!Hosts
        BY DEF Find!Hosts
      <3>3. LinkTypes'
        BY <1>1, <2>1, <2>6, <3>2 DEF FoundInv, LinkTypes
      <3> QED
        BY <1>3, <1>5, <2>1, <2>3, <3>1, <3>3 DEF FoundInv
    <2> QED
      BY <1>11, <2>4, <2>5, <2>6 DEF Find!JoinEnds, Find!conn
  <1> QED
    BY <1>6, <1>7, <1>8, <1>9, <1>10, <1>11

(* A sequence within a bound is a sequence.                                 *)
LEMMA Bounded ==
  ASSUME NEW S, NEW q \in Seq(S), NEW m \in Nat, Len(q) <= m
  PROVE  q \in Find!BoundedSeq(S, m)
  <1>1. Len(q) \in 0..m /\ q \in [1..Len(q) -> S]
    OBVIOUS
  <1> QED
    BY <1>1 DEF Find!BoundedSeq, Find!SeqOf

(* The search has its type.                                                 *)
LEMMA FindTyped == PartsSpec => []Find!TypeOK
  <1>1. Find!Init => FoundInv
    <2> SUFFICES ASSUME Find!Init PROVE FoundInv
      OBVIOUS
    <2>1. PlaceTypes
      BY DEF Find!Init, PlaceTypes
    <2>2. WindowTypes
      <3>1. sMaxScreens \in Nat
        BY PartsAssumption DEF PartsAssumption, Find!PiFinderAssumption
      <3>2. sListed = {} /\ sOpened = 0 /\ sScreens = <<>>
        BY DEF Find!Init
      <3> QED
        BY <3>1, <3>2 DEF WindowTypes
    <2>3. LinkTypes
      BY DEF Find!Init, LinkTypes
    <2>4. FoundTypes
      BY DEF Find!Init, FoundTypes
    <2>5. JoinTypes
      BY DEF Find!Init, JoinTypes, Find!App
    <2> QED
      BY <2>1, <2>2, <2>3, <2>4, <2>5 DEF FoundInv
  <1>2. FoundInv /\ FindInv /\ [Find!Next]_Find!vars => FoundInv'
    <2> SUFFICES ASSUME FoundInv, FindInv, [Find!Next]_Find!vars PROVE FoundInv'
      OBVIOUS
    <2>1. CASE UNCHANGED Find!vars
      <3>1. UNCHANGED <<sPlace, sWifi, sQueues, sDue, sListed, sCached, sScreens, sOpened, sSearch, sJoin, sTarget,
                        sClient, sTrying, sRetrying, sName>>
        BY <2>1 DEF Find!vars, Find!net, Find!ui, Find!conn
      <3>2. PlaceTypes' /\ LinkTypes'
        BY <3>1 DEF FoundInv, PlaceTypes, LinkTypes
      <3>3. WindowTypes' /\ FoundTypes' /\ JoinTypes'
        BY <3>1 DEF FoundInv, WindowTypes, Windows, FoundTypes, JoinTypes
      <3> QED
        BY <3>2, <3>3 DEF FoundInv
    <2> QED
      BY <2>1, WorldTyped, UserTyped, ConnectEndsTyped, SearchTyped, JoinsTyped DEF Find!Next
  <1>3. FoundInv /\ FindInv => Find!TypeOK
    <2> SUFFICES ASSUME FoundInv, FindInv PROVE Find!TypeOK
      OBVIOUS
    <2>1. sScreens \in Find!BoundedSeq(Windows, sMaxScreens)
      <3>1. /\ sScreens \in Seq(Windows) /\ Len(sScreens) <= sOpened /\ sOpened \in 0..sMaxScreens
            /\ sMaxScreens \in Nat /\ Len(sScreens) \in Nat
        BY PartsAssumption DEF PartsAssumption, Find!PiFinderAssumption, FoundInv, WindowTypes
      <3>2. Len(sScreens) <= sMaxScreens
        BY <3>1
      <3> QED
        BY <3>1, <3>2, Bounded
    <2>2. \A s \in sSearches : sSearch[s].at \in 0..Len(Find!Chain) + 1 /\ sSteady[s] \subseteq Find!Hosts
      BY ChainSteps DEF FindInv, SearchTypes
    <2>3. \A j \in sJoins : sJoin[j].at \in {"none", "associate", "probe", "ok", "failed"}
      BY DEF FoundInv, JoinTypes
    <2> QED
      BY <2>1, <2>2, <2>3 DEF FoundInv, PlaceTypes, WindowTypes, LinkTypes, Windows, Find!TypeOK
  <1> QED
    BY <1>1, <1>2, <1>3, FindInvariance, FindMoves, PTL DEF Find!Spec
===============================================================================
