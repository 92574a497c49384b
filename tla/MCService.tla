----------------------------- MODULE MCService -----------------------------
(***************************************************************************)
(* Small instances of Service, under the fairness each module states; the  *)
(* network of the dashboard does not fail.                                 *)
(***************************************************************************)
EXTENDS Service, TLC

CONSTANTS c1, c2

ASSUME Callers = {c1, c2} /\ aClients = {c1} /\ aTimers = {c2}

(* What a fair action leaves to the next-state relation: "raced". *)
aState == <<aFw, aFets, aMode, aModeLock, aDebugStep, aEngine, aFlushTimer,
            aAf, aHoldoff, aCurrent, aPc, aGoal, aProg, aSince, aLabel, aDark,
            aRewound>>

moving ==
  CASE part = "stream" -> mVars
    [] part = "link"   -> vars
    [] part = "auto"   -> aState
    [] part = "fleet"  -> fVars

(* The actions that are fair in each module, in any order.  As one part    *)
(* moves, the n-th stands for that of each part.                           *)
FairAction(n) ==
  /\ UNCHANGED part
  /\ \/ /\ part = "stream"
        /\ \/ n = 1 /\ Stream!MainLoop
           \/ n = 2 /\ Stream!TimePasses
     \/ /\ part = "link"
        /\ \/ n = 1 /\ Caller(c1)
           \/ n = 2 /\ Caller(c2)
           \/ n = 3 /\ Execute
           \/ n = 4 /\ ReadLine
           \/ n = 5 /\ RecordFrame
     \/ /\ part = "auto"
        /\ \/ n = 1 /\ Control!ClientStep(c1)
           \/ n = 2 /\ Control!AutoTick
           \/ n = 3 /\ Control!Acquire(c1)
           \/ n = 4 /\ Control!Acquire(Control!AutoLoop)
           \/ n = 5 /\ Control!ChangeMode(c1)
           \/ n = 6 /\ Control!ChangeMode(Control!AutoLoop)
           \/ n = 7 /\ Control!Program(c1)
           \/ n = 8 /\ Control!Program(Control!AutoLoop)
           \/ n = 9 /\ Control!Program(c2)
           \/ n = 10 /\ Control!TimerFires(c2)
           \/ n = 11 /\ Control!Flush(c2)
           \/ n = 12 /\ Control!HoldoffEnds
     \/ /\ part = "fleet"
        /\ \/ n = 1 /\ Dashboard!Cycler
           \/ n = 2 /\ Dashboard!SetRepollEvent

ServiceFairness == \A n \in 1..12 : WF_moving(FairAction(n))

FairServiceSpec == ServiceSpec /\ ServiceFairness

-----------------------------------------------------------------------------
(* A stream that is on emits, whatever happens to the ALERT line.           *)
StreamGoesOn == Stream!StreamGoesOn

(* With no thread changing the target, a low current makes the bridge       *)
(* pass through.                                                            *)
LowCurrentIsTransparent == Control!LowCurrentIsTransparent

(* A pending command is sent in the end, if its Pi stays in range.          *)
CommandsAreSent == Dashboard!CommandsAreSent

=============================================================================
