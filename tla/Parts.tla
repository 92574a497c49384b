------------------------------- MODULE Parts -------------------------------
(***************************************************************************)
(* The parts whose safety is checked and proved side by side, each on its  *)
(* own: "part" says which of them moves.  They share no state; where parts *)
(* interact, one module holds both.  The dashboard's Fleet is extended, so *)
(* that its names are its own, and the other parts are instances.          *)
(***************************************************************************)
EXTENDS Fleet

CONSTANTS
  mPrograms, mPeriods, mDirects,                      \* MicroSwitch
  wFiles, wSamples, wDebounce, wMaxElapsed,           \* CycleWatch
  nWorkers, nMaxFlips, nMaxPresses, nMaxFaults,       \* PiNetwork
  kMinFreq, kMaxFreq, kNumSequences, kMaxTurns, kMaxPresses,      \* Knob
  lFiles, lSessions, lMaxRows, lMaxAsks, lMaxFaults,  \* LogTransfer
  cPrime, cSampleTarget, cDefects, cMaxRuns, cMaxFaults,          \* Calibration
  sPis, sKind, sSearches, sJoins, sMaxFaults, sMaxScreens          \* PiFinder

VARIABLES
  part,  \* the part that moves
  mFw, mArmed, mTodo, mHeld, mAlive, mOps,
  wSchedule, wRunning, wElapsed, wDetector, wFed, wLatest, wRecent,
  nRadio, nLed, nWorker, nRecent, nPresses, nFlips, nFaults, nMixed,
  kSteps, kPolled, kOffset, kFreqBase, kFreq, kSequence, kSelecting,
  kModeBase, kSel, kCoarse, kDetailed, kDown, kHeld, kCalm, kPresses, kTurned,
  kRetuned,
  lLogger, lBusy, lStopper, lSession, lMac, lPutting, lRows, lWriting,
  lRemote, lLocal, lOffload, lLast, lCareless, lAsks, lFaults,
  cDefect, cS_cal, cAmps, cWizard, cSending, cSpoiled, cSaved, cRuns, cFaults,
  sPlace, sWifi, sQueues, sDue, sListed, sCached, sScreens, sOpened, sSearch, sJoin,
  sTarget, sClient, sTrying, sRetrying, sName, sSteady, sFaults

Micro == INSTANCE MicroSwitch WITH
  Programs <- mPrograms, Periods <- mPeriods, Directs <- mDirects,
  fw <- mFw, armed <- mArmed, todo <- mTodo, held <- mHeld, alive <- mAlive,
  ops <- mOps

Watch == INSTANCE CycleWatch WITH
  Files <- wFiles, Samples <- wSamples, Debounce <- wDebounce,
  MaxElapsed <- wMaxElapsed, schedule <- wSchedule, running <- wRunning,
  elapsed <- wElapsed, detector <- wDetector, fed <- wFed, latest <- wLatest,
  recent <- wRecent

Net == INSTANCE PiNetwork WITH
  Workers <- nWorkers, MaxFlips <- nMaxFlips, MaxPresses <- nMaxPresses,
  MaxFaults <- nMaxFaults,
  radio <- nRadio, led <- nLed, worker <- nWorker, recent <- nRecent,
  presses <- nPresses, flips <- nFlips, faults <- nFaults, mixed <- nMixed

Dial == INSTANCE Knob WITH
  MinFreq <- kMinFreq, MaxFreq <- kMaxFreq, NumSequences <- kNumSequences,
  MaxTurns <- kMaxTurns, MaxPresses <- kMaxPresses, steps <- kSteps, polled <- kPolled, offset <- kOffset,
  freqBase <- kFreqBase, freq <- kFreq, sequence <- kSequence,
  selecting <- kSelecting, modeBase <- kModeBase, sel <- kSel,
  coarse <- kCoarse, detailed <- kDetailed, down <- kDown, held <- kHeld,
  calm <- kCalm, presses <- kPresses, turned <- kTurned, retuned <- kRetuned

Log == INSTANCE LogTransfer WITH
  Files <- lFiles, Sessions <- lSessions, MaxRows <- lMaxRows,
  MaxAsks <- lMaxAsks, MaxFaults <- lMaxFaults, logger <- lLogger, busy <- lBusy, stopper <- lStopper,
  session <- lSession, mac <- lMac, putting <- lPutting, rows <- lRows,
  writing <- lWriting, remote <- lRemote, local <- lLocal,
  offload <- lOffload, last <- lLast, careless <- lCareless, asks <- lAsks,
  faults <- lFaults

Cal == INSTANCE Calibration WITH
  Prime <- cPrime, SAMPLE_TARGET <- cSampleTarget, Defects <- cDefects,
  MaxRuns <- cMaxRuns, MaxFaults <- cMaxFaults,
  defect <- cDefect, s_cal <- cS_cal, amps <- cAmps, wizard <- cWizard,
  sending <- cSending, spoiled <- cSpoiled, saved <- cSaved, runs <- cRuns,
  faults <- cFaults

Find == INSTANCE PiFinder WITH
  Pis <- sPis, Kind <- sKind, Searches <- sSearches, Joins <- sJoins,
  MaxFaults <- sMaxFaults, MaxScreens <- sMaxScreens, place <- sPlace, wifi <- sWifi,
  queues <- sQueues, due <- sDue, listed <- sListed, cached <- sCached,
  screens <- sScreens,
  opened <- sOpened, search <- sSearch, join <- sJoin, target <- sTarget,
  client <- sClient, trying <- sTrying, retrying <- sRetrying, name <- sName,
  steady <- sSteady, faults <- sFaults

(* What each part assumes of its constants. *)
PartsAssumption ==
  /\ Micro!MicroSwitchAssumption
  /\ Watch!CycleWatchAssumption
  /\ Net!PiNetworkAssumption
  /\ Dial!KnobAssumption
  /\ Log!LogTransferAssumption
  /\ Cal!CalibrationAssumption
  /\ Find!PiFinderAssumption
  /\ FleetAssumption

ASSUME PartsAssumption

mVars == <<mFw, mArmed, mTodo, mHeld, mAlive, mOps>>
wVars == <<wSchedule, wRunning, wElapsed, wDetector, wFed, wLatest, wRecent>>
nVars == <<nRadio, nLed, nWorker, nRecent, nPresses, nFlips, nFaults, nMixed>>
kVars == <<kSteps, kPolled, kOffset, kFreqBase, kFreq, kSequence, kSelecting,
           kModeBase, kSel, kCoarse, kDetailed, kDown, kHeld, kCalm, kPresses,
           kTurned, kRetuned>>
lVars == <<lLogger, lBusy, lStopper, lSession, lMac, lPutting, lRows,
           lWriting, lRemote, lLocal, lOffload, lLast, lCareless, lAsks,
           lFaults>>
cVars == <<cDefect, cS_cal, cAmps, cWizard, cSending, cSpoiled, cSaved, cRuns,
           cFaults>>
sVars == <<sPlace, sWifi, sQueues, sDue, sListed, sCached, sScreens, sOpened, sSearch,
           sJoin, sTarget, sClient, sTrying, sRetrying, sName, sSteady,
           sFaults>>

-----------------------------------------------------------------------------
Parts ==
  {"micro", "cycle", "net", "knob", "log", "cal", "find", "fleet"}

(* A part that rests may do so in one initial state. *)
Resting ==
  /\ part # "net" => nRadio = "client"
  /\ part # "knob" => kFreq = kMinFreq
  /\ part # "cal" => cDefect = [ch \in Cal!Channels |-> <<1, 0>>]
  /\ part # "find" => /\ sPlace = [p \in sPis |-> "off"] /\ sWifi = "lan"
                      /\ ~sQueues /\ sCached = None
  /\ part # "fleet" => inRange = {}

PartsInit ==
  /\ part \in Parts
  /\ Init
  /\ Micro!Init
  /\ Watch!Init
  /\ Net!Init
  /\ Dial!Init
  /\ Log!Init
  /\ Cal!Init
  /\ Find!Init
  /\ Resting

PartsNext ==
  /\ UNCHANGED part
  /\ IF part = "micro" THEN Micro!Next ELSE UNCHANGED mVars
  /\ IF part = "cycle" THEN Watch!Next ELSE UNCHANGED wVars
  /\ IF part = "net" THEN Net!Next ELSE UNCHANGED nVars
  /\ IF part = "knob" THEN Dial!Next ELSE UNCHANGED kVars
  /\ IF part = "log" THEN Log!Next ELSE UNCHANGED lVars
  /\ IF part = "cal" THEN Cal!Next ELSE UNCHANGED cVars
  /\ IF part = "find" THEN Find!Next ELSE UNCHANGED sVars
  /\ IF part = "fleet" THEN Next ELSE UNCHANGED vars

allVars == <<part, vars, mVars, wVars, nVars, kVars, lVars, cVars, sVars>>

PartsSpec == PartsInit /\ [][PartsNext]_allVars

-----------------------------------------------------------------------------
(* The state has the type its module declares, part by part. *)
PartsTypeOK ==
  /\ TypeOK
  /\ Micro!TypeOK
  /\ Watch!TypeOK
  /\ Net!TypeOK
  /\ Dial!TypeOK
  /\ Log!TypeOK
  /\ Cal!TypeOK
  /\ Find!TypeOK

(* However ticks fall between the steps of a command, a mixed state does    *)
(* not outlive the switching of the MicroPython firmware.                   *)
HaltedIsWhole == Micro!HaltedIsWhole

(* The plan of the schedule monitor agrees with the program written out.    *)
PlanIsOnTime == Watch!PlanIsOnTime

(* The detector changes its mind only when enough snapshots in a row        *)
(* speak for it.                                                            *)
ChangesOnEvidence == Watch!ChangesOnEvidence

(* A blink leaves the LED as it found it, unless two were under way at      *)
(* once.                                                                    *)
LedIsRestored == Net!LedIsRestored

(* The frequency moves with the dial of the Pi, whatever is pressed.        *)
FrequencyFollowsDial == Dial!FrequencyFollowsDial

(* A stop removes no recording from the Pi that is not whole on the         *)
(* laptop.                                                                  *)
RemovedIsWhole == Log!RemovedIsWhole

(* A laptop recording holds every row that was accepted for it.             *)
SessionIsKept == Log!SessionIsKept

(* An undisturbed calibration makes both channels read what flows.          *)
SavedIsTrue == Cal!SavedIsTrue

(* A search that finds no server has missed none.                           *)
NothingMissed == Find!NothingMissed

=============================================================================
