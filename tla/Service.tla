------------------------------ MODULE Service ------------------------------
(***************************************************************************)
(* What has to go on by itself, side by side: the serial link of the       *)
(* server's driver and the firmware that answers it (SerialLink, which is  *)
(* extended), the sensor stream of the MicroPython firmware, the control   *)
(* core with auto-follow, and the dashboard.  They share no state; "part"  *)
(* says which of them moves.                                               *)
(*                                                                         *)
(* ModeProofs and FleetProofs extend ModeCore and Fleet by theorems only:  *)
(* instances of them bring the theorems along.                             *)
(***************************************************************************)
EXTENDS SerialLink

CONSTANTS
  mChips, mMaxRate, mMaxBurst, mProfileRows,                  \* MicroStream
  aClients, aTimers, aModePicks, aSequencePicks, aStepTimes,
  aCalls, aDebugFets, aLevels,                                \* ModeCore
  fPis, fMaxCommands, fMaxRepolls, fNetFails, fRoams, fPisMove  \* Fleet

VARIABLES
  part,  \* the part that moves
  mBus, mWired, mPresent, mCnvr, mFlagged, mNewer, mReady, mArmed, mEnabled,
  mHz, mEstimate, mMeasured, mAge, mBurst, mAt, mRows, mTodo, mRow,
  aFw, aFets, aMode, aModeLock, aDebugStep, aEngine, aFlushTimer, aAf,
  aHoldoff, aCurrent, aPc, aGoal, aProg, aSince, aLabel, aDark, aRewound,
  aRaced,
  fInRange, fExecuted, fAp, fCommands, fStatus, fSaved, fPolledOnce, fRepoll,
  fPc, fVisible, fOrder, fSending, fWebPc, fRepolls, fOwed, fRoamed

Stream == INSTANCE MicroStream WITH
  Chips <- mChips, MaxRate <- mMaxRate, MaxBurst <- mMaxBurst,
  ProfileRows <- mProfileRows,
  bus <- mBus, wired <- mWired, present <- mPresent, cnvr <- mCnvr,
  flagged <- mFlagged, newer <- mNewer, ready <- mReady, armed <- mArmed,
  enabled <- mEnabled, hz <- mHz, estimate <- mEstimate,
  measured <- mMeasured, age <- mAge, burst <- mBurst, at <- mAt,
  rows <- mRows, todo <- mTodo, row <- mRow

Control == INSTANCE ModeProofs WITH
  Clients <- aClients, Timers <- aTimers, ModePicks <- aModePicks,
  SequencePicks <- aSequencePicks, StepTimes <- aStepTimes, Calls <- aCalls,
  DebugFets <- aDebugFets, Levels <- aLevels, fw <- aFw, fets <- aFets,
  mode <- aMode, modeLock <- aModeLock, debugStep <- aDebugStep,
  engine <- aEngine, flushTimer <- aFlushTimer, af <- aAf,
  holdoff <- aHoldoff, current <- aCurrent, pc <- aPc, goal <- aGoal,
  prog <- aProg, since <- aSince, label <- aLabel, dark <- aDark,
  rewound <- aRewound, raced <- aRaced

Dashboard == INSTANCE FleetProofs WITH
  Pis <- fPis, MaxCommands <- fMaxCommands, MaxRepolls <- fMaxRepolls,
  NetFails <- fNetFails, Roams <- fRoams, PisMove <- fPisMove, inRange <- fInRange,
  executed <- fExecuted, ap <- fAp, commands <- fCommands, status <- fStatus,
  saved <- fSaved, polledOnce <- fPolledOnce, repoll <- fRepoll, pc <- fPc,
  visible <- fVisible, order <- fOrder, sending <- fSending, webPc <- fWebPc,
  repolls <- fRepolls, owed <- fOwed, roamed <- fRoamed

(* What each part assumes of its constants. *)
ASSUME ServiceAssumption ==
  /\ Stream!MicroStreamAssumption
  /\ Control!ThreadsDiffer /\ Control!PicksAreLegal
  /\ Dashboard!FleetAssumption

mVars == <<mBus, mWired, mPresent, mCnvr, mFlagged, mNewer, mReady, mArmed,
           mEnabled, mHz, mEstimate, mMeasured, mAge, mBurst, mAt, mRows,
           mTodo, mRow>>
aVars == <<aFw, aFets, aMode, aModeLock, aDebugStep, aEngine, aFlushTimer,
           aAf, aHoldoff, aCurrent, aPc, aGoal, aProg, aSince, aLabel, aDark,
           aRewound, aRaced>>
fVars == <<fInRange, fExecuted, fAp, fCommands, fStatus, fSaved, fPolledOnce,
           fRepoll, fPc, fVisible, fOrder, fSending, fWebPc, fRepolls, fOwed,
           fRoamed>>

-----------------------------------------------------------------------------
Parts == {"stream", "link", "auto", "fleet"}

(* A part that rests has one initial state. *)
Resting ==
  /\ part # "stream" => mBus = {} /\ mWired = FALSE
  /\ part # "fleet" => fInRange = {}

ServiceInit ==
  /\ part \in Parts
  /\ Stream!Init
  /\ Init
  /\ Control!Init
  /\ Dashboard!Init
  /\ Resting

ServiceNext ==
  /\ UNCHANGED part
  /\ IF part = "stream" THEN Stream!Next ELSE UNCHANGED mVars
  /\ IF part = "link" THEN Next ELSE UNCHANGED vars
  /\ IF part = "auto" THEN Control!Next ELSE UNCHANGED aVars
  /\ IF part = "fleet" THEN Dashboard!Next ELSE UNCHANGED fVars

serviceVars == <<part, mVars, vars, aVars, fVars>>

ServiceSpec == ServiceInit /\ [][ServiceNext]_serviceVars

-----------------------------------------------------------------------------
(* The state has the type its module declares, part by part. *)
ServiceTypeOK ==
  /\ TypeOK
  /\ Stream!TypeOK
  /\ Control!TypeOK
  /\ Dashboard!TypeOK

(* A row released by the ALERT interrupt holds a new conversion.            *)
RowIsFresh == Stream!RowIsFresh
=============================================================================
