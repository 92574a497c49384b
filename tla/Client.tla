------------------------------- MODULE Client -------------------------------
(***************************************************************************)
(* The two ends of the system, each on its own: the terminal client, with  *)
(* its connection and its keys, and the switching core of the RP2040.      *)
(* "part" says which of them moves.  SwitchIsr is extended, so that the    *)
(* core has its own names, and the client's parts are instances.           *)
(***************************************************************************)
EXTENDS SwitchIsr

CONSTANTS
  None,
  tThreads, tSocks, tFlowKinds, tMaxFlows, tMaxFaults, tMaxRetries, tBuffer,   \* TuiLink
  pPis, pKeys, pMaxFreq, pQueueSize, pMaxKeys, pMaxFaults                      \* Panel

VARIABLES
  part,  \* the part that moves
  tState, tStop, tSubscribed, tCur, tRecvThread, tHost, tTh, tUi, tPath, tNet,
  tCli, tSrv, tLive, tC2s, tS2c, tSubscribers, tMadeBy, tFlows, tFaults,
  pShown, pPi, pLink, pStop, pQueue, pDrain, pSender, pWire, pFrame,
  pSettings, pGiven, pCarried, pFaults

Tui == INSTANCE TuiLink WITH
  Threads <- tThreads, Socks <- tSocks, Flows <- tFlowKinds,
  MaxFlows <- tMaxFlows, MaxFaults <- tMaxFaults, MaxRetries <- tMaxRetries,
  Buffer <- tBuffer, state <- tState, stop <- tStop,
  subscribed <- tSubscribed, cur <- tCur, recvThread <- tRecvThread,
  host <- tHost, th <- tTh, ui <- tUi, path <- tPath, net <- tNet,
  cli <- tCli, srv <- tSrv, live <- tLive, c2s <- tC2s, s2c <- tS2c,
  subscribers <- tSubscribers, madeBy <- tMadeBy, flows <- tFlows,
  faults <- tFaults

Keys == INSTANCE Panel WITH
  Pis <- pPis, Keys <- pKeys, MaxFreq <- pMaxFreq, QueueSize <- pQueueSize,
  MaxKeys <- pMaxKeys, MaxFaults <- pMaxFaults, shown <- pShown, pi <- pPi,
  link <- pLink, stop <- pStop, queue <- pQueue, drain <- pDrain,
  sender <- pSender, wire <- pWire, frame <- pFrame, settings <- pSettings,
  given <- pGiven, carried <- pCarried, faults <- pFaults

(* What each part assumes of its constants. *)
ClientAssumption ==
  /\ Tui!TuiLinkAssumption
  /\ Keys!PanelAssumption

ASSUME ClientAssumption

tVars == <<tState, tStop, tSubscribed, tCur, tRecvThread, tHost, tTh, tUi,
           tPath, tNet, tCli, tSrv, tLive, tC2s, tS2c, tSubscribers, tMadeBy,
           tFlows, tFaults>>
pVars == <<pShown, pPi, pLink, pStop, pQueue, pDrain, pSender, pWire, pFrame,
           pSettings, pGiven, pCarried, pFaults>>

-----------------------------------------------------------------------------
Parts == {"switch", "tui", "panel"}

(* A part that rests has one initial state. *)
Resting ==
  part # "panel" => pPi = CHOOSE p \in pPis : TRUE

ClientInit ==
  /\ part \in Parts
  /\ Init
  /\ Tui!Init
  /\ Keys!Init
  /\ Resting

ClientNext ==
  /\ UNCHANGED part
  /\ IF part = "switch" THEN Next ELSE UNCHANGED vars
  /\ IF part = "tui" THEN Tui!Next ELSE UNCHANGED tVars
  /\ IF part = "panel" THEN Keys!Next ELSE UNCHANGED pVars

clientVars == <<part, vars, tVars, pVars>>

ClientSpec == ClientInit /\ [][ClientNext]_clientVars

-----------------------------------------------------------------------------
(* The state has the type its module declares, part by part. *)
ClientTypeOK ==
  /\ TypeOK
  /\ Tui!TypeOK
  /\ Keys!TypeOK

(* A client that comes to rest showing "Connected" receives the stream.     *)
RestIsFed == Tui!RestIsFed

(* Commands are carried out in the order in which the keys were pressed.    *)
OrderIsKept == Keys!OrderIsKept
=============================================================================
