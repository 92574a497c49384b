------------------------------ MODULE MCClient ------------------------------
(***************************************************************************)
(* A small instance of the two ends of the system, with the fairness each  *)
(* module of the client states.                                            *)
(***************************************************************************)
EXTENDS Client, TLC

(* Cycles of different lengths, so that a live swap can leave the index     *)
(* beyond the new cycle and stale states behind it.                         *)
PhaseA == {"P1", "N1"}
PhaseB == {"P2", "N2"}
Cross  == {"P1", "N2"}

MCPrograms == {<<PhaseA, PhaseB, Cross>>, <<Cross, PhaseA>>, <<AllOn>>}
MCPeriods  == {50, 100}
MCDirects  == {AllOff, AllOn}

AllKeys == {"mode", "freq", "rate", "avg", "auto", "enter", "cc"}

-----------------------------------------------------------------------------
moving ==
  CASE part = "switch" -> vars
    [] part = "tui"    -> tVars
    [] part = "panel"  -> pVars

(* The actions that are fair in each module, in any order.  As one part    *)
(* moves, the n-th stands for that of each part.                           *)
FairAction(n) ==
  /\ UNCHANGED part
  /\ \/ /\ part = "tui"
        /\ \/ n \in 1..4 /\ Tui!ClientThread(n)
           \/ n \in 5..7 /\ Tui!ServerThread(n - 4)
           \/ n = 8 /\ Tui!DialogPicks
           \/ n = 9 /\ Tui!Broadcast
           \/ n = 10 /\ Tui!FlipHappens
           \/ n = 11 /\ Tui!LaptopJoins
           \/ n = 12 /\ Tui!PathBack
     \/ /\ part = "panel"
        /\ \/ n \in 1..2 /\ Keys!SendThread(n)
           \/ n = 3 /\ Keys!Dispatch
           \/ n = 4 /\ Keys!Broadcast
           \/ n = 5 /\ Keys!ApplyState
           \/ n = 6 /\ Keys!Reconnect
           \/ n = 7 /\ Keys!Connected

ClientFairness == \A n \in 1..12 : WF_moving(FairAction(n))

FairClientSpec == ClientSpec /\ ClientFairness

(* The bound of TuiLink: its threads take turns to connect. *)
TakeTurns == Tui!TakeTurns

-----------------------------------------------------------------------------
(* A subscriber whose client has closed does not stay on the list of the    *)
(* broadcast loop.                                                          *)
DeadSubscribersGo == Tui!DeadSubscribersGo

(* A panel left alone ends up showing what the Pi has.                      *)
ShownIsTrue == Keys!ShownIsTrue
=============================================================================
