------------------------------ MODULE MCParts ------------------------------
(* A small instance of the parts side by side. *)
EXTENDS Parts, TLC

CONSTANT p1

(* The MicroPython firmware. *)
PhaseA == {"P1", "N1"}
PhaseB == {"P2", "N2"}
MicroPrograms == {<<PhaseA, PhaseB>>, <<PhaseA \cup PhaseB>>}
MicroDirects  == {{}, {"P1", "N2"}}

(* Schedules, good and bad, and sensor snapshots. *)
Lasting(expect, lasts) == [expect |-> expect, lasts |-> lasts]
WatchFiles ==
  {[repeat |-> 2, steps |-> <<Lasting("cc_charge", 2), Lasting("cv_charge", 1), Lasting("rest", 1)>>],
   [repeat |-> 1, steps |-> <<Lasting("discharge", 3)>>],
   [repeat |-> 1, steps |-> <<Lasting("rest", 1), Lasting("unknown", 1)>>],
   [repeat |-> 0, steps |-> <<Lasting("rest", 1)>>],
   [repeat |-> 1, steps |-> <<Lasting("rest", 0)>>],
   [repeat |-> 1, steps |-> <<>>]}
WatchSamples ==
  [level : {"rest", "dead", "discharge"}, signs : {0}, rising : {FALSE}]
    \cup [level : {"charge"}, signs : {1, 2}, rising : BOOLEAN]

(* Gain and offset of the channels, in the field of five elements. *)
CalDefects == {<<1, 0>>, <<2, 1>>}

Fleet1 == [p \in {p1} |-> "fleet"]
=============================================================================
