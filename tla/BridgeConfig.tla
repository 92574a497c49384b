----------------------------- MODULE BridgeConfig -----------------------------
(***************************************************************************)
(* The H-bridge states and switching sequences of server/config.py, packed *)
(* the way sequence_engine.py sends them to the firmware: a state is the   *)
(* set of the FETs that conduct.                                           *)
(***************************************************************************)
EXTENDS SwitchOps

(* STATE_DEFS, indexed 0..5 *)
STATE_DEFS ==
  [i \in 0..5 |->
     CASE i = 0 -> {"P1", "N1"} [] i = 1 -> {"P1", "N2"}
       [] i = 2 -> {"P2", "N1"} [] i = 3 -> {"P2", "N2"}
       [] i = 4 -> AllOn        [] i = 5 -> AllOff]

Packed(indices) == [k \in DOMAIN indices |-> STATE_DEFS[indices[k]]]

(* SEQUENCES, indexed 0..7 *)
SEQUENCES ==
  [i \in 0..7 |->
     CASE i = 0 -> <<5, 5, 5, 5>> [] i = 1 -> <<0, 1, 2, 3>>
       [] i = 2 -> <<0, 1, 3, 2>> [] i = 3 -> <<0, 2, 1, 3>>
       [] i = 4 -> <<0, 2, 3, 1>> [] i = 5 -> <<0, 3, 1, 2>>
       [] i = 6 -> <<0, 3, 2, 1>> [] i = 7 -> <<4, 4, 4, 4>>]

PULSE_CHARGE_SEQUENCE == <<0, 3>>

Modes          == {"idle", "charge", "discharge", "pulse_charge", "debug"}
SwitchingModes == {"charge", "pulse_charge"}
=============================================================================
