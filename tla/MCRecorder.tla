------------------------------ MODULE MCRecorder ------------------------------
(* A small instance of Recorder for TLC. *)
EXTENDS Recorder, TLC

CONSTANTS c1, c2

MCSymmetry == Permutations(Clients)

(* A recording of two rows from step 1 on, and one of a single row that     *)
(* starts with whatever comes first.                                        *)
MCRequests == {[limit |-> 2, align |-> 1], [limit |-> 1, align |-> None]}
=============================================================================
