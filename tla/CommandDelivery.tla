---------------------------- MODULE CommandDelivery ----------------------------
(***************************************************************************)
(* What the fleet dashboard promises about the commands it is given: each  *)
(* is taken up once, carried out at most once, and then confirmed or       *)
(* failed for good.  A command that failed may have been carried out; one  *)
(* that is confirmed was.  The module Fleet implements this.               *)
(***************************************************************************)
EXTENDS Naturals, Sequences

VARIABLES
  fate,    \* per command, in the order given: pending, sent, confirmed or failed
  done     \* the commands that were carried out

Commands == 1..Len(fate)

Init == fate = <<>> /\ done = {}

(* A command is given. *)
Give ==
  /\ fate' = Append(fate, "pending")
  /\ UNCHANGED done

(* Some of the commands that wait are taken up. *)
TakeUp(ids) ==
  /\ \A id \in ids : fate[id] = "pending"
  /\ fate' = [id \in Commands |-> IF id \in ids THEN "sent" ELSE fate[id]]
  /\ UNCHANGED done

(* A command taken up is carried out, whether or not that becomes known. *)
CarryOut(id) ==
  /\ fate[id] = "sent" /\ id \notin done
  /\ done' = done \cup {id}
  /\ \E f \in {"confirmed", "failed"} : fate' = [fate EXCEPT ![id] = f]

(* A command taken up is lost. *)
Lose(id) ==
  /\ fate[id] = "sent"
  /\ fate' = [fate EXCEPT ![id] = "failed"]
  /\ UNCHANGED done

Next ==
  \/ Give
  \/ \E ids \in SUBSET Commands : TakeUp(ids)
  \/ \E id \in Commands : CarryOut(id) \/ Lose(id)

Spec == Init /\ [][Next]_<<fate, done>>
================================================================================
