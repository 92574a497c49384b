------------------------------ MODULE FleetProofs ------------------------------
(***************************************************************************)
(* Proofs about Fleet for every set of Pis, every number of commands and   *)
(* refreshes, with failing networks, roaming adapters and Pis that move.   *)
(***************************************************************************)
EXTENDS Fleet, SequenceTheorems, FiniteSetTheorems, WellFoundedInduction, TLAPS

Statuses == {"pending", "sent", "confirmed", "failed"}
Command  == [pi : Pis, status : Statuses]

Types ==
  /\ inRange \subseteq Pis /\ ap \in inRange \cup {None}
  /\ executed \in [Pis -> Seq(Nat)]
  /\ commands \in Seq(Command)
  /\ sending \subseteq Ids

IsDone(id) == commands[id].status \in {"confirmed", "failed"}

(* What a Pi has executed has got its result. *)
ExecutedIsDone ==
  \A p \in Pis : \A k \in 1..Len(executed[p]) : executed[p][k] \in Ids /\ IsDone(executed[p][k])

(* The commands marked sent are those the visit has yet to send. *)
SentIsSending == \A id \in Ids : commands[id].status = "sent" <=> id \in sending

SendingIsMine ==
  /\ sending # {} => pc \in {"send", "verify"}
  /\ \A id \in sending : commands[id].pi = Visiting

(* Of two commands for one Pi the younger is never ahead of the older. *)
Ahead(younger, older) ==
  /\ ~IsPending(younger) => ~IsPending(older)
  /\ IsDone(younger) => IsDone(older)

OldestFirst ==
  \A older, younger \in Ids :
    older < younger /\ commands[older].pi = commands[younger].pi => Ahead(younger, older)

(* In a visit the adapter is on the access point it joined, or on none. *)
OnItsAp ==
  pc \in {"poll", "capture", "drain", "send", "verify"} /\ ~roamed => ap \in {Visiting, None}

IInv ==
  /\ Types
  /\ ExecutedIsDone
  /\ SentIsSending
  /\ SendingIsMine
  /\ OldestFirst
  /\ OnItsAp
  /\ ExecutedInOrder
  /\ ConfirmedIsExecuted
-----------------------------------------------------------------------------
(* Nothing is queued, sent or executed at the start.                        *)
LEMMA InitInv == ASSUME FleetAssumption, Init PROVE IInv
  <1> USE DEF Init
  <1>1. Ids = {}
    BY DEF Ids
  <1>2. \A p \in Pis : executed[p] = <<>> /\ Len(executed[p]) = 0 /\ ToSet(executed[p]) = {}
    BY DEF ToSet
  <1>3. Types
    BY <1>1 DEF Types
  <1>4. ExecutedIsDone /\ ExecutedInOrder
    BY <1>2 DEF ExecutedIsDone, ExecutedInOrder
  <1>5. SentIsSending /\ SendingIsMine /\ OldestFirst /\ OnItsAp /\ ConfirmedIsExecuted
    BY <1>1 DEF SentIsSending, SendingIsMine, OldestFirst, OnItsAp, ConfirmedIsExecuted
  <1> QED
    BY <1>3, <1>4, <1>5 DEF IInv

(* What the actions that leave the commands alone leave to be shown. *)
LEMMA CommandsAlone ==
  ASSUME IInv, UNCHANGED <<executed, commands, sending>>, roamed => roamed'
  PROVE  /\ ExecutedIsDone' /\ SentIsSending' /\ OldestFirst'
         /\ ExecutedInOrder' /\ ConfirmedIsExecuted'
         /\ inRange' \subseteq Pis /\ ap' \in inRange' \cup {None} => Types'
  <1>1. Ids' = Ids /\ \A id \in Ids : (IsPending(id)' <=> IsPending(id)) /\ (IsDone(id)' <=> IsDone(id))
    BY DEF Ids, IsPending, IsDone
  <1>2. ExecutedIsDone' /\ SentIsSending' /\ OldestFirst'
    BY <1>1 DEF IInv, ExecutedIsDone, SentIsSending, OldestFirst, Ahead
  <1>3. ExecutedInOrder'
    BY DEF IInv, ExecutedInOrder
  <1>5. ConfirmedIsExecuted'
    BY <1>1 DEF IInv, ConfirmedIsExecuted
  <1>4. inRange' \subseteq Pis /\ ap' \in inRange' \cup {None} => Types'
    BY <1>1 DEF IInv, Types
  <1> QED
    BY <1>2, <1>3, <1>4, <1>5

(* Who executed what does not depend on the fates. *)
LEMMA OrderAlone ==
  ASSUME ExecutedIsDone, ExecutedInOrder, executed' = executed,
         \A id \in Ids : commands'[id].pi = commands[id].pi
  PROVE  ExecutedInOrder'
  <1> SUFFICES ASSUME NEW p \in Pis
               PROVE  /\ \A i, j \in 1..Len(executed[p]) :
                           i < j /\ commands'[executed[p][i]].pi = commands'[executed[p][j]].pi =>
                             executed[p][i] < executed[p][j]
                      /\ \A q \in Pis \ {p} : ToSet(executed[p]) \cap ToSet(executed[q]) = {}
    BY DEF ExecutedInOrder
  <1>1. \A i \in 1..Len(executed[p]) : commands'[executed[p][i]].pi = commands[executed[p][i]].pi
    BY DEF ExecutedIsDone
  <1> QED
    BY <1>1 DEF ExecutedInOrder

(* A command is queued behind the others. *)
LEMMA EnqueueInv ==
  ASSUME IInv, NEW q \in Pis, Enqueue(q)
  PROVE  IInv'
  <1> USE DEF IInv, Types
  <1> PICK new \in Nat : new = Len(commands) + 1
    OBVIOUS
  <1>1. /\ commands' \in Seq(Command) /\ Len(commands) \in Nat /\ Len(commands') = new
        /\ \A id \in Ids : commands'[id] = commands[id]
        /\ commands'[new] = [pi |-> q, status |-> "pending"]
    BY DEF Enqueue, Ids, Command, Statuses
  <1>2. Ids' = Ids \cup {new} /\ new \notin Ids /\ \A id \in Ids : id < new
    BY <1>1 DEF Ids
  <1>3. /\ \A id \in Ids : (IsPending(id)' <=> IsPending(id)) /\ (IsDone(id)' <=> IsDone(id))
        /\ IsPending(new)' /\ ~IsDone(new)' /\ commands'[new].status # "sent"
    BY <1>1 DEF IsPending, IsDone
  <1>4. UNCHANGED <<inRange, executed, ap, sending, order, pc, roamed>>
    BY DEF Enqueue, world, cycler, history
  <1>5. Types'
    BY <1>1, <1>2, <1>4
  <1>6. ExecutedIsDone'
    BY <1>2, <1>3, <1>4 DEF ExecutedIsDone
  <1>7. SentIsSending'
    BY <1>1, <1>2, <1>3, <1>4 DEF SentIsSending
  <1>8. SendingIsMine' /\ OnItsAp'
    BY <1>1, <1>4 DEF SendingIsMine, OnItsAp, Visiting
  <1>9. OldestFirst'
    <2> SUFFICES ASSUME NEW older \in Ids', NEW younger \in Ids', older < younger,
                        commands'[older].pi = commands'[younger].pi
                 PROVE  Ahead(younger, older)'
      BY DEF OldestFirst
    <2>1. older \in Ids
      BY <1>1, <1>2 DEF Ids
    <2>2. CASE younger = new
      BY <1>3, <2>2 DEF Ahead
    <2>3. CASE younger \in Ids
      BY <1>1, <1>3, <2>1, <2>3 DEF OldestFirst, Ahead
    <2> QED
      BY <1>2, <2>2, <2>3
  <1>10. ExecutedInOrder'
    BY <1>1, <1>4, OrderAlone
  <1>11. ConfirmedIsExecuted'
    <2> SUFFICES ASSUME NEW id \in Ids', commands'[id].status = "confirmed"
                 PROVE  \E p \in Pis : (roamed \/ p = commands'[id].pi) /\ id \in ToSet(executed[p])
      BY <1>4 DEF ConfirmedIsExecuted
    <2>1. id \in Ids
      BY <1>1, <1>2
    <2> QED
      BY <1>1, <2>1 DEF ConfirmedIsExecuted
  <1> QED
    BY <1>5, <1>6, <1>7, <1>8, <1>9, <1>10, <1>11

(* The pending commands of one Pi are taken up together. *)
LEMMA DrainInv ==
  ASSUME IInv, Drain
  PROVE  IInv'
  <1> USE DEF IInv, Types
  <1>1. /\ commands' \in Seq(Command) /\ Len(commands') = Len(commands)
        /\ \A id \in Ids : /\ commands'[id].pi = commands[id].pi
                           /\ commands'[id].status =
                                IF id \in sending' THEN "sent" ELSE commands[id].status
    <2>1. \A id \in Ids : commands[id] \in Command
      BY DEF Ids
    <2>2. \A id \in Ids : [commands[id] EXCEPT !.status = "sent"] \in Command
      BY <2>1 DEF Command, Statuses
    <2>3. commands' = [id \in 1..Len(commands) |-> IF id \in sending'
                                   THEN [commands[id] EXCEPT !.status = "sent"] ELSE commands[id]]
      BY DEF Drain, Ids
    <2>4. Len(commands) \in Nat
      OBVIOUS
    <2>5. commands' \in Seq(Command) /\ Len(commands') = Len(commands)
      BY <2>1, <2>2, <2>3, <2>4 DEF Ids
    <2> QED
      BY <2>1, <2>3, <2>5 DEF Ids, Command
  <1>2. Ids' = Ids
    BY <1>1 DEF Ids
  <1>3. /\ sending' = {id \in Ids : IsPending(id) /\ commands[id].pi = Visiting}
        /\ sending = {} /\ pc = "drain" /\ pc' = "send"
        /\ UNCHANGED <<inRange, executed, ap, order, roamed>>
    BY DEF Drain, world, history, SendingIsMine
  <1>4. \A id \in Ids : /\ IsPending(id)' <=> IsPending(id) /\ id \notin sending'
                        /\ IsDone(id)' <=> IsDone(id)
    BY <1>1, <1>3 DEF IsPending, IsDone
  <1>5. Types'
    BY <1>1, <1>2, <1>3
  <1>6. ExecutedIsDone'
    BY <1>2, <1>3, <1>4 DEF ExecutedIsDone
  <1>7. SentIsSending'
    BY <1>1, <1>2, <1>3 DEF SentIsSending
  <1>8. SendingIsMine' /\ OnItsAp'
    BY <1>1, <1>3 DEF SendingIsMine, OnItsAp, Visiting
  <1>9. OldestFirst'
    BY <1>1, <1>2, <1>3, <1>4 DEF OldestFirst, Ahead
  <1>10. ExecutedInOrder'
    BY <1>1, <1>3, OrderAlone
  <1>11. ConfirmedIsExecuted'
    BY <1>1, <1>2, <1>3 DEF ConfirmedIsExecuted, IsPending
  <1> QED
    BY <1>5, <1>6, <1>7, <1>8, <1>9, <1>10, <1>11

(* A sequence with one more element.                                        *)
LEMMA Appended ==
  ASSUME NEW s \in Seq(Nat), NEW e \in Nat
  PROVE  /\ Append(s, e) \in Seq(Nat) /\ Len(s) \in Nat /\ Len(Append(s, e)) = Len(s) + 1
         /\ \A i \in 1..Len(s) : Append(s, e)[i] = s[i]
         /\ Append(s, e)[Len(s) + 1] = e
         /\ ToSet(Append(s, e)) = ToSet(s) \cup {e}
  <1>1. /\ Append(s, e) \in Seq(Nat) /\ Len(s) \in Nat /\ Len(Append(s, e)) = Len(s) + 1
        /\ \A i \in 1..Len(s) : Append(s, e)[i] = s[i]
        /\ Append(s, e)[Len(s) + 1] = e
    OBVIOUS
  <1>2. DOMAIN s = 1..Len(s) /\ DOMAIN Append(s, e) = 1..Len(s) + 1
    OBVIOUS
  <1> QED
    BY <1>1, <1>2 DEF ToSet

(* The oldest command of the visit is executed, or not, and has its result. *)
LEMMA SendInv ==
  ASSUME FleetAssumption, IInv, SendCommand
  PROVE  IInv'
  <1> USE DEF IInv, Types
  <1>1. PICK id \in sending, arrives \in BOOLEAN, result \in {"confirmed", "failed"} :
          /\ IsNext(id)
          /\ arrives => ap # None
          /\ result = "confirmed" => arrives
          /\ executed' = IF arrives THEN [executed EXCEPT ![ap] = Append(@, id)] ELSE executed
          /\ commands' = [commands EXCEPT ![id].status = result]
          /\ sending' = sending \ {id}
    BY DEF SendCommand, Answers
  <1>2. /\ pc = "send" /\ pc' \in {"send", "verify"}
        /\ UNCHANGED <<inRange, ap, order, roamed>>
    BY DEF SendCommand, history
  <1>3. id \in Ids /\ id \in Nat /\ commands[id].status = "sent"
    BY DEF Ids, SentIsSending
  <1>4. /\ commands' \in Seq(Command) /\ Len(commands') = Len(commands)
        /\ \A other \in Ids : /\ commands'[other].pi = commands[other].pi
                              /\ other # id => commands'[other].status = commands[other].status
        /\ commands'[id].status = result
    <2>1. \A other \in Ids : commands[other] \in Command
      BY DEF Ids
    <2>2. [commands[id] EXCEPT !.status = result] \in Command
      BY <1>3, <2>1 DEF Command, Statuses
    <2>3. commands' = [commands EXCEPT ![id] = [commands[id] EXCEPT !.status = result]]
      BY <1>1
    <2>5. PICK r \in Command : r = [commands[id] EXCEPT !.status = result]
      BY <2>2
    <2>6. commands' = [commands EXCEPT ![id] = r]
      BY <2>3, <2>5
    <2>4. /\ commands' \in Seq(Command) /\ Len(commands') = Len(commands)
          /\ commands'[id] = [commands[id] EXCEPT !.status = result]
          /\ \A other \in Ids \ {id} : commands'[other] = commands[other]
      BY <1>3, <2>5, <2>6, ExceptSeq DEF Ids
    <2> QED
      BY <1>3, <2>1, <2>4 DEF Command
  <1>5. Ids' = Ids
    BY <1>4 DEF Ids
  <1>6. /\ \A other \in Ids \ {id} : /\ IsPending(other)' <=> IsPending(other)
                                     /\ IsDone(other)' <=> IsDone(other)
        /\ IsDone(id)' /\ ~IsPending(id)' /\ ~IsDone(id) /\ ~IsPending(id)
    BY <1>3, <1>4 DEF IsPending, IsDone
  <1>7. \A p \in Pis : \A k \in 1..Len(executed[p]) : executed[p][k] # id
    BY <1>6 DEF ExecutedIsDone
  <1>8. \A p \in Pis : /\ executed[p] \in Seq(Nat)
                       /\ executed'[p] = IF arrives /\ p = ap THEN Append(executed[p], id) ELSE executed[p]
    BY <1>1
  <1>9. \A p \in Pis : /\ Len(executed[p]) \in Nat
                       /\ IF arrives /\ p = ap
                          THEN /\ Len(executed'[p]) = Len(executed[p]) + 1
                               /\ \A k \in 1..Len(executed[p]) : executed'[p][k] = executed[p][k]
                               /\ executed'[p][Len(executed[p]) + 1] = id
                          ELSE executed'[p] = executed[p]
    <2> TAKE p \in Pis
    <2>1. executed[p] \in Seq(Nat)
      BY <1>8
    <2>2. Len(executed[p]) \in Nat
      BY <2>1
    <2>3. CASE arrives /\ p = ap
      <3>1. executed'[p] = Append(executed[p], id)
        BY <2>3, <1>8
      <3> QED
        BY <2>1, <2>2, <2>3, <3>1, <1>3, Appended
    <2>4. CASE ~(arrives /\ p = ap)
      BY <2>2, <2>4, <1>8
    <2> QED
      BY <2>3, <2>4
  <1>16. Types'
    BY <1>1, <1>2, <1>3, <1>4, <1>5, <1>8, Appended
  <1>10. ExecutedIsDone'
    <2> SUFFICES ASSUME NEW p \in Pis, NEW k \in 1..Len(executed'[p])
                 PROVE  executed'[p][k] \in Ids /\ IsDone(executed[p][k])'
      BY <1>5 DEF ExecutedIsDone
    <2>1. CASE ~(arrives /\ p = ap)
      BY <2>1, <1>6, <1>8 DEF ExecutedIsDone
    <2>2. CASE arrives /\ p = ap
      <3>1. k \in 1..Len(executed[p]) \/ k = Len(executed[p]) + 1
        BY <2>2, <1>9
      <3> QED
        BY <2>2, <3>1, <1>3, <1>6, <1>9 DEF ExecutedIsDone
    <2> QED
      BY <2>1, <2>2
  <1>11. SentIsSending'
    BY <1>1, <1>3, <1>4, <1>5 DEF SentIsSending
  <1>12. SendingIsMine' /\ OnItsAp'
    BY <1>1, <1>2, <1>3, <1>4 DEF SendingIsMine, OnItsAp, Visiting, Ids
  <1>13. OldestFirst'
    <2> SUFFICES ASSUME NEW older \in Ids, NEW younger \in Ids, older < younger,
                        commands[older].pi = commands[younger].pi
                 PROVE  Ahead(younger, older)'
      BY <1>4, <1>5 DEF OldestFirst
    <2>1. Ahead(younger, older)
      BY DEF OldestFirst
    <2>2. CASE younger = id
      <3>1. ~IsPending(older) /\ older \notin sending
        BY <2>1, <2>2, <1>1, <1>6 DEF Ahead, IsNext, Ids
      <3>3. commands[older] \in Command
        BY DEF Ids
      <3>2. IsDone(older)
        BY <3>1, <3>3 DEF SentIsSending, IsDone, IsPending, Command, Statuses
      <3> QED
        BY <3>1, <3>2, <2>2, <1>6 DEF Ahead, Ids
    <2>3. CASE younger # id
      BY <2>1, <2>3, <1>6 DEF Ahead
    <2> QED
      BY <2>2, <2>3
  <1>14. ExecutedInOrder'
    <2>1. ASSUME NEW p \in Pis, NEW i \in 1..Len(executed'[p]), NEW j \in 1..Len(executed'[p]), i < j,
                 commands'[executed'[p][i]].pi = commands'[executed'[p][j]].pi
          PROVE  executed'[p][i] < executed'[p][j]
      <3>1. CASE ~(arrives /\ p = ap) \/ j \in 1..Len(executed[p])
        <4>1. /\ i \in 1..Len(executed[p]) /\ j \in 1..Len(executed[p])
              /\ executed'[p][i] = executed[p][i] /\ executed'[p][j] = executed[p][j]
          <5>1. CASE ~(arrives /\ p = ap)
            <6>1. executed'[p] = executed[p]
              BY <5>1, <1>9
            <6> QED
              BY <6>1
          <5>2. CASE arrives /\ p = ap
            <6>1. j \in 1..Len(executed[p])
              BY <3>1, <5>2
            <6>2. i \in 1..Len(executed[p])
              BY <2>1, <6>1, <1>9
            <6> QED
              BY <5>2, <6>1, <6>2, <1>9
          <5> QED
            BY <5>1, <5>2
        <4>2. commands[executed[p][i]].pi = commands[executed[p][j]].pi
          BY <2>1, <4>1, <1>4 DEF ExecutedIsDone
        <4> QED
          BY <2>1, <4>1, <4>2 DEF ExecutedInOrder
      <3>2. CASE arrives /\ p = ap /\ j \notin 1..Len(executed[p])
        <4>1. /\ i \in 1..Len(executed[p]) /\ executed'[p][i] = executed[p][i] /\ executed'[p][j] = id
          BY <2>1, <3>2, <1>9
        <4>2. /\ executed[p][i] \in Ids /\ IsDone(executed[p][i]) /\ executed[p][i] # id
              /\ commands[executed[p][i]].pi = commands[id].pi
          BY <2>1, <4>1, <1>3, <1>4, <1>7 DEF ExecutedIsDone
        <4> QED
          BY <4>1, <4>2, <1>3, <1>6 DEF OldestFirst, Ahead, Ids
      <3> QED
        BY <3>1, <3>2
    <2>2. ASSUME NEW p \in Pis, NEW q \in Pis \ {p}
          PROVE  ToSet(executed'[p]) \cap ToSet(executed'[q]) = {}
      <3>1. \A r \in Pis : ToSet(executed'[r]) = ToSet(executed[r]) \cup (IF arrives /\ r = ap THEN {id} ELSE {})
        BY <1>3, <1>8, Appended
      <3>2. \A r \in Pis : id \notin ToSet(executed[r])
        BY <1>7, <1>8 DEF ToSet
      <3>3. ToSet(executed[p]) \cap ToSet(executed[q]) = {}
        BY DEF ExecutedInOrder
      <3>4. ASSUME NEW x \in ToSet(executed'[p]), x \in ToSet(executed'[q]) PROVE FALSE
        <4>1. x \in ToSet(executed[p]) \/ (x = id /\ arrives /\ p = ap)
          BY <3>1
        <4>2. x \in ToSet(executed[q]) \/ (x = id /\ arrives /\ q = ap)
          BY <3>1, <3>4
        <4> QED
          BY <3>2, <3>3, <4>1, <4>2
      <3> QED
        BY <3>4
    <2> QED
      BY <2>1, <2>2 DEF ExecutedInOrder
  <1>15. ConfirmedIsExecuted'
    <2> SUFFICES ASSUME NEW other \in Ids, commands'[other].status = "confirmed"
                 PROVE  \E p \in Pis : (roamed \/ p = commands[other].pi) /\ other \in ToSet(executed'[p])
      BY <1>2, <1>4, <1>5 DEF ConfirmedIsExecuted
    <2>1. \A p \in Pis : /\ ToSet(executed[p]) \subseteq ToSet(executed'[p])
                         /\ arrives /\ p = ap => id \in ToSet(executed'[p])
      BY <1>3, <1>8, Appended
    <2>2. CASE other # id
      BY <2>1, <2>2, <1>4 DEF ConfirmedIsExecuted
    <2>3. CASE other = id
      <3>1. arrives /\ ap \in Pis
        BY <2>3, <1>1, <1>4
      <3>2. roamed \/ ap = commands[id].pi
        BY <3>1, <1>1, <1>2 DEF OnItsAp, SendingIsMine
      <3> QED
        BY <2>1, <2>3, <3>1, <3>2
    <2> QED
      BY <2>2, <2>3
  <1> QED
    BY <1>10, <1>11, <1>12, <1>13, <1>14, <1>15, <1>16

-----------------------------------------------------------------------------
(* Every step keeps the invariant.                                          *)
LEMMA NextInv == ASSUME FleetAssumption, IInv, [Next]_vars PROVE IInv'
  <1> USE DEF IInv
  <1> DEFINE Alone == UNCHANGED <<executed, commands, sending, roamed>>
             Still == UNCHANGED <<inRange, ap, order>>
  <1>1. ASSUME Alone, Still, sending # {} => pc' \in {"send", "verify"},
               pc' \in {"poll", "capture", "drain", "send", "verify"} =>
                 pc \in {"poll", "capture", "drain", "send", "verify"}
        PROVE  IInv'
    <2>1. Types' /\ ExecutedIsDone' /\ SentIsSending' /\ OldestFirst'
             /\ ExecutedInOrder' /\ ConfirmedIsExecuted'
      BY <1>1, CommandsAlone DEF Types
    <2>2. SendingIsMine' /\ OnItsAp'
      BY <1>1 DEF SendingIsMine, OnItsAp, Visiting
    <2> QED
      BY <2>1, <2>2
  <1>2. ASSUME NEW p \in Pis, Enqueue(p) PROVE IInv'
    BY <1>2, EnqueueInv
  <1>3. ASSUME NEW ps, RequestRepoll(ps) PROVE IInv'
    BY <1>3, <1>1 DEF RequestRepoll, world, store, cycler, SendingIsMine
  <1>4. CASE SetRepollEvent
    BY <1>4, <1>1 DEF SetRepollEvent, world, store, cycler, history, SendingIsMine
  <1>5. CASE Scan
    BY <1>5, <1>1 DEF Scan, world, history, SendingIsMine
  <1>6. CASE JoinList
    <2>1. Alone /\ sending = {} /\ pc' = "next" /\ UNCHANGED <<inRange, ap>>
      BY <1>6 DEF JoinList, world, store, history, SendingIsMine
    <2>2. Types' /\ ExecutedIsDone' /\ SentIsSending' /\ OldestFirst'
             /\ ExecutedInOrder' /\ ConfirmedIsExecuted'
      BY <2>1, CommandsAlone DEF Types
    <2> QED
      BY <2>1, <2>2 DEF SendingIsMine, OnItsAp
  <1>7. CASE NextVisit
    BY <1>7, <1>1 DEF NextVisit, world, store, history, SendingIsMine
  <1>8. ASSUME VisitFails, sending = {}, UNCHANGED <<executed, inRange, ap>> PROVE IInv'
    <2>1. Alone /\ pc' = "next"
      BY <1>8 DEF VisitFails
    <2>2. Types' /\ ExecutedIsDone' /\ SentIsSending' /\ OldestFirst'
             /\ ExecutedInOrder' /\ ConfirmedIsExecuted'
      BY <1>8, <2>1, CommandsAlone DEF Types
    <2> QED
      BY <1>8, <2>1, <2>2 DEF SendingIsMine, OnItsAp
  <1>9. CASE Join
    <2>1. CASE VisitFails
      <3>1. sending = {} /\ UNCHANGED <<executed, inRange, ap>>
        BY <1>9, <2>1 DEF Join, VisitFails, SendingIsMine
      <3> QED
        BY <2>1, <3>1, <1>8
    <2>2. CASE ~VisitFails
      <3>1. /\ Alone /\ sending = {} /\ pc' = "poll" /\ inRange' = inRange
            /\ ap' = Visiting /\ ap' \in inRange /\ order' = order
        BY <1>9, <2>2 DEF Join, store, SendingIsMine
      <3>2. Types' /\ ExecutedIsDone' /\ SentIsSending' /\ OldestFirst'
               /\ ExecutedInOrder' /\ ConfirmedIsExecuted'
        BY <3>1, CommandsAlone DEF Types
      <3> QED
        BY <3>1, <3>2 DEF SendingIsMine, OnItsAp, Visiting
    <2> QED
      BY <2>1, <2>2
  <1>10. CASE Poll
    <2>1. CASE VisitFails
      BY <1>10, <2>1, <1>8 DEF Poll, world, SendingIsMine
    <2>2. CASE ~VisitFails
      <3>1. /\ Alone /\ Still /\ sending = {} /\ pc = "poll" /\ pc' = "capture"
        BY <1>10, <2>2 DEF Poll, world, SendingIsMine
      <3> QED
        BY <3>1, <1>1
    <2> QED
      BY <2>1, <2>2
  <1>11. CASE Capture
    BY <1>11, <1>1 DEF Capture, world, store, history, SendingIsMine
  <1>12. CASE Drain
    BY <1>12, DrainInv
  <1>13. CASE SendCommand
    BY <1>13, SendInv
  <1>14. CASE Verify
    BY <1>14, <1>1 DEF Verify, world, history
  <1>15. CASE EndVisit
    <2>1. Alone /\ sending = {} /\ pc' = "next" /\ UNCHANGED <<inRange, ap>>
      BY <1>15 DEF EndVisit, world, store, history
    <2>2. Types' /\ ExecutedIsDone' /\ SentIsSending' /\ OldestFirst'
             /\ ExecutedInOrder' /\ ConfirmedIsExecuted'
      BY <2>1, CommandsAlone DEF Types
    <2> QED
      BY <2>1, <2>2 DEF SendingIsMine, OnItsAp
  <1>16. CASE WakeEarly \/ WaitTimesOut
    BY <1>16, <1>1 DEF WakeEarly, WaitTimesOut, world, store, history, SendingIsMine
  <1>17. ASSUME NEW p \in Pis, Move(p) PROVE IInv'
    <2>1. Alone /\ UNCHANGED <<pc, order>> /\ ap' \in {ap, None}
      BY <1>17 DEF Move, store, cycler, history
    <2>2. inRange' \subseteq Pis /\ ap' \in inRange' \cup {None}
      BY <1>17 DEF Move, Types
    <2>3. Types' /\ ExecutedIsDone' /\ SentIsSending' /\ OldestFirst'
             /\ ExecutedInOrder' /\ ConfirmedIsExecuted'
      BY <2>1, <2>2, CommandsAlone
    <2> QED
      BY <2>1, <2>3 DEF SendingIsMine, OnItsAp, Visiting
  <1>18. ASSUME NEW p \in Pis, Roam(p) PROVE IInv'
    <2>1. /\ UNCHANGED <<executed, commands, sending, pc, order, inRange>>
          /\ roamed' /\ ap' \in inRange'
      BY <1>18 DEF Roam, store, cycler
    <2>2. Types' /\ ExecutedIsDone' /\ SentIsSending' /\ OldestFirst'
             /\ ExecutedInOrder' /\ ConfirmedIsExecuted'
      BY <2>1, CommandsAlone DEF Types
    <2> QED
      BY <2>1, <2>2 DEF SendingIsMine, OnItsAp, Visiting
  <1>19. CASE UNCHANGED vars
    BY <1>19, <1>1 DEF vars, world, store, cycler, history, SendingIsMine
  <1> QED
    BY <1>2, <1>3, <1>4, <1>5, <1>6, <1>7, <1>9, <1>10, <1>11, <1>12, <1>13, <1>14,
       <1>15, <1>16, <1>17, <1>18, <1>19 DEF Next, Web, Cycler

(* What holds at every step of a visit: a command marked sent is one the    *)
(* visit has yet to send, an executed one has its result, and an older      *)
(* command is never behind a younger one for the same Pi (state_store.py    *)
(* 117-140).                                                                *)
THEOREM Invariance == ASSUME FleetAssumption PROVE Spec => []IInv
  <1>1. Init => IInv
    BY InitInv
  <1>2. IInv /\ [Next]_vars => IInv'
    BY NextInv
  <1> QED
    BY <1>1, <1>2, PTL DEF Spec

(* No command is executed twice, by one Pi or by two, and the commands for  *)
(* one Pi are executed in the order they were queued, however visits end,   *)
(* replies are lost and the adapter roams.                                  *)
THEOREM ExecutionOrder == ASSUME FleetAssumption PROVE Spec => []ExecutedInOrder
  <1>1. IInv => ExecutedInOrder
    BY DEF IInv
  <1> QED
    BY <1>1, Invariance, PTL

(* A command the store reports as confirmed was executed, by its own Pi     *)
(* unless the adapter has roamed.                                           *)
THEOREM Confirmation == ASSUME FleetAssumption PROVE Spec => []ConfirmedIsExecuted
  <1>1. IInv => ConfirmedIsExecuted
    BY DEF IInv
  <1> QED
    BY <1>1, Invariance, PTL

-----------------------------------------------------------------------------
(* The implementation of CommandDelivery. *)
FateOf(c) == [id \in 1..Len(c) |-> c[id].status]
Done      == UNION {ToSet(executed[p]) : p \in Pis}

(* The fates of a list of commands.                                         *)
LEMMA FateIs ==
  ASSUME NEW c \in Seq(Command)
  PROVE  /\ FateOf(c) \in Seq(Statuses) /\ Len(FateOf(c)) = Len(c) /\ Len(c) \in Nat
         /\ \A id \in 1..Len(c) : FateOf(c)[id] = c[id].status
  <1>1. Len(c) \in Nat /\ \A id \in 1..Len(c) : c[id] \in Command
    OBVIOUS
  <1>2. \A id \in 1..Len(c) : c[id].status \in Statuses
    BY <1>1 DEF Command
  <1> QED
    BY <1>1, <1>2 DEF FateOf

(* Nothing that matters to CommandDelivery changes. *)
LEMMA Stutter ==
  ASSUME UNCHANGED <<executed, commands>>
  PROVE  UNCHANGED <<FateOf(commands), Done>>
  BY DEF FateOf, Done

(* Queueing a command gives it.                                             *)
LEMMA EnqueueGives ==
  ASSUME IInv, NEW q \in Pis, Enqueue(q)
  PROVE  Delivery!Give
  <1>1. commands \in Seq(Command) /\ commands' \in Seq(Command)
    BY EnqueueInv DEF IInv, Types
  <1>2. /\ Len(commands') = Len(commands) + 1
        /\ \A id \in 1..Len(commands) : commands'[id] = commands[id]
        /\ commands'[Len(commands) + 1].status = "pending"
        /\ executed' = executed
    BY <1>1 DEF Enqueue, world
  <1>3. FateOf(commands)' = Append(FateOf(commands), "pending")
    <2>1. /\ FateOf(commands) \in Seq(Statuses) /\ FateOf(commands)' \in Seq(Statuses)
          /\ Len(FateOf(commands)) = Len(commands) /\ Len(FateOf(commands)') = Len(commands')
          /\ \A id \in 1..Len(commands) : FateOf(commands)[id] = commands[id].status
          /\ \A id \in 1..Len(commands') : FateOf(commands)'[id] = commands'[id].status
          /\ Len(commands) \in Nat
      BY <1>1, FateIs
    <2>2. PICK f \in Seq(Statuses), g \in Seq(Statuses) : f = FateOf(commands) /\ g = FateOf(commands)'
      BY <2>1
    <2>3. /\ Append(f, "pending") \in Seq(Statuses) /\ Len(g) = Len(Append(f, "pending"))
          /\ \A id \in 1..Len(g) : g[id] = Append(f, "pending")[id]
      BY <1>2, <2>1, <2>2 DEF Statuses
    <2>4. g = Append(f, "pending")
      BY <2>3, SeqEqual
    <2> QED
      BY <2>2, <2>4
  <1>4. FateOf(commands) = [id \in Ids |-> commands[id].status]
    BY DEF FateOf, Ids
  <1>5. FateOf(commands)' = [id \in Ids |-> commands[id].status]'
    BY DEF FateOf, Ids
  <1>6. Done' = Done
    BY <1>2 DEF Done
  <1> QED
    BY <1>3, <1>4, <1>5, <1>6 DEF Delivery!Give, Done

(* Draining takes up the commands of the Pi that is visited.                *)
LEMMA DrainTakesUp ==
  ASSUME IInv, Drain
  PROVE  \E ids \in SUBSET Ids : Delivery!TakeUp(ids)
  <1>1. commands \in Seq(Command) /\ Len(commands) \in Nat
    BY DEF IInv, Types
  <1>2. commands' = [id \in 1..Len(commands) |-> IF id \in sending'
                                   THEN [commands[id] EXCEPT !.status = "sent"] ELSE commands[id]]
    BY DEF Drain, Ids
  <1>3. Len(commands') = Len(commands)
    <2>1. \A id \in Ids : commands[id] \in Command
      BY <1>1 DEF Ids
    <2>2. \A id \in Ids : [commands[id] EXCEPT !.status = "sent"] \in Command
      BY <2>1 DEF Command, Statuses
    <2> QED
      BY <1>1, <1>2, <2>1, <2>2 DEF Ids
  <1>4. \A id \in Ids : commands'[id].status = IF id \in sending' THEN "sent" ELSE commands[id].status
    <2>1. \A id \in Ids : commands[id] \in Command
      BY <1>1 DEF Ids
    <2> QED
      BY <1>2, <2>1 DEF Ids, Command
  <1>5. FateOf(commands)' = [id \in 1..Len(commands) |-> IF id \in sending' THEN "sent"
                                                           ELSE FateOf(commands)[id]]
    BY <1>3, <1>4 DEF FateOf, Ids
  <1>6. /\ FateOf(commands) = [id \in Ids |-> commands[id].status]
        /\ FateOf(commands)' = [id \in Ids |-> commands[id].status]'
        /\ Len(FateOf(commands)) = Len(commands)
    BY <1>1, FateIs DEF FateOf, Ids
  <1>7. /\ sending' \in SUBSET Ids
        /\ \A id \in sending' : FateOf(commands)[id] = "pending"
    BY DEF Drain, Ids, IsPending, FateOf
  <1>8. Done' = Done
    BY DEF Done, Drain, world
  <1>9. PICK ids \in SUBSET Ids : ids = sending'
    BY <1>7
  <1>10. Delivery!TakeUp(ids)
    BY <1>5, <1>6, <1>7, <1>8, <1>9 DEF Delivery!TakeUp, Delivery!Commands, Done
  <1> QED
    BY <1>10

(* Sending a command carries it out or loses it.                            *)
LEMMA SendCarriesOut ==
  ASSUME FleetAssumption, IInv, SendCommand
  PROVE  \E id \in Ids : Delivery!CarryOut(id) \/ Delivery!Lose(id)
  <1> USE DEF IInv, Types
  <1>1. PICK id \in sending, arrives \in BOOLEAN, result \in {"confirmed", "failed"} :
          /\ IsNext(id)
          /\ arrives => ap # None
          /\ result = "confirmed" => arrives
          /\ executed' = IF arrives THEN [executed EXCEPT ![ap] = Append(@, id)] ELSE executed
          /\ commands' = [commands EXCEPT ![id].status = result]
          /\ sending' = sending \ {id}
    BY DEF SendCommand, Answers
  <1>2. id \in Ids /\ id \in Nat /\ commands[id].status = "sent"
    BY DEF Ids, SentIsSending
  <1>3. /\ Len(commands') = Len(commands)
        /\ \A other \in Ids : commands'[other].status = IF other = id THEN result ELSE commands[other].status
    <2>1. \A other \in Ids : commands[other] \in Command
      BY DEF Ids
    <2>2. [commands[id] EXCEPT !.status = result] \in Command
      BY <1>2, <2>1 DEF Command, Statuses
    <2>3. PICK r \in Command : r = [commands[id] EXCEPT !.status = result]
      BY <2>2
    <2>4. commands' = [commands EXCEPT ![id] = r]
      BY <1>1, <2>3
    <2>5. /\ Len(commands') = Len(commands)
          /\ commands'[id] = r
          /\ \A other \in Ids \ {id} : commands'[other] = commands[other]
      BY <1>2, <2>4, ExceptSeq DEF Ids
    <2> QED
      BY <1>2, <2>1, <2>3, <2>5 DEF Command
  <1>4. /\ FateOf(commands) = [other \in Ids |-> commands[other].status]
        /\ FateOf(commands)' = [other \in Ids |-> commands[other].status]'
    BY DEF FateOf, Ids
  <1>5. FateOf(commands)' = [FateOf(commands) EXCEPT ![id] = result]
    BY <1>2, <1>3 DEF FateOf, Ids
  <1>6. FateOf(commands)[id] = "sent"
    BY <1>2 DEF FateOf, Ids
  <1>7. \A p \in Pis : \A k \in 1..Len(executed[p]) : executed[p][k] # id
    BY <1>2 DEF ExecutedIsDone, IsDone
  <1>8. id \notin Done
    BY <1>7 DEF Done, ToSet
  <1>9. CASE arrives
    <2>1. \A p \in Pis : ToSet(executed'[p]) = IF p = ap THEN ToSet(executed[p]) \cup {id} ELSE ToSet(executed[p])
      <3>1. \A p \in Pis : /\ executed[p] \in Seq(Nat)
                           /\ executed'[p] = IF p = ap THEN Append(executed[p], id) ELSE executed[p]
        BY <1>1, <1>9
      <3> TAKE p \in Pis
      <3>2. CASE p = ap
        <4>1. executed'[p] = Append(executed[p], id) /\ executed[p] \in Seq(Nat) /\ id \in Nat
          BY <1>2, <3>1, <3>2
        <4> QED
          BY <3>2, <4>1, Appended
      <3>3. CASE p # ap
        BY <3>1, <3>3
      <3> QED
        BY <3>2, <3>3
    <2>2. ap \in Pis
      BY <1>1, <1>9
    <2>3. Done' = Done \cup {id}
      BY <2>1, <2>2 DEF Done
    <2>4. Delivery!CarryOut(id)
      BY <1>4, <1>5, <1>6, <1>8, <2>3 DEF Delivery!CarryOut, Done
    <2> QED
      BY <1>2, <2>4
  <1>10. CASE ~arrives
    <2>1. Done' = Done /\ result = "failed"
      BY <1>1, <1>10 DEF Done
    <2>2. Delivery!Lose(id)
      BY <1>4, <1>5, <1>6, <2>1 DEF Delivery!Lose, Done
    <2> QED
      BY <1>2, <2>2
  <1> QED
    BY <1>9, <1>10

(* Every step of the dashboard is one of CommandDelivery, or none. *)
LEMMA StepDelivers ==
  ASSUME FleetAssumption, IInv, [Next]_vars
  PROVE  [Delivery!Next]_<<FateOf(commands), Done>>
  <1>1. Delivery!Commands = Ids
    <2>1. FateOf(commands) = [id \in Ids |-> commands[id].status] /\ Len(FateOf(commands)) = Len(commands)
      BY FateIs DEF FateOf, Ids, IInv, Types
    <2> QED
      BY <2>1 DEF Delivery!Commands, Ids
  <1>2. CASE \E p \in Pis : Enqueue(p)
    BY <1>2, EnqueueGives DEF Delivery!Next
  <1>3. CASE Drain
    BY <1>1, <1>3, DrainTakesUp DEF Delivery!Next
  <1>4. CASE SendCommand
    BY <1>1, <1>4, SendCarriesOut DEF Delivery!Next
  <1>5. CASE ~((\E p \in Pis : Enqueue(p)) \/ Drain \/ SendCommand)
    <2>1. CASE UNCHANGED vars
      BY <2>1, Stutter DEF vars, world, store
    <2>2. CASE Web
      BY <1>5, <2>2, Stutter DEF Web, RequestRepoll, SetRepollEvent, world, store
    <2>3. CASE Join \/ Poll
      BY <2>3, Stutter DEF Join, Poll, VisitFails, world, store
    <2>4. CASE Scan \/ JoinList \/ NextVisit \/ Capture \/ Verify \/ EndVisit \/ WakeEarly \/ WaitTimesOut
      BY <2>4, Stutter DEF Scan, JoinList, NextVisit, Capture, Verify, EndVisit, WakeEarly,
                           WaitTimesOut, world, store
    <2>5. CASE \E p \in Pis : Move(p) \/ Roam(p)
      BY <2>5, Stutter DEF Move, Roam, store
    <2> QED
      BY <1>5, <2>1, <2>2, <2>3, <2>4, <2>5 DEF Next, Cycler
  <1> QED
    BY <1>2, <1>3, <1>4, <1>5

(* The dashboard takes each command up once, carries it out at most once    *)
(* and never revives one that has its result.                               *)
THEOREM AtMostOnce == ASSUME FleetAssumption PROVE Spec => DeliversAtMostOnce
  <1>1. Init => Delivery!Init
    <2> SUFFICES ASSUME Init PROVE Delivery!Init
      OBVIOUS
    <2>1. Ids = {} /\ commands = <<>>
      BY DEF Init, Ids
    <2>2. [id \in Ids |-> commands[id].status] = <<>>
      BY <2>1
    <2>3. \A p \in Pis : ToSet(executed[p]) = {}
      BY DEF Init, ToSet
    <2> QED
      BY <2>2, <2>3 DEF Delivery!Init
  <1>2. IInv /\ [Next]_vars =>
          [Delivery!Next]_<<[id \in Ids |-> commands[id].status], UNION {ToSet(executed[p]) : p \in Pis}>>
    BY StepDelivers DEF FateOf, Done, Ids
  <1> QED
    BY <1>1, <1>2, Invariance, PTL DEF Spec, Delivery!Spec, DeliversAtMostOnce

-----------------------------------------------------------------------------
(* Induction over numbers, for a set of them: the library's theorem takes   *)
(* an operator.                                                             *)

(* A set of natural numbers has a least one.                               *)
LEMMA Least ==
  ASSUME NEW T, T \subseteq Nat, T # {}
  PROVE  \E m \in T : \A k \in T : m <= k
  <1> DEFINE X == {1..n : n \in T}
  <1>1. IsWellFoundedOn(StrictSubsetOrdering(Nat), FiniteSubsetsOf(Nat))
    BY FS_StrictSubsetOrderingWellFounded
  <1>2. X \subseteq FiniteSubsetsOf(Nat) /\ X # {}
    <2>1. \A n \in T : IsFiniteSet(1..n) /\ 1..n \in SUBSET Nat
      BY FS_Interval
    <2>2. X # {}
      OBVIOUS
    <2> QED
      BY <2>1, <2>2, Zenon DEF FiniteSubsetsOf
  <1>3. PICK x \in X : \A y \in X : <<y, x>> \notin StrictSubsetOrdering(Nat)
    BY <1>1, <1>2, WFMin
  <1>4. PICK m \in T : x = 1..m
    BY <1>3
  <1>5. ASSUME NEW k \in T, k < m PROVE FALSE
    <2>1. 1..k \in X /\ 1..k \subseteq x /\ x \subseteq Nat /\ 1..k \subseteq Nat
      BY <1>4, <1>5
    <2>2. m \in 1..m /\ m \notin 1..k
      BY <1>5
    <2> QED
      BY <1>3, <1>4, <2>1, <2>2 DEF StrictSubsetOrdering
  <1> QED
    BY <1>5

(* What holds of 0 and of every successor holds of all.                    *)
LEMMA Inductive ==
  ASSUME NEW P, 0 \in P, \A n \in Nat : n \in P => n + 1 \in P
  PROVE  Nat \subseteq P
  <1> SUFFICES ASSUME NEW n \in Nat, n \notin P PROVE FALSE
    OBVIOUS
  <1> DEFINE T == {k \in Nat : k \notin P}
  <1>1. T \subseteq Nat /\ T # {}
    OBVIOUS
  <1>2. PICK m \in T : \A k \in T : m <= k
    BY <1>1, Least
  <1>3. m - 1 \in Nat /\ m - 1 \in P
    BY <1>2
  <1> QED
    BY <1>2, <1>3

-----------------------------------------------------------------------------
(* The types of the dashboard's state. *)

IsAscending(s, ps) ==
  s \in SetToSeqs(ps) /\ \A i, j \in DOMAIN s : i < j => s[i] < s[j]

(* Taking out an element leaves one less.                                   *)
LEMMA OneLess ==
  ASSUME NEW S, IsFiniteSet(S), NEW x \in S, NEW n \in Nat, Cardinality(S) = n + 1
  PROVE  IsFiniteSet(S \ {x}) /\ Cardinality(S \ {x}) = n
  <1>1. IsFiniteSet(S \ {x}) /\ Cardinality(S \ {x}) = IF x \in S THEN Cardinality(S) - 1 ELSE Cardinality(S)
    BY FS_RemoveElement, Zenon
  <1>2. (n + 1) - 1 = n
    OBVIOUS
  <1> QED
    BY <1>1, <1>2

(* The numbers of a finite set can be put in ascending order.               *)
LEMMA CanBeOrdered ==
  ASSUME NEW ps \in SUBSET Nat, IsFiniteSet(ps)
  PROVE  \E s : IsAscending(s, ps)
  <1> DEFINE Ordered(qs) == \E s : IsAscending(s, qs)
             P == {n \in Nat : \A qs \in SUBSET Nat :
                     IsFiniteSet(qs) /\ Cardinality(qs) = n => Ordered(qs)}
  <1>1. 0 \in P
    <2> SUFFICES ASSUME NEW qs \in SUBSET Nat, IsFiniteSet(qs), Cardinality(qs) = 0
                 PROVE  \E s : IsAscending(s, qs)
      OBVIOUS
    <2>1. qs = {}
      BY FS_EmptySet
    <2>2. <<>> \in [1..0 -> qs] /\ DOMAIN <<>> = {}
      OBVIOUS
    <2>3. IsAscending(<<>>, qs)
      BY <2>2 DEF IsAscending, SetToSeqs
    <2> QED
      BY <2>3
  <1>2. \A n \in Nat : n \in P => n + 1 \in P
    <2> SUFFICES ASSUME NEW n \in Nat, n \in P,
                        NEW qs \in SUBSET Nat, IsFiniteSet(qs), Cardinality(qs) = n + 1
                 PROVE  \E s : IsAscending(s, qs)
      OBVIOUS
    <2>1. qs # {}
      BY FS_EmptySet
    <2>2. PICK m \in qs : \A k \in qs : m <= k
      BY <2>1, Least
    <2>3. IsFiniteSet(qs \ {m}) /\ Cardinality(qs \ {m}) = n
      BY OneLess, Zenon
    <2>4. PICK s : IsAscending(s, qs \ {m})
      BY <2>3
    <2>5. /\ s \in [1..n -> qs \ {m}]
          /\ \A i, j \in 1..n : i # j => s[i] # s[j]
          /\ \A i, j \in 1..n : i < j => s[i] < s[j]
      BY <2>3, <2>4 DEF IsAscending, SetToSeqs
    <2> DEFINE t == [i \in 1..n + 1 |-> IF i = 1 THEN m ELSE s[i - 1]]
    <2>6. /\ \A i \in 1..n + 1 : i # 1 => i - 1 \in 1..n /\ t[i] = s[i - 1]
          /\ 1 \in 1..n + 1 /\ t[1] = m
          /\ \A i \in 1..n : s[i] \in qs \ {m}
      BY <2>5
    <2>7. t \in [1..n + 1 -> qs]
      BY <2>6
    <2>8. ASSUME NEW i \in 1..n + 1, NEW j \in 1..n + 1, i < j PROVE t[i] < t[j]
      <3>1. j # 1 /\ j - 1 \in 1..n /\ t[j] = s[j - 1] /\ s[j - 1] \in qs \ {m}
        BY <2>6, <2>8
      <3>2. CASE i = 1
        <4>1. m <= s[j - 1] /\ m # s[j - 1] /\ m \in Nat /\ s[j - 1] \in Nat
          BY <2>2, <3>1
        <4> QED
          BY <2>6, <3>1, <3>2, <4>1
      <3>3. CASE i # 1
        BY <2>5, <2>6, <2>8, <3>1, <3>3
      <3> QED
        BY <3>2, <3>3
    <2>9. \A i \in 1..n + 1 : t[i] \in Nat
      BY <2>7
    <2>10. \A i, j \in 1..n + 1 : i # j => t[i] # t[j]
      BY <2>8, <2>9
    <2>11. DOMAIN t = 1..n + 1
      OBVIOUS
    <2> HIDE DEF t
    <2>12. IsAscending(t, qs)
      BY <2>7, <2>8, <2>10, <2>11 DEF IsAscending, SetToSeqs
    <2> QED
      BY <2>12
  <1>3. Nat \subseteq P
    BY <1>1, <1>2, Inductive
  <1>4. Cardinality(ps) \in Nat
    BY FS_CardinalityType
  <1> QED
    BY <1>3, <1>4

(* What Ascending returns lists the set.                                    *)
LEMMA AscendingLists ==
  ASSUME NEW ps \in SUBSET Nat, IsFiniteSet(ps)
  PROVE  Ascending(ps) \in Seq(ps)
  <1>1. PICK s : IsAscending(s, ps)
    BY CanBeOrdered
  <1>2. s \in SetToSeqs(ps) /\ \A i, j \in DOMAIN s : i < j => s[i] < s[j]
    BY <1>1 DEF IsAscending
  <1>3. Ascending(ps) \in SetToSeqs(ps)
    BY <1>2 DEF Ascending
  <1>4. Cardinality(ps) \in Nat
    BY FS_CardinalityType
  <1> QED
    BY <1>3, <1>4 DEF SetToSeqs

(* As no command is executed twice, no Pi executes more than are queued.    *)
LEMMA ExecutesFew ==
  ASSUME IInv, NEW p \in Pis
  PROVE  Len(executed[p]) \in 0..Len(commands)
  <1>1. /\ executed[p] \in Seq(Nat) /\ Len(executed[p]) \in Nat /\ Len(commands) \in Nat
        /\ \A k \in 1..Len(executed[p]) : executed[p][k] \in Ids
    BY DEF IInv, Types, ExecutedIsDone
  <1>2. ASSUME NEW i \in 1..Len(executed[p]), NEW j \in 1..Len(executed[p]), i < j
        PROVE  executed[p][i] # executed[p][j]
    <2> SUFFICES ASSUME executed[p][i] = executed[p][j] PROVE FALSE
      OBVIOUS
    <2>1. executed[p][i] \in Nat
      <3>1. Ids \subseteq Nat
        BY DEF Ids
      <3> QED
        BY <1>1, <3>1, Zenon
    <2>2. \A a, b \in 1..Len(executed[p]) :
             a < b /\ commands[executed[p][a]].pi = commands[executed[p][b]].pi =>
               executed[p][a] < executed[p][b]
      BY Zenon DEF IInv, ExecutedInOrder
    <2>3. executed[p][i] < executed[p][j]
      BY <1>2, <2>2, Zenon
    <2> QED
      BY <2>1, <2>3
  <1> DEFINE f == [k \in 1..Len(executed[p]) |-> executed[p][k]]
  <1>3. f \in Injection(1..Len(executed[p]), 1..Len(commands))
    <2>1. f \in [1..Len(executed[p]) -> 1..Len(commands)]
      BY <1>1 DEF Ids
    <2>2. \A a, b \in DOMAIN f : f[a] = f[b] => a = b
      BY <1>1, <1>2
    <2> QED
      BY <2>1, <2>2 DEF Injection, IsInjective
  <1>4. /\ IsFiniteSet(1..Len(commands))
        /\ Cardinality(1..Len(commands)) = Len(commands)
        /\ Cardinality(1..Len(executed[p])) = Len(executed[p])
    <2>1. \A n \in Nat : IsFiniteSet(1..n) /\ Cardinality(1..n) = n
      <3> SUFFICES ASSUME NEW n \in Nat PROVE IsFiniteSet(1..n) /\ Cardinality(1..n) = n
        OBVIOUS
      <3>1. IsFiniteSet(1..n) /\ Cardinality(1..n) = IF 1 > n THEN 0 ELSE n - 1 + 1
        BY FS_Interval
      <3> QED
        BY <3>1
    <2> QED
      BY <1>1, <2>1
  <1>5. Cardinality(1..Len(executed[p])) <= Cardinality(1..Len(commands))
    BY <1>3, <1>4, FS_Injection
  <1> QED
    BY <1>1, <1>4, <1>5

InVisit == {"join", "poll", "capture", "drain", "send", "verify"}

(* What the types need: a visit visits a Pi, and every Pi to visit was seen. *)
Visits ==
  /\ status \in [Pis -> {None, "unknown", "online", "offline"}]
  /\ saved \in [Pis -> 0..MaxCommands \cup {None}]
  /\ polledOnce \subseteq visible /\ visible \subseteq Pis
  /\ order \in Seq(visible)
  /\ pc \in InVisit \cup {"scan", "list", "next", "wait"}
  /\ pc \in InVisit => order # <<>>
  /\ pc \in {"scan", "wait"} => order = <<>>
  /\ repoll \in BOOLEAN /\ roamed \in BOOLEAN /\ owed \subseteq Pis
  /\ webPc \in {"idle", "set"} /\ repolls \in 0..MaxRepolls
  /\ Len(commands) <= MaxCommands

(* Joined lists and the rest of a list.                                     *)
LEMMA Lists ==
  ASSUME NEW S
  PROVE  /\ \A s, t \in Seq(S) : s \o t \in Seq(S)
         /\ \A s \in Seq(S) : s # <<>> => Head(s) \in S /\ Tail(s) \in Seq(S)
  OBVIOUS

(* Every step keeps the types: the list of a cycle names Pis that were      *)
(* seen, and a visit ends by taking the Pi off the list.                    *)
LEMMA VisitsKept ==
  ASSUME FleetAssumption, IInv, IInv', Visits, [Next]_vars
  PROVE  Visits'
  <1> USE DEF Visits, InVisit, world, store, cycler, web, history
  <1>1. \A ps \in SUBSET Pis : ps \in SUBSET Nat /\ IsFiniteSet(ps)
    BY FS_Subset DEF FleetAssumption
  <1>2. ASSUME pc \in InVisit
        PROVE  Visiting \in visible /\ Tail(order) \in Seq(visible)
    BY <1>2, Lists DEF Visiting
  <1>3. \A p \in Pis : Len(executed[p]) \in 0..MaxCommands
    <2>1. Len(commands) \in Nat /\ MaxCommands \in Nat
      BY DEF IInv, Types, FleetAssumption
    <2> QED
      BY <2>1, ExecutesFew
  <1>4. CASE UNCHANGED vars
    BY <1>4 DEF vars
  <1>5. ASSUME NEW p \in Pis, Enqueue(p) PROVE Visits'
    <2>1. commands \in Seq(Command) /\ MaxCommands \in Nat
      BY DEF IInv, Types, FleetAssumption
    <2>2. Len(commands) \in Nat /\ Len(commands') = Len(commands) + 1
      BY <1>5, <2>1 DEF Enqueue
    <2> QED
      BY <1>5, <2>1, <2>2 DEF Enqueue
  <1>6. ASSUME NEW ps \in {{p} : p \in Pis} \cup {Pis}, RequestRepoll(ps) PROVE Visits'
    <2>1. ps \subseteq Pis /\ MaxRepolls \in Nat
      BY DEF FleetAssumption
    <2> QED
      BY <1>6, <2>1 DEF RequestRepoll
  <1>7. CASE SetRepollEvent
    BY <1>7 DEF SetRepollEvent
  <1>8. CASE Scan
    <2>1. inRange \subseteq Pis
      BY DEF IInv, Types
    <2>2. status' \in [Pis -> {None, "unknown", "online", "offline"}]
      BY <1>8 DEF Scan
    <2>3. order = <<>> /\ <<>> \in Seq(visible')
      BY <1>8 DEF Scan
    <2> QED
      BY <1>8, <2>1, <2>2, <2>3 DEF Scan
  <1>9. CASE JoinList
    <2> DEFINE urgent == visible \cap PendingPis
               others == visible \ (urgent \cup polledOnce)
    <2>1. Ascending(urgent) \in Seq(urgent) /\ Ascending(others) \in Seq(others)
      BY <1>1, AscendingLists
    <2>2. urgent \subseteq visible /\ others \subseteq visible
      OBVIOUS
    <2>3. Ascending(urgent) \in Seq(visible) /\ Ascending(others) \in Seq(visible)
      BY <2>1, <2>2
    <2> HIDE DEF urgent, others
    <2>4. Ascending(urgent) \o Ascending(others) \in Seq(visible)
      BY <2>3, Lists
    <2>5. order' = Ascending(urgent) \o Ascending(others)
      BY <1>9 DEF JoinList, urgent, others
    <2>6. order' \in Seq(visible')
      BY <1>9, <2>4, <2>5 DEF JoinList
    <2> HIDE DEF PendingPis
    <2> QED
      BY <1>9, <2>6 DEF JoinList
  <1>10. CASE NextVisit
    BY <1>10 DEF NextVisit
  <1>11. ASSUME pc \in InVisit, VisitFails, UNCHANGED <<commands, visible, roamed>>,
                owed' \subseteq owed
         PROVE  Visits'
    <2>1. Visiting \in visible /\ Tail(order) \in Seq(visible)
      BY <1>2, <1>11
    <2>2. [status EXCEPT ![Visiting] = "offline"] \in [Pis -> {None, "unknown", "online", "offline"}]
      OBVIOUS
    <2> QED
      BY <1>11, <2>1, <2>2 DEF VisitFails
  <1>12. CASE Join
    <2>1. CASE VisitFails
      BY <1>11, <1>12, <2>1 DEF Join, VisitFails
    <2>2. CASE ~VisitFails
      BY <1>12, <2>2 DEF Join
    <2> QED
      BY <2>1, <2>2
  <1>13. ASSUME pc \in InVisit, Answers,
                saved' = [saved EXCEPT ![Visiting] = Len(executed[ap])],
                status' = [status EXCEPT ![Visiting] = "online"]
         PROVE  /\ saved' \in [Pis -> 0..MaxCommands \cup {None}]
                /\ status' \in [Pis -> {None, "unknown", "online", "offline"}]
    <2>1. ap \in Pis
      BY <1>13 DEF Answers, IInv, Types
    <2>2. Len(executed[ap]) \in 0..MaxCommands
      BY <1>3, <2>1
    <2> QED
      BY <1>13, <2>2
  <1>14. CASE Poll
    <2>1. owed' \subseteq owed
      BY <1>14 DEF Poll
    <2>2. CASE VisitFails
      BY <1>11, <1>14, <2>1, <2>2 DEF Poll, VisitFails
    <2>3. CASE ~VisitFails
      <3>1. /\ Answers /\ pc' = "capture" /\ pc \in InVisit
            /\ saved' = [saved EXCEPT ![Visiting] = Len(executed[ap])]
            /\ status' = [status EXCEPT ![Visiting] = "online"]
            /\ UNCHANGED <<commands, polledOnce, repoll, visible, order, web, roamed>>
        BY <1>14, <2>3 DEF Poll
      <3>2. /\ saved' \in [Pis -> 0..MaxCommands \cup {None}]
            /\ status' \in [Pis -> {None, "unknown", "online", "offline"}]
        BY <1>13, <3>1
      <3> QED
        BY <2>1, <3>1, <3>2
    <2> QED
      BY <2>2, <2>3
  <1>15. CASE Capture
    <2>1. Visiting \in visible
      BY <1>2, <1>15 DEF Capture
    <2> QED
      BY <1>15, <2>1 DEF Capture
  <1>16. CASE Drain
    <2>1. Len(commands') = Len(commands)
      BY <1>16 DEF Drain, Ids, IInv, Types
    <2> QED
      BY <1>16, <2>1 DEF Drain
  <1>17. CASE SendCommand
    <2>1. PICK id \in sending : \E s : commands' = [commands EXCEPT ![id].status = s]
      BY <1>17 DEF SendCommand
    <2>2. Len(commands') = Len(commands)
      BY <2>1 DEF IInv, Types
    <2>3. pc = "send" /\ pc' \in {"send", "verify"}
          /\ UNCHANGED <<status, saved, repoll, polledOnce, visible, order, web, history>>
      BY <1>17 DEF SendCommand
    <2> QED
      BY <2>2, <2>3
  <1>18. CASE Verify
    <2>1. /\ saved' \in [Pis -> 0..MaxCommands \cup {None}]
          /\ status' \in [Pis -> {None, "unknown", "online", "offline"}]
      <3>1. CASE UNCHANGED <<saved, status>>
        BY <3>1
      <3>2. CASE ~UNCHANGED <<saved, status>>
        BY <1>13, <1>18, <3>2 DEF Verify
      <3> QED
        BY <3>1, <3>2
    <2> QED
      BY <1>18, <2>1 DEF Verify
  <1>19. CASE EndVisit
    <2>1. Tail(order) \in Seq(visible)
      BY <1>2, <1>19 DEF EndVisit
    <2> QED
      BY <1>19, <2>1 DEF EndVisit
  <1>20. CASE WakeEarly \/ WaitTimesOut
    BY <1>20 DEF WakeEarly, WaitTimesOut
  <1>21. ASSUME NEW p \in Pis, Move(p) \/ Roam(p) PROVE Visits'
    BY <1>21 DEF Move, Roam
  <1> QED
    BY <1>4, <1>5, <1>6, <1>7, <1>8, <1>9, <1>10, <1>12, <1>14, <1>15, <1>16, <1>17,
       <1>18, <1>19, <1>20, <1>21 DEF Next, Web, Cycler

(* The state of the dashboard has the type Fleet declares: a Pi executes no *)
(* more commands than were queued, and what a cycle visits it has seen.     *)
THEOREM FleetTypes == ASSUME FleetAssumption PROVE Spec => []TypeOK
  <1>1. Init => Visits
    <2>1. MaxCommands \in Nat /\ MaxRepolls \in Nat
      BY DEF FleetAssumption
    <2> SUFFICES ASSUME Init PROVE Visits
      OBVIOUS
    <2>2. Len(commands) = 0 /\ order = <<>> /\ order \in Seq(visible)
      BY DEF Init
    <2>3. [p \in Pis |-> None] \in [Pis -> {None, "unknown", "online", "offline"}]
      OBVIOUS
    <2>4. [p \in Pis |-> None] \in [Pis -> 0..MaxCommands \cup {None}]
      OBVIOUS
    <2>5. /\ status \in [Pis -> {None, "unknown", "online", "offline"}]
          /\ saved \in [Pis -> 0..MaxCommands \cup {None}]
      BY <2>3, <2>4 DEF Init
    <2>6. /\ visible = {} /\ polledOnce = {} /\ owed = {} /\ pc = "scan" /\ webPc = "idle"
          /\ repoll = FALSE /\ roamed = FALSE /\ repolls = 0
      BY DEF Init
    <2>7. /\ polledOnce \subseteq visible /\ visible \subseteq Pis /\ owed \subseteq Pis
      BY <2>6
    <2>8. repoll \in BOOLEAN /\ roamed \in BOOLEAN
      BY <2>6
    <2>9. repolls \in 0..MaxRepolls /\ Len(commands) <= MaxCommands
      BY <2>1, <2>2, <2>6
    <2>10. pc \notin InVisit /\ pc \in InVisit \cup {"scan", "list", "next", "wait"}
      BY <2>6 DEF InVisit
    <2> QED
      BY <2>2, <2>5, <2>6, <2>7, <2>8, <2>9, <2>10 DEF Visits
  <1>2. IInv /\ IInv' /\ Visits /\ [Next]_vars => Visits'
    BY VisitsKept
  <1>3. IInv /\ Visits => TypeOK
    <2> SUFFICES ASSUME IInv, Visits PROVE TypeOK
      OBVIOUS
    <2>1. /\ inRange \subseteq Pis /\ ap \in Pis \cup {None} /\ sending \subseteq Ids
          /\ commands \in Seq([pi : Pis, status : {"pending", "sent", "confirmed", "failed"}])
      BY DEF IInv, Types, Command, Statuses
    <2>2. executed \in [Pis -> Seq(Ids)]
      <3>1. \A p \in Pis : executed[p] \in Seq(Nat) /\ \A k \in 1..Len(executed[p]) : executed[p][k] \in Ids
        BY DEF IInv, Types, ExecutedIsDone
      <3>2. \A p \in Pis : executed[p] \in Seq(Ids)
        BY <3>1
      <3> QED
        BY <3>2 DEF IInv, Types
    <2>3. order \in Seq(Pis)
      BY DEF Visits
    <2> QED
      BY <2>1, <2>2, <2>3 DEF Visits, InVisit, TypeOK
  <1> QED
    BY <1>1, <1>2, <1>3, Invariance, PTL DEF Spec

=============================================================================
