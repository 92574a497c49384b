----------------------------- MODULE ServiceProofs -----------------------------
(***************************************************************************)
(* Proofs about Service.  The serial link for every number of callers,     *)
(* calls and frames: types, and which replies a caller may take for its    *)
(* own.  The sensor stream for every number of chips: types, and that a    *)
(* row which an interrupt releases holds a new conversion.  The types of   *)
(* the control core and of the dashboard come from the theorems of their   *)
(* own proof modules.                                                      *)
(***************************************************************************)
EXTENDS Service, SequenceTheorems, FiniteSetTheorems, TLAPS

(* The serial link.                                                        *)
Items == Verbs \cup {"pause", "resume", "commit idle", "commit charge"}

Types ==
  /\ serLock \in Callers \cup {None} /\ modeLock \in Callers \cup {None}
  /\ mode \in {"idle", "charge"} /\ running \in BOOLEAN
  /\ plan \in [Callers -> Seq(Items)] /\ waiting \in [Callers -> Numbers \cup {None}]
  /\ calls \in 0..MaxCalls
  /\ sent \in Seq(Verbs) /\ executed \in 0..Len(sent) /\ fwBusy \in BOOLEAN
  /\ out \in Seq(Numbers \cup {Frame}) /\ responses \in Seq(Numbers)
  /\ held \in BOOLEAN
  /\ results \in Seq(Nat \cup {None}) /\ Len(results) = Len(sent)

(* The caller in _send waits for the last command, the only one without a  *)
(* result.                                                                 *)
OneWaits ==
  /\ \A c \in Callers : waiting[c] # None =>
       serLock = c /\ waiting[c] = Len(sent) /\ plan[c] # <<>>
  /\ \A c \in Callers : serLock = c => waiting[c] # None
  /\ \A n \in Numbers : results[n] = Pending <=> serLock # None /\ n = Len(sent)

(* The replies on their way are those of executed commands, in order.      *)
Replies == {i \in 1..Len(out) : out[i] # Frame}

InOrder ==
  /\ \A i, j \in 1..Len(responses) : i < j => responses[i] < responses[j]
  /\ \A i, j \in Replies : i < j => out[i] < out[j]
  /\ \A i \in 1..Len(responses), j \in Replies : responses[i] < out[j]
  /\ \A i \in 1..Len(responses) : responses[i] <= executed
  /\ \A i \in Replies : out[i] <= executed

(* A reply that was taken is older than any on its way, and none was taken *)
(* twice.                                                                  *)
TakenFirst ==
  /\ \A n \in Replied : results[n] \in 1..executed /\ results[n] <= n
  /\ \A n, m \in Replied : n # m => results[n] # results[m]
  /\ \A n \in Replied, i \in 1..Len(responses) : results[n] < responses[i]
  /\ \A n \in Replied, i \in Replies : results[n] < out[i]

(* As long as no command was given up, only the reply to the one that is   *)
(* waited for may be on its way.                                           *)
NoneGivenUp == \A n \in Numbers : results[n] # None

Undisturbed ==
  NoneGivenUp =>
    /\ OwnReply
    /\ \A i \in 1..Len(responses) : results[responses[i]] = Pending
    /\ \A i \in Replies : results[out[i]] = Pending

IInv == Types /\ OneWaits /\ InOrder /\ TakenFirst /\ Undisturbed

-----------------------------------------------------------------------------
(* What Append and Tail do to the elements of a sequence.                  *)
LEMMA Appended ==
  ASSUME NEW S, NEW s \in Seq(S), NEW e \in S
  PROVE  /\ Append(s, e) \in Seq(S) /\ Len(s) \in Nat /\ Len(Append(s, e)) = Len(s) + 1
         /\ \A i \in 1..Len(s) : Append(s, e)[i] = s[i]
         /\ Append(s, e)[Len(s) + 1] = e
  BY AppendProperties

(* What is left of a sequence whose first element is taken.                *)
LEMMA Taken ==
  ASSUME NEW S, NEW s \in Seq(S), s # <<>>
  PROVE  /\ Head(s) \in S /\ Head(s) = s[1] /\ Tail(s) \in Seq(S)
         /\ Len(s) \in Nat /\ Len(s) >= 1 /\ Len(Tail(s)) = Len(s) - 1
         /\ \A i \in 1..Len(Tail(s)) : Tail(s)[i] = s[i + 1]
  BY HeadTailProperties

(* A call is a sequence of items, and has one at least.                    *)
LEMMA CallHasSteps ==
  ASSUME NEW call \in Calls
  PROVE  Steps(call) \in Seq(Items) /\ Steps(call) # <<>>
  <1>1. call \in {"idle", "charge", "query", "profile"}
    BY SerialLinkAssumption
  <1>2. CASE call = "idle"
    <2>1. <<"pause", "H", "S", "commit idle">> \in Seq(Items) /\ <<"pause", "S", "commit idle">> \in Seq(Items)
      BY DEF Items, Verbs
    <2> QED
      BY <1>2, <2>1 DEF Steps
  <1>3. CASE call = "charge"
    <2>1. <<"S", "resume", "C", "F", "P", "G", "commit charge">> \in Seq(Items)
      BY DEF Items, Verbs
    <2> QED
      BY <1>3, <2>1 DEF Steps
  <1>4. CASE call = "query"
    <2>1. <<"U">> \in Seq(Items)
      BY DEF Items, Verbs
    <2> QED
      BY <1>4, <2>1 DEF Steps
  <1>5. CASE call = "profile"
    <2>1. <<"Z">> \in Seq(Items)
      BY DEF Items, Verbs
    <2> QED
      BY <1>5, <2>1 DEF Steps
  <1> QED
    BY <1>1, <1>2, <1>3, <1>4, <1>5

(* A step that leaves commands, replies and results alone keeps what is    *)
(* said of them.                                                           *)
LEMMA Aside ==
  ASSUME IInv, UNCHANGED <<serLock, waiting, sent, executed, out, responses, results>>,
         \A c \in Callers : waiting[c] # None => plan'[c] = plan[c]
  PROVE  OneWaits' /\ InOrder' /\ TakenFirst' /\ Undisturbed'
  BY DEF IInv, OneWaits, InOrder, TakenFirst, Undisturbed, Numbers, Replies, Replied, NoneGivenUp,
         OwnReply

(* A call that begins only takes up its steps and the mode lock.           *)
LEMMA BeginCallKeeps ==
  ASSUME IInv, NEW c \in Callers, NEW call \in Calls, BeginCall(c, call)
  PROVE  IInv'
  <1>1. UNCHANGED <<serLock, mode, running, waiting, sent, executed, fwBusy, out, responses, held, results>>
        /\ plan' = [plan EXCEPT ![c] = Steps(call)] /\ calls' = calls + 1 /\ calls < MaxCalls
        /\ modeLock' \in Callers \cup {None} /\ plan[c] = <<>>
    BY DEF BeginCall, server, firmware, IInv, Types
  <1>2. Types'
    BY <1>1, CallHasSteps, SerialLinkAssumption DEF IInv, Types, Numbers
  <1>3. \A d \in Callers : waiting[d] # None => plan'[d] = plan[d]
    BY <1>1 DEF IInv, Types, OneWaits
  <1> QED
    BY <1>1, <1>2, <1>3, Aside DEF IInv

(* Sections of the server between two commands send nothing.               *)
LEMMA SectionKeeps ==
  ASSUME IInv, NEW c \in Callers, SetPaused(c) \/ Commit(c)
  PROVE  IInv'
  <1>1. UNCHANGED <<serLock, waiting, calls, sent, executed, fwBusy, out, responses, held, results>>
        /\ plan' = [plan EXCEPT ![c] = Tail(plan[c])] /\ plan[c] # <<>> /\ waiting[c] = None
        /\ modeLock' \in Callers \cup {None} /\ mode' \in {"idle", "charge"} /\ running' \in BOOLEAN
    BY DEF SetPaused, Commit, At, Done, locks, firmware, IInv, Types
  <1>2. Tail(plan[c]) \in Seq(Items)
    BY <1>1, Taken DEF IInv, Types
  <1>3. Types'
    BY <1>1, <1>2 DEF IInv, Types, Numbers
  <1>4. \A d \in Callers : waiting[d] # None => plan'[d] = plan[d]
    BY <1>1 DEF IInv, Types
  <1> QED
    BY <1>1, <1>3, <1>4, Aside DEF IInv

(* The reader goes on when it has the mode lock.                           *)
LEMMA RecordFrameKeeps ==
  ASSUME IInv, RecordFrame
  PROVE  IInv'
  <1>1. UNCHANGED <<serLock, modeLock, mode, running, plan, waiting, calls, sent, executed, fwBusy, out, responses, results>>
        /\ held' = FALSE
    BY DEF RecordFrame, locks, server, callers, firmware
  <1>2. Types'
    BY <1>1 DEF IInv, Types, Numbers
  <1> QED
    BY <1>1, <1>2, Aside DEF IInv

(* The command that is written is one more; what was on its way when       *)
(* nobody waited belongs to commands given up, and what had arrived is     *)
(* thrown away.                                                            *)
LEMMA SendKeeps ==
  ASSUME IInv, NEW c \in Callers, Send(c)
  PROVE  IInv'
  <1> DEFINE n == Len(sent) + 1
  <1>1. /\ UNCHANGED <<modeLock, mode, running, plan, calls, executed, fwBusy, out, held>>
        /\ serLock = None /\ serLock' = c /\ responses' = <<>>
        /\ sent' = Append(sent, Head(plan[c])) /\ waiting' = [waiting EXCEPT ![c] = Len(sent')]
        /\ results' = Append(results, Pending)
        /\ plan[c] # <<>> /\ Head(plan[c]) \in Verbs
    BY DEF Send, At, server
  <1>2. /\ sent' \in Seq(Verbs) /\ Len(sent) \in Nat /\ Len(sent') = n
        /\ results' \in Seq(Nat \cup {None}) /\ Len(results') = n
        /\ \A i \in 1..Len(sent) : results'[i] = results[i]
        /\ results'[n] = Pending
    BY <1>1, Appended DEF IInv, Types, Pending
  <1>3. Numbers \subseteq Numbers' /\ Numbers' = Numbers \cup {n} /\ Numbers = 1..Len(sent)
    BY <1>2 DEF Numbers
  <1>4. Types'
    <2>1. out' \in Seq(Numbers' \cup {Frame}) /\ responses' \in Seq(Numbers')
      BY <1>1, <1>3 DEF IInv, Types
    <2>2. waiting' \in [Callers -> Numbers' \cup {None}]
      BY <1>1, <1>2, <1>3 DEF IInv, Types
    <2> QED
      BY <1>1, <1>2, <2>1, <2>2 DEF IInv, Types
  <1>5. None \notin Nat /\ None \notin Callers /\ Pending # None
    BY SerialLinkAssumption DEF Pending
  <1>6. \A i \in Numbers : results[i] # Pending
    BY <1>1 DEF IInv, OneWaits
  <1>7. OneWaits'
    <2>1. \A d \in Callers : waiting[d] = None
      BY <1>1, <1>5 DEF IInv, OneWaits, Types
    <2>2. \A d \in Callers : waiting'[d] = IF d = c THEN n ELSE None
      BY <1>1, <1>2, <2>1 DEF IInv, Types
    <2>3. n # None
      BY <1>2, <1>5
    <2>4. \A i \in Numbers' : results'[i] = Pending <=> i = n
      BY <1>2, <1>3, <1>6
    <2> QED
      BY <1>1, <1>2, <1>5, <2>2, <2>3, <2>4 DEF OneWaits
  <1>8. Replied' = Replied /\ Replies' = Replies /\ Len(responses') = 0
    BY <1>1, <1>2, <1>3 DEF Replied, Replies
  <1>9. InOrder'
    BY <1>1, <1>8 DEF IInv, InOrder
  <1>10. TakenFirst'
    BY <1>1, <1>2, <1>3, <1>8 DEF IInv, TakenFirst, Replied
  <1>11. Undisturbed'
    <2> SUFFICES ASSUME NoneGivenUp'
                 PROVE  OwnReply' /\ \A i \in Replies' : results'[out'[i]] = Pending
      BY <1>8 DEF Undisturbed
    <2>1. NoneGivenUp
      BY <1>2, <1>3 DEF NoneGivenUp
    <2>2. OwnReply'
      BY <1>2, <1>3, <1>8, <2>1 DEF IInv, Undisturbed, OwnReply, Replied
    <2>3. \A i \in Replies : out[i] \in Numbers
      BY DEF Replies, IInv, Types
    <2>4. Replies = {}
      BY <1>6, <2>1, <2>3 DEF IInv, Undisturbed
    <2> QED
      BY <1>8, <2>2, <2>4
  <1> QED
    BY <1>4, <1>7, <1>9, <1>10, <1>11 DEF IInv

(* A caller gets a reply, or none: its result is filled in and it goes on. *)
LEMMA Returned ==
  ASSUME IInv, NEW c \in Callers, waiting[c] # None,
         NEW result \in Nat \cup {None}, Return(c, result)
  PROVE  /\ UNCHANGED <<modeLock, mode, running, calls, sent, executed, fwBusy, out, held>>
         /\ waiting[c] = Len(sent) /\ serLock = c /\ Len(sent) \in Numbers
         /\ results' \in Seq(Nat \cup {None}) /\ Len(results') = Len(sent)
         /\ results'[Len(sent)] = result
         /\ \A n \in Numbers : n # Len(sent) => results'[n] = results[n]
         /\ results[Len(sent)] = Pending
         /\ \A n \in Numbers : n # Len(sent) => results[n] # Pending
         /\ serLock' = None /\ waiting' = [d \in Callers |-> None]
         /\ plan' \in [Callers -> Seq(Items)] /\ None \notin Nat
  <1>1. /\ UNCHANGED <<modeLock, mode, running, calls, sent, executed, fwBusy, out, held>>
        /\ serLock' = None /\ results' = [results EXCEPT ![waiting[c]] = result]
        /\ waiting' = [waiting EXCEPT ![c] = None] /\ plan' = [plan EXCEPT ![c] = Tail(plan[c])]
    BY DEF Return, Done, server, firmware
  <1>2. waiting[c] = Len(sent) /\ serLock = c /\ plan[c] # <<>>
    BY DEF IInv, OneWaits
  <1>3. None \notin Nat /\ None \notin Callers
    BY SerialLinkAssumption
  <1>4. Len(sent) \in Numbers /\ Len(sent) \in Nat
    BY <1>2 DEF IInv, Types, Numbers
  <1>5. \A n \in Numbers : results[n] = Pending <=> n = Len(sent)
    BY <1>2, <1>3 DEF IInv, OneWaits
  <1>6. waiting' = [d \in Callers |-> None]
    <2>1. \A d \in Callers : d # c => waiting[d] = None
      BY <1>2 DEF IInv, OneWaits
    <2> QED
      BY <1>1, <2>1 DEF IInv, Types
  <1>7. plan' \in [Callers -> Seq(Items)]
    <2>1. Tail(plan[c]) \in Seq(Items)
      BY <1>2, Taken DEF IInv, Types
    <2> QED
      BY <1>1, <2>1 DEF IInv, Types
  <1>8. /\ results' \in Seq(Nat \cup {None}) /\ Len(results') = Len(sent)
        /\ results'[Len(sent)] = result
        /\ \A n \in Numbers : n # Len(sent) => results'[n] = results[n]
    <2>1. results' = [results EXCEPT ![Len(sent)] = result]
      BY <1>1, <1>2
    <2> QED
      BY <1>4, <2>1 DEF IInv, Types, Numbers
  <1> QED
    BY <1>1, <1>2, <1>3, <1>4, <1>5, <1>6, <1>7, <1>8

(* The oldest reply in the queue goes to the command that waits.           *)
LEMMA RespondKeeps ==
  ASSUME IInv, NEW c \in Callers, Respond(c)
  PROVE  IInv'
  <1> DEFINE n == Len(sent)
             r == Head(responses)
  <1>1. waiting[c] # None /\ responses # <<>> /\ responses' = Tail(responses) /\ Return(c, r)
    BY DEF Respond
  <1>2. /\ r \in Numbers /\ r = responses[1] /\ responses' \in Seq(Numbers)
        /\ Len(responses) \in Nat /\ Len(responses) >= 1 /\ Len(responses') = Len(responses) - 1
        /\ \A i \in 1..Len(responses') : responses'[i] = responses[i + 1]
    BY <1>1, Taken DEF IInv, Types
  <1>3. r \in Nat /\ r # Pending /\ r <= n /\ n \in Nat /\ r >= 1 /\ Numbers = 1..n
    BY <1>2 DEF Numbers, Pending, IInv, Types
  <1>4. /\ UNCHANGED <<modeLock, mode, running, calls, sent, executed, fwBusy, out, held>>
        /\ n \in Numbers
        /\ results' \in Seq(Nat \cup {None}) /\ Len(results') = n
        /\ results'[n] = r
        /\ \A m \in Numbers : m # n => results'[m] = results[m]
        /\ results[n] = Pending
        /\ \A m \in Numbers : m # n => results[m] # Pending
        /\ serLock' = None /\ waiting' = [d \in Callers |-> None]
        /\ plan' \in [Callers -> Seq(Items)] /\ None \notin Nat
    BY <1>1, <1>3, Returned
  <1>5. Types'
    BY <1>2, <1>4 DEF IInv, Types, Numbers
  <1>6. OneWaits'
    BY <1>3, <1>4, SerialLinkAssumption DEF OneWaits, Numbers
  <1>7. Replies' = Replies /\ Numbers' = Numbers
    BY <1>4 DEF Replies, Numbers
  <1>8. \A i \in 1..Len(responses') : i + 1 \in 1..Len(responses) /\ r < responses[i + 1]
    BY <1>2 DEF IInv, InOrder
  <1>9. InOrder'
    <2>1. \A i, j \in 1..Len(responses') : i < j => responses'[i] < responses'[j]
      <3> SUFFICES ASSUME NEW i \in 1..Len(responses'), NEW j \in 1..Len(responses'), i < j
                   PROVE  responses[i + 1] < responses[j + 1]
        BY <1>2
      <3>1. i + 1 \in 1..Len(responses) /\ j + 1 \in 1..Len(responses) /\ i + 1 < j + 1
        BY <1>2
      <3> QED
        BY <3>1 DEF IInv, InOrder
    <2>2. \A i \in 1..Len(responses'), j \in Replies' : responses'[i] < out'[j]
      BY <1>2, <1>4, <1>7, <1>8 DEF IInv, InOrder
    <2>3. \A i \in 1..Len(responses') : responses'[i] <= executed'
      BY <1>2, <1>4, <1>8 DEF IInv, InOrder
    <2> QED
      BY <1>4, <1>7, <2>1, <2>2, <2>3 DEF IInv, InOrder
  <1>10. Replied' = Replied \cup {n} /\ n \notin Replied
    BY <1>3, <1>4, <1>7 DEF Replied
  <1>11. TakenFirst'
    <2>1. r <= executed /\ executed' = executed
      BY <1>2, <1>4 DEF IInv, InOrder
    <2>2. \A m \in Replied : results'[m] = results[m] /\ results[m] < r
      BY <1>2, <1>4, <1>10 DEF IInv, TakenFirst, Replied
    <2>3. \A m \in Replied' : results'[m] \in 1..executed' /\ results'[m] <= m
      BY <1>3, <1>4, <1>10, <2>1, <2>2 DEF IInv, TakenFirst
    <2>4. \A m, k \in Replied' : m # k => results'[m] # results'[k]
      <3>1. \A m \in Replied : results[m] \in Nat
        BY DEF IInv, TakenFirst, Types
      <3> QED
        BY <1>3, <1>4, <1>10, <2>2, <3>1 DEF IInv, TakenFirst
    <2>5. \A m \in Replied', i \in 1..Len(responses') : results'[m] < responses'[i]
      BY <1>2, <1>4, <1>8, <1>10, <2>2, SMTT(30) DEF IInv, TakenFirst
    <2>6. \A m \in Replied', i \in Replies' : results'[m] < out'[i]
      BY <1>2, <1>4, <1>7, <1>10, <2>2 DEF IInv, TakenFirst, InOrder
    <2> QED
      BY <2>3, <2>4, <2>5, <2>6 DEF TakenFirst
  <1>12. Undisturbed'
    <2> SUFFICES ASSUME NoneGivenUp'
                 PROVE  /\ OwnReply' /\ \A i \in 1..Len(responses') : FALSE
                        /\ \A i \in Replies' : FALSE
      BY DEF Undisturbed
    <2>1. NoneGivenUp
      <3>1. results[n] # None
        BY <1>4 DEF Pending
      <3> QED
        BY <1>4, <1>7, <3>1 DEF NoneGivenUp
    <2>2. r = n
      BY <1>2, <1>4, <2>1 DEF IInv, Undisturbed
    <2>3. OwnReply'
      BY <1>4, <1>10, <2>1, <2>2 DEF IInv, Undisturbed, OwnReply, Replied
    <2>4. \A i \in 1..Len(responses) : responses[i] = n
      <3>1. \A i \in 1..Len(responses) : responses[i] \in Numbers
        BY DEF IInv, Types
      <3> QED
        BY <1>4, <2>1, <3>1 DEF IInv, Undisturbed
    <2>5. \A i \in Replies : out[i] = n
      <3>1. \A i \in Replies : out[i] \in Numbers
        BY DEF IInv, Types, Replies
      <3> QED
        BY <1>4, <2>1, <3>1 DEF IInv, Undisturbed
    <2>6. \A i \in 1..Len(responses') : FALSE
      BY <1>3, <1>8, <2>2, <2>4
    <2>7. \A i \in Replies : FALSE
      <3>1. \A i \in Replies : responses[1] < out[i]
        BY <1>2 DEF IInv, InOrder
      <3> QED
        BY <1>2, <1>3, <2>2, <2>5, <3>1
    <2> QED
      BY <1>7, <2>3, <2>6, <2>7
  <1> QED
    BY <1>5, <1>6, <1>9, <1>11, <1>12 DEF IInv

(* A time-out leaves the reply to come for a later command.                *)
LEMMA GiveUpKeeps ==
  ASSUME IInv, NEW c \in Callers, GiveUp(c)
  PROVE  IInv'
  <1> DEFINE n == Len(sent)
  <1>1. waiting[c] # None /\ UNCHANGED responses /\ Return(c, None)
    BY DEF GiveUp
  <1>2. /\ UNCHANGED <<modeLock, mode, running, calls, sent, executed, fwBusy, out, held>>
        /\ n \in Numbers
        /\ results' \in Seq(Nat \cup {None}) /\ Len(results') = n
        /\ results'[n] = None
        /\ \A m \in Numbers : m # n => results'[m] = results[m]
        /\ results[n] = Pending
        /\ \A m \in Numbers : m # n => results[m] # Pending
        /\ serLock' = None /\ waiting' = [d \in Callers |-> None]
        /\ plan' \in [Callers -> Seq(Items)] /\ None \notin Nat
    BY <1>1, Returned
  <1>3. Types'
    BY <1>1, <1>2 DEF IInv, Types, Numbers
  <1>4. Numbers' = Numbers /\ Replies' = Replies /\ Replied' = Replied
    BY <1>2 DEF Numbers, Replies, Replied
  <1>5. OneWaits'
    BY <1>2, <1>4, SerialLinkAssumption DEF OneWaits, Pending
  <1>6. InOrder'
    BY <1>1, <1>2, <1>4 DEF IInv, InOrder
  <1>7. \A m \in Replied : results'[m] = results[m]
    BY <1>2 DEF Replied
  <1>8. TakenFirst'
    <2>1. \A m \in Replied' : results'[m] \in 1..executed' /\ results'[m] <= m
      BY <1>2, <1>4, <1>7 DEF IInv, TakenFirst
    <2>2. \A m, k \in Replied' : m # k => results'[m] # results'[k]
      BY <1>2, <1>4, <1>7 DEF IInv, TakenFirst
    <2>3. \A m \in Replied', i \in 1..Len(responses') : results'[m] < responses'[i]
      BY <1>1, <1>2, <1>4, <1>7 DEF IInv, TakenFirst
    <2>4. \A m \in Replied', i \in Replies' : results'[m] < out'[i]
      BY <1>2, <1>4, <1>7 DEF IInv, TakenFirst
    <2> QED
      BY <2>1, <2>2, <2>3, <2>4 DEF TakenFirst
  <1>9. ~NoneGivenUp'
    BY <1>2, <1>4 DEF NoneGivenUp
  <1> QED
    BY <1>3, <1>5, <1>6, <1>8, <1>9 DEF IInv, Undisturbed

(* The firmware is done with the next command, which is later than all     *)
(* whose replies are on their way and is waited for or was given up.       *)
LEMMA ExecuteKeeps ==
  ASSUME IInv, Execute
  PROVE  IInv'
  <1> DEFINE n == executed + 1
             last == Len(out) + 1
  <1>1. /\ UNCHANGED <<serLock, modeLock, mode, running, plan, waiting, calls, sent, responses, held, results>>
        /\ executed < Len(sent)
        /\ \/ fwBusy' = TRUE /\ UNCHANGED <<executed, out>>
           \/ fwBusy' = FALSE /\ executed' = n /\ out' = Append(out, n)
    BY DEF Execute, locks, server, callers
  <1>2. CASE UNCHANGED <<executed, out>>
    <2>1. Types'
      BY <1>1, <1>2 DEF IInv, Types, Numbers
    <2> QED
      BY <1>1, <1>2, <2>1, Aside DEF IInv
  <1>3. CASE executed' = n /\ out' = Append(out, n) /\ fwBusy' = FALSE
    <2>1. n \in Numbers /\ n \in Nat /\ n # Frame /\ executed \in Nat /\ Numbers = 1..Len(sent)
      BY <1>1 DEF IInv, Types, Numbers, Frame
    <2>2. /\ out' \in Seq(Numbers \cup {Frame}) /\ Len(out) \in Nat /\ Len(out') = last
          /\ \A i \in 1..Len(out) : out'[i] = out[i]
          /\ out'[last] = n
      BY <1>3, <2>1, Appended DEF IInv, Types
    <2>3. Numbers' = Numbers /\ Replied' = Replied /\ Replies' = Replies \cup {last} /\ last \notin Replies
      BY <1>1, <2>1, <2>2 DEF Numbers, Replied, Replies
    <2>4. \A i \in Replies : i \in 1..Len(out) /\ out'[i] = out[i] /\ out[i] < n /\ i < last /\ out[i] \in Nat
      BY <2>1, <2>2 DEF Replies, IInv, InOrder, Types
    <2>5. \A i \in 1..Len(responses) : responses[i] < n /\ responses[i] \in Nat
      BY <2>1 DEF IInv, InOrder, Types
    <2>6. Types'
      <3>1. executed' \in 0..Len(sent') /\ fwBusy' \in BOOLEAN /\ out' \in Seq(Numbers' \cup {Frame})
        <4>1. Len(sent) \in Nat /\ n \in 0..Len(sent)
          BY <1>1, <2>1 DEF IInv, Types
        <4> QED
          BY <1>1, <1>3, <2>2, <2>3, <4>1
      <3>2. waiting' \in [Callers -> Numbers' \cup {None}] /\ responses' \in Seq(Numbers')
        BY <1>1, <2>3 DEF IInv, Types
      <3> QED
        BY <1>1, <3>1, <3>2 DEF IInv, Types
    <2>7. OneWaits'
      BY <1>1, <2>3 DEF IInv, OneWaits
    <2>8. InOrder'
      <3>1. \A i, j \in 1..Len(responses') : i < j => responses'[i] < responses'[j]
        BY <1>1 DEF IInv, InOrder
      <3>2. \A i, j \in Replies' : i < j => out'[i] < out'[j]
        <4> SUFFICES ASSUME NEW i \in Replies', NEW j \in Replies', i < j
                     PROVE  out'[i] < out'[j]
          OBVIOUS
        <4>1. i \in Replies
          BY <2>2, <2>3, <2>4
        <4>2. CASE j \in Replies
          BY <2>4, <4>1, <4>2 DEF IInv, InOrder
        <4>3. CASE j = last
          BY <2>2, <2>4, <4>1, <4>3
        <4> QED
          BY <2>3, <4>2, <4>3
      <3>3. \A i \in 1..Len(responses'), j \in Replies' : responses'[i] < out'[j]
        BY <1>1, <2>2, <2>3, <2>4, <2>5 DEF IInv, InOrder
      <3>4. \A i \in 1..Len(responses') : responses'[i] <= executed'
        BY <1>1, <1>3, <2>1, <2>5
      <3>5. \A i \in Replies' : out'[i] <= executed'
        BY <1>3, <2>1, <2>2, <2>3, <2>4
      <3> QED
        BY <3>1, <3>2, <3>3, <3>4, <3>5 DEF InOrder
    <2>9. \A m \in Replied : results[m] \in 1..executed
      BY DEF IInv, TakenFirst
    <2>10. TakenFirst'
      <3>1. \A m \in Replied' : results'[m] \in 1..executed' /\ results'[m] <= m
        BY <1>1, <1>3, <2>1, <2>3, <2>9 DEF IInv, TakenFirst
      <3>2. \A m, k \in Replied' : m # k => results'[m] # results'[k]
        BY <1>1, <2>3 DEF IInv, TakenFirst
      <3>3. \A m \in Replied', i \in 1..Len(responses') : results'[m] < responses'[i]
        BY <1>1, <2>3 DEF IInv, TakenFirst
      <3>4. \A m \in Replied', i \in Replies' : results'[m] < out'[i]
        BY <1>1, <2>1, <2>2, <2>3, <2>4, <2>9 DEF IInv, TakenFirst
      <3> QED
        BY <3>1, <3>2, <3>3, <3>4 DEF TakenFirst
    <2>11. Undisturbed'
      <3> SUFFICES ASSUME NoneGivenUp
                   PROVE  /\ OwnReply' /\ \A i \in 1..Len(responses') : results'[responses'[i]] = Pending
                          /\ \A i \in Replies' : results'[out'[i]] = Pending
        BY <1>1, <2>3 DEF Undisturbed, NoneGivenUp
      <3>1. OwnReply'
        BY <1>1, <2>3 DEF IInv, Undisturbed, OwnReply
      <3>2. results[n] = Pending
        <4>1. results[n] # None
          BY <2>1 DEF NoneGivenUp
        <4>2. n \notin Replied
          BY <2>1, <2>9 DEF IInv, Undisturbed, OwnReply
        <4> QED
          BY <2>1, <4>1, <4>2 DEF Replied
      <3>3. \A i \in Replies' : results'[out'[i]] = Pending
        BY <1>1, <2>2, <2>3, <2>4, <3>2 DEF IInv, Undisturbed
      <3> QED
        BY <1>1, <3>1, <3>3 DEF IInv, Undisturbed
    <2> QED
      BY <2>6, <2>7, <2>8, <2>10, <2>11 DEF IInv
  <1> QED
    BY <1>1, <1>2, <1>3

(* A D line is no reply.                                                   *)
LEMMA EmitFrameKeeps ==
  ASSUME IInv, EmitFrame
  PROVE  IInv'
  <1>1. /\ UNCHANGED <<serLock, modeLock, mode, running, plan, waiting, calls, sent, executed, fwBusy, responses, held, results>>
        /\ out' = Append(out, Frame)
    BY DEF EmitFrame, locks, server, callers
  <1>2. /\ out' \in Seq(Numbers \cup {Frame}) /\ Len(out) \in Nat /\ Len(out') = Len(out) + 1
        /\ \A i \in 1..Len(out) : out'[i] = out[i]
        /\ out'[Len(out) + 1] = Frame
    BY <1>1, Appended DEF IInv, Types
  <1>3. /\ Numbers' = Numbers /\ Replied' = Replied /\ Replies' = Replies
        /\ \A i \in Replies : out'[i] = out[i]
    BY <1>1, <1>2 DEF Numbers, Replied, Replies
  <1>4. Types'
    BY <1>1, <1>2, <1>3 DEF IInv, Types
  <1>5. OneWaits'
    BY <1>1, <1>3 DEF IInv, OneWaits
  <1>6. InOrder'
    BY <1>1, <1>3 DEF IInv, InOrder
  <1>7. TakenFirst'
    BY <1>1, <1>3 DEF IInv, TakenFirst
  <1>8. Undisturbed'
    BY <1>1, <1>3 DEF IInv, Undisturbed, NoneGivenUp, OwnReply
  <1> QED
    BY <1>4, <1>5, <1>6, <1>7, <1>8 DEF IInv

(* The oldest line is read: a reply is put behind those that have arrived  *)
(* and stays ahead of those still on the way.                              *)
LEMMA ReadLineKeeps ==
  ASSUME IInv, ReadLine
  PROVE  IInv'
  <1> DEFINE line == Head(out)
             last == Len(responses) + 1
  <1>1. /\ UNCHANGED <<serLock, modeLock, mode, running, plan, waiting, calls, sent, executed, fwBusy, results>>
        /\ out # <<>> /\ out' = Tail(out)
        /\ \/ line = Frame /\ held' = Recording /\ UNCHANGED responses
           \/ line # Frame /\ responses' = Append(responses, line) /\ UNCHANGED held
    BY DEF ReadLine, locks, server, callers
  <1>2. /\ line \in Numbers \cup {Frame} /\ line = out[1] /\ out' \in Seq(Numbers \cup {Frame})
        /\ Len(out) \in Nat /\ Len(out) >= 1 /\ Len(out') = Len(out) - 1
        /\ \A i \in 1..Len(out') : out'[i] = out[i + 1]
    BY <1>1, Taken DEF IInv, Types
  <1>3. Numbers' = Numbers /\ Replied' = Replied /\ NoneGivenUp' = NoneGivenUp
    BY <1>1 DEF Numbers, Replied, NoneGivenUp
  <1>4. \A i \in Replies' : i + 1 \in Replies /\ out'[i] = out[i + 1] /\ i \in Nat /\ i >= 1
    BY <1>2 DEF Replies
  <1>5. \A i, j \in Replies' : i < j => out'[i] < out'[j]
    <2> SUFFICES ASSUME NEW i \in Replies', NEW j \in Replies', i < j
                 PROVE  out[i + 1] < out[j + 1]
      BY <1>4
    <2>1. i + 1 \in Replies /\ j + 1 \in Replies /\ i + 1 < j + 1
      BY <1>4
    <2> QED
      BY <2>1 DEF IInv, InOrder
  <1>6. /\ \A i \in Replies' : out'[i] <= executed'
        /\ \A m \in Replied', i \in Replies' : results'[m] < out'[i]
        /\ NoneGivenUp => \A i \in Replies' : results'[out'[i]] = Pending
    BY <1>1, <1>3, <1>4 DEF IInv, InOrder, TakenFirst, Undisturbed
  <1>7. OneWaits'
    BY <1>1, <1>3 DEF IInv, OneWaits
  <1>8. /\ \A m \in Replied' : results'[m] \in 1..executed' /\ results'[m] <= m
        /\ \A m, k \in Replied' : m # k => results'[m] # results'[k]
        /\ NoneGivenUp => OwnReply'
    BY <1>1, <1>3 DEF IInv, TakenFirst, Undisturbed, OwnReply
  <1>9. CASE line = Frame
    <2>1. UNCHANGED responses /\ held' \in BOOLEAN
      BY <1>1, <1>9, SerialLinkAssumption
    <2>2. Types'
      BY <1>1, <1>2, <1>3, <2>1 DEF IInv, Types
    <2>3. InOrder'
      <3>1. \A i \in 1..Len(responses'), j \in Replies' : responses'[i] < out'[j]
        BY <1>4, <2>1 DEF IInv, InOrder
      <3> QED
        BY <1>1, <1>5, <1>6, <2>1, <3>1 DEF IInv, InOrder
    <2>4. TakenFirst'
      <3>1. \A m \in Replied', i \in 1..Len(responses') : results'[m] < responses'[i]
        BY <1>1, <1>3, <2>1 DEF IInv, TakenFirst
      <3> QED
        BY <1>6, <1>8, <3>1 DEF TakenFirst
    <2>5. Undisturbed'
      BY <1>1, <1>3, <1>6, <1>8, <2>1 DEF IInv, Undisturbed
    <2> QED
      BY <1>7, <2>2, <2>3, <2>4, <2>5 DEF IInv
  <1>10. CASE line # Frame
    <2>1. responses' = Append(responses, line) /\ UNCHANGED held /\ line \in Numbers
      BY <1>1, <1>2, <1>10
    <2>2. /\ responses' \in Seq(Numbers) /\ Len(responses) \in Nat /\ Len(responses') = last
          /\ \A i \in 1..Len(responses) : responses'[i] = responses[i]
          /\ responses'[last] = line
      BY <2>1, Appended DEF IInv, Types
    <2>3. 1 \in Replies
      BY <1>2, <1>10 DEF Replies
    <2>4. Types'
      BY <1>1, <1>2, <1>3, <2>1, <2>2 DEF IInv, Types
    <2>5. /\ \A i \in 1..Len(responses) : responses[i] < line
          /\ line <= executed
          /\ \A m \in Replied : results[m] < line
      BY <1>2, <2>3 DEF IInv, InOrder, TakenFirst
    <2>6. \A j \in Replies' : line < out'[j]
      <3> SUFFICES ASSUME NEW j \in Replies'
                   PROVE  out[1] < out[j + 1]
        BY <1>2, <1>4
      <3>1. j + 1 \in Replies /\ 1 < j + 1
        BY <1>4
      <3> QED
        BY <2>3, <3>1 DEF IInv, InOrder
    <2>7. InOrder'
      <3>1. \A i, j \in 1..Len(responses') : i < j => responses'[i] < responses'[j]
        <4> SUFFICES ASSUME NEW i \in 1..Len(responses'), NEW j \in 1..Len(responses'), i < j
                     PROVE  responses'[i] < responses'[j]
          OBVIOUS
        <4>1. i \in 1..Len(responses)
          BY <2>2
        <4>2. CASE j \in 1..Len(responses)
          BY <2>2, <4>1, <4>2 DEF IInv, InOrder
        <4>3. CASE j = last
          BY <2>2, <2>5, <4>1, <4>3
        <4> QED
          BY <2>2, <4>2, <4>3
      <3>2. \A i \in 1..Len(responses'), j \in Replies' : responses'[i] < out'[j]
        <4> SUFFICES ASSUME NEW i \in 1..Len(responses'), NEW j \in Replies'
                     PROVE  responses'[i] < out'[j]
          OBVIOUS
        <4>1. CASE i \in 1..Len(responses)
          BY <1>4, <2>2, <4>1 DEF IInv, InOrder
        <4>2. CASE i = last
          BY <2>2, <2>6, <4>2
        <4> QED
          BY <2>2, <4>1, <4>2
      <3>3. \A i \in 1..Len(responses') : responses'[i] <= executed'
        <4> SUFFICES ASSUME NEW i \in 1..Len(responses')
                     PROVE  responses'[i] <= executed
          BY <1>1
        <4>1. CASE i \in 1..Len(responses)
          BY <2>2, <4>1 DEF IInv, InOrder
        <4>2. CASE i = last
          BY <2>2, <2>5, <4>2
        <4> QED
          BY <2>2, <4>1, <4>2
      <3> QED
        BY <1>5, <1>6, <3>1, <3>2, <3>3 DEF InOrder
    <2>8. TakenFirst'
      <3>1. \A m \in Replied', i \in 1..Len(responses') : results'[m] < responses'[i]
        <4> SUFFICES ASSUME NEW m \in Replied, NEW i \in 1..Len(responses')
                     PROVE  results[m] < responses'[i]
          BY <1>1, <1>3
        <4>1. CASE i \in 1..Len(responses)
          BY <2>2, <4>1 DEF IInv, TakenFirst
        <4>2. CASE i = last
          BY <2>2, <2>5, <4>2
        <4> QED
          BY <2>2, <4>1, <4>2
      <3> QED
        BY <1>6, <1>8, <3>1 DEF TakenFirst
    <2>9. Undisturbed'
      <3> SUFFICES ASSUME NoneGivenUp
                   PROVE  \A i \in 1..Len(responses') : results'[responses'[i]] = Pending
        BY <1>3, <1>6, <1>8 DEF Undisturbed
      <3> SUFFICES ASSUME NEW i \in 1..Len(responses')
                   PROVE  results[responses'[i]] = Pending
        BY <1>1
      <3>1. CASE i \in 1..Len(responses)
        BY <2>2, <3>1 DEF IInv, Undisturbed
      <3>2. CASE i = last
        BY <1>2, <2>2, <2>3, <3>2, SMTT(30) DEF IInv, Undisturbed
      <3> QED
        BY <2>2, <3>1, <3>2
    <2> QED
      BY <1>7, <2>4, <2>7, <2>8, <2>9 DEF IInv
  <1> QED
    BY <1>9, <1>10

-----------------------------------------------------------------------------
(* The inductive invariant.                                                *)
LEMMA InitHolds ==
  ASSUME Init
  PROVE  IInv
  <1>1. /\ serLock = None /\ modeLock = None /\ mode = "idle" /\ running = FALSE
        /\ plan = [c \in Callers |-> <<>>] /\ waiting = [c \in Callers |-> None]
        /\ sent = <<>> /\ executed = 0 /\ fwBusy = FALSE /\ out = <<>>
        /\ responses = <<>> /\ held = FALSE /\ results = <<>> /\ calls = 0
    BY DEF Init
  <1>2. Len(sent) = 0 /\ Len(out) = 0 /\ Len(responses) = 0 /\ Len(results) = 0 /\ None \notin Callers
    BY <1>1, SerialLinkAssumption
  <1>3. Numbers = {} /\ Replies = {} /\ Replied = {}
    BY <1>2 DEF Numbers, Replies, Replied
  <1>4. Types
    <2>1. \A S : <<>> \in Seq(S)
      OBVIOUS
    <2>2. sent \in Seq(Verbs) /\ out \in Seq(Numbers \cup {Frame}) /\ responses \in Seq(Numbers)
          /\ results \in Seq(Nat \cup {None}) /\ plan \in [Callers -> Seq(Items)]
      BY <1>1, <2>1
    <2>3. executed \in 0..Len(sent) /\ calls \in 0..MaxCalls /\ Len(results) = Len(sent)
      BY <1>1, <1>2, SerialLinkAssumption
    <2> QED
      BY <1>1, <2>2, <2>3 DEF Types
  <1>5. OneWaits
    BY <1>1, <1>2, <1>3 DEF OneWaits
  <1>6. InOrder /\ TakenFirst /\ Undisturbed
    BY <1>2, <1>3 DEF InOrder, TakenFirst, Undisturbed, OwnReply
  <1> QED
    BY <1>4, <1>5, <1>6 DEF IInv

(* Every step keeps the invariant.                                         *)
LEMMA NextKeeps ==
  ASSUME IInv, [Next]_vars
  PROVE  IInv'
  <1>1. CASE UNCHANGED vars
    <2>1. UNCHANGED <<serLock, modeLock, mode, running, plan, waiting, calls, sent, executed, fwBusy, out, responses, held, results>>
      BY <1>1 DEF vars, locks, server, callers, firmware
    <2>2. Types'
      BY <2>1 DEF IInv, Types, Numbers
    <2> QED
      BY <2>1, <2>2, Aside DEF IInv
  <1>2. ASSUME NEW c \in Callers, NEW call \in Calls, BeginCall(c, call) PROVE IInv'
    BY <1>2, BeginCallKeeps
  <1>3. ASSUME NEW c \in Callers, Caller(c) PROVE IInv'
    BY <1>3, SectionKeeps, SendKeeps, RespondKeeps, GiveUpKeeps DEF Caller
  <1> QED
    BY <1>1, <1>2, <1>3, ExecuteKeeps, EmitFrameKeeps, ReadLineKeeps, RecordFrameKeeps DEF Next

(* Over one serial line and one lock, the replies stay in the order of     *)
(* their commands whatever is given up in between.                         *)
THEOREM Invariance == Spec => []IInv
  <1>1. Init => IInv
    BY InitHolds
  <1>2. IInv /\ [Next]_vars => IInv'
    BY NextKeeps
  <1> QED
    BY <1>1, <1>2, PTL DEF Spec

(* The state of the driver, its callers and the firmware is well typed.    *)
THEOREM TypeCorrect == Spec => []TypeOK
  <1>1. IInv => TypeOK
    BY DEF IInv, Types, TypeOK, Items
  <1> QED
    BY <1>1, Invariance, PTL

(* GPIODriver._send: a reply that is not the caller's own is that of an    *)
(* older command, no reply is taken twice, and as long as no command was   *)
(* given up every caller gets its own.                                     *)
THEOREM StrayRepliesLate == Spec => []StrayRepliesAreLate
  <1>1. IInv => StrayRepliesAreLate
    <2> SUFFICES ASSUME IInv PROVE StrayRepliesAreLate
      OBVIOUS
    <2>1. \A n \in Replied : results[n] # n => results[n] < n
      BY DEF IInv, TakenFirst, Types, Replied, Numbers
    <2>2. \A n, m \in Replied : n # m => results[n] # results[m]
      BY DEF IInv, TakenFirst
    <2>3. (\A n \in Numbers : results[n] # None) => OwnReply
      BY DEF IInv, Undisturbed, NoneGivenUp
    <2> QED
      BY <2>1, <2>2, <2>3 DEF StrayRepliesAreLate
  <1> QED
    BY <1>1, Invariance, PTL

-----------------------------------------------------------------------------
(* The sensor stream.                                                      *)

Reasons == {"edge", "watchdog", "timer", "profile"}

Accesses ==
  [do : {"init", "clear", "arm", "disarm", "sweep", "unflag"} \cup Reasons,
   chip : mChips \cup {Stream!Order[1]}]

StreamTypes ==
  /\ mPresent = mBus /\ mBus \subseteq mChips /\ mNewer \subseteq mBus
  /\ mReady \in BOOLEAN /\ mArmed \in BOOLEAN
  /\ mTodo \in Seq(Accesses)
  /\ mRow \in [why : Reasons \cup {"none"}, fresh : BOOLEAN]

Ahead == 1..Len(mTodo)

(* An edge that was latched is that of a conversion no sweep has read yet,  *)
(* or will be dropped behind the sweep under way.                           *)
EdgeIsNew ==
  mReady => mArmed /\ (mNewer # {} \/ \E i \in Ahead : mTodo[i].do = "unflag")

SweepsUnflag ==
  \A i \in Ahead : mTodo[i].do = "sweep" =>
    /\ mArmed => \E j \in Ahead : i < j /\ mTodo[j].do = "unflag"
    /\ \A j \in Ahead : mTodo[j].do \notin {"arm", "disarm"}

(* The row that an edge is to release holds a new conversion, or will read  *)
(* one before it is written.                                                *)
EdgeComes ==
  \A j \in Ahead : mTodo[j].do = "edge" =>
    \/ mRow.fresh
    \/ \E i \in Ahead : i < j /\ mTodo[i].do = "sweep" /\ mTodo[i].chip \in mNewer

(* A row that an edge released is the last one until the next is written.   *)
EdgeCame ==
  mRow.why = "edge" => mRow.fresh \/ \E i \in Ahead : mTodo[i].do \in Reasons

FreshInv == StreamTypes /\ EdgeIsNew /\ SweepsUnflag /\ EdgeComes /\ EdgeCame

(* A finite set is listed by its elements, each once.                      *)
LEMMA Listed ==
  ASSUME NEW S, IsFiniteSet(S)
  PROVE  /\ Cardinality(S) \in Nat
         /\ Stream!SetToSeq(S) \in [1..Cardinality(S) -> S]
         /\ \A e \in S : \E i \in 1..Cardinality(S) : Stream!SetToSeq(S)[i] = e
  <1> DEFINE n == Cardinality(S)
             f == Stream!SetToSeq(S)
  <1>1. n \in Nat /\ ExistsBijection(1..n, S)
    BY FS_CardinalityType
  <1>2. PICK g \in Bijection(1..n, S) : TRUE
    BY <1>1 DEF ExistsBijection
  <1>3. g \in [1..n -> S] /\ Stream!IsInjective(g)
    BY <1>2 DEF Bijection, Injection, IsInjective, Stream!IsInjective
  <1>0. Stream!Cardinality(S) = n /\ Stream!IsFiniteSet(S) = IsFiniteSet(S)
    BY DEF Stream!Cardinality, Cardinality, Stream!IsFiniteSet, IsFiniteSet
  <1>4. f \in [1..n -> S] /\ Stream!IsInjective(f)
    BY <1>0, <1>3 DEF Stream!SetToSeq
  <1>5. f \in Injection(1..n, S)
    BY <1>4 DEF Injection, IsInjective, Stream!IsInjective
  <1>6. Cardinality(1..n) = n
    BY <1>1, FS_Interval
  <1>7. f \in Surjection(1..n, S)
    BY <1>5, <1>6, FS_Injection
  <1> QED
    BY <1>1, <1>4, <1>7 DEF Surjection

-----------------------------------------------------------------------------
(* The chips and the accesses that are made to them.                       *)
LEMMA SomeChips ==
  ASSUME NEW set, set \subseteq mChips
  PROVE  IsFiniteSet(set)
  <1>1. IsFiniteSet(mChips)
    BY ServiceAssumption DEF Stream!MicroStreamAssumption, Stream!IsFiniteSet, IsFiniteSet
  <1> QED
    BY <1>1, FS_Subset

(* Where the elements of two sequences end up when they are joined.        *)
LEMMA Joined ==
  ASSUME NEW S, NEW s \in Seq(S), NEW t \in Seq(S)
  PROVE  /\ s \o t \in Seq(S) /\ Len(s) \in Nat /\ Len(t) \in Nat
         /\ Len(s \o t) = Len(s) + Len(t)
         /\ \A i \in 1..Len(s) : (s \o t)[i] = s[i]
         /\ \A i \in 1..Len(t) : (s \o t)[Len(s) + i] = t[i]
         /\ \A i \in 1..Len(s \o t) : i > Len(s) =>
              i - Len(s) \in 1..Len(t) /\ (s \o t)[i] = t[i - Len(s)]
  <1>1. /\ s \o t \in Seq(S) /\ Len(s) \in Nat /\ Len(t) \in Nat
        /\ Len(s \o t) = Len(s) + Len(t)
    BY ConcatProperties
  <1>2. \A i \in 1..Len(s) + Len(t) :
          (s \o t)[i] = IF i <= Len(s) THEN s[i] ELSE t[i - Len(s)]
    BY ConcatProperties
  <1>3. \A i \in 1..Len(s) : (s \o t)[i] = s[i]
    BY <1>1, <1>2
  <1>4. \A i \in 1..Len(s \o t) : i > Len(s) =>
          i - Len(s) \in 1..Len(t) /\ (s \o t)[i] = t[i - Len(s)]
    BY <1>1, <1>2
  <1>5. \A i \in 1..Len(t) : (s \o t)[Len(s) + i] = t[i]
    <2> SUFFICES ASSUME NEW i \in 1..Len(t) PROVE (s \o t)[Len(s) + i] = t[i]
      OBVIOUS
    <2>1. Len(s) + i \in 1..Len(s \o t) /\ Len(s) + i > Len(s) /\ (Len(s) + i) - Len(s) = i
      BY <1>1
    <2> QED
      BY <1>4, <2>1
  <1> QED
    BY <1>1, <1>3, <1>4, <1>5

(* What holds of the elements of both holds of the elements of the two     *)
(* joined.                                                                 *)
LEMMA AllJoined ==
  ASSUME NEW dos, NEW s \in Seq(Accesses), NEW t \in Seq(Accesses),
         \A i \in 1..Len(s) : s[i].do \in dos,
         \A i \in 1..Len(t) : t[i].do \in dos
  PROVE  s \o t \in Seq(Accesses) /\ \A i \in 1..Len(s \o t) : (s \o t)[i].do \in dos
  <1> SUFFICES ASSUME NEW i \in 1..Len(s \o t) PROVE (s \o t)[i].do \in dos
    BY Joined
  <1>1. CASE i <= Len(s)
    <2>1. i \in 1..Len(s)
      BY <1>1, Joined
    <2> QED
      BY <2>1, Joined
  <1>2. CASE i > Len(s)
    BY <1>2, Joined
  <1> QED
    BY <1>1, <1>2, Joined

(* Over: one access to each chip of a set.                                 *)
LEMMA OverEach ==
  ASSUME NEW set, set \subseteq mChips,
         NEW op \in {"init", "clear", "sweep"}
  PROVE  LET t == Stream!Over(op, set)
         IN  /\ t \in Seq(Accesses) /\ Len(t) \in Nat
             /\ \A i \in 1..Len(t) : t[i].do = op /\ t[i].chip \in set
             /\ \A e \in set : \E i \in 1..Len(t) : t[i].chip = e
  <1> DEFINE n == Cardinality(set)
             f == Stream!SetToSeq(set)
             t == Stream!Over(op, set)
  <1>1. /\ n \in Nat /\ f \in [1..n -> set]
        /\ \A e \in set : \E i \in 1..n : f[i] = e
    BY SomeChips, Listed
  <1>2. Stream!Cardinality(set) = n
    BY DEF Stream!Cardinality, Cardinality
  <1>3. t = [i \in 1..n |-> [do |-> op, chip |-> f[i]]]
    BY <1>2 DEF Stream!Over
  <1>4. \A i \in 1..n : [do |-> op, chip |-> f[i]] \in Accesses
    BY <1>1 DEF Accesses
  <1> HIDE DEF n, f
  <1>5. t \in [1..n -> Accesses]
    BY <1>3, <1>4
  <1>6. t \in Seq(Accesses) /\ Len(t) = n
    BY <1>1, <1>5, IsASeq
  <1>7. \A i \in 1..n : t[i].do = op /\ t[i].chip = f[i]
    BY <1>3
  <1> QED
    BY <1>1, <1>6, <1>7

(* Only: an access that names no chip.                                     *)
LEMMA OnlyOne ==
  ASSUME NEW op \in {"arm", "disarm", "unflag"} \cup Reasons
  PROVE  LET t == Stream!Only(op)
         IN  t \in Seq(Accesses) /\ Len(t) = 1 /\ t[1].do = op
  <1>1. [do |-> op, chip |-> Stream!Order[1]] \in Accesses
    BY DEF Accesses
  <1> QED
    BY <1>1 DEF Stream!Only

(* What a row is made of: every chip is swept, the row is written, and     *)
(* with the handshake on the flag is dropped before the chips are cleared. *)
IsRow(t, why) ==
  \E n \in Nat :
    /\ t \in Seq(Accesses) /\ n + 1 <= Len(t)
    /\ \A i \in 1..n : t[i].do = "sweep"
    /\ \A e \in mPresent : \E i \in 1..n : t[i].chip = e
    /\ t[n + 1].do = why
    /\ \A i \in 1..Len(t) : i > n + 1 => t[i].do \in {"unflag", "clear"}
    /\ mArmed => n + 2 <= Len(t) /\ t[n + 2].do = "unflag"

LEMMA EmitIsRow ==
  ASSUME mPresent \subseteq mChips, NEW why \in Reasons
  PROVE  IsRow(Stream!EmitSteps(why), why)
  <1> DEFINE a == Stream!Over("sweep", mPresent)
             b == Stream!Only(why)
             u == Stream!Only("unflag")
             k == Stream!Over("clear", mPresent)
             q == IF mArmed THEN u \o k ELSE <<>>
             p == a \o b
             t == p \o q
             n == Len(a)
  <1>1. /\ a \in Seq(Accesses) /\ n \in Nat
        /\ \A i \in 1..n : a[i].do = "sweep"
        /\ \A e \in mPresent : \E i \in 1..n : a[i].chip = e
    BY OverEach, ZenonT(60)
  <1>2. b \in Seq(Accesses) /\ Len(b) = 1 /\ b[1].do = why
    BY OnlyOne
  <1>3. u \in Seq(Accesses) /\ Len(u) = 1 /\ u[1].do = "unflag"
    BY OnlyOne
  <1>4. k \in Seq(Accesses) /\ Len(k) \in Nat /\ \A i \in 1..Len(k) : k[i].do = "clear"
    BY OverEach
  <1>5. Stream!EmitSteps(why) = t
    BY DEF Stream!EmitSteps
  <1> HIDE DEF a, b, u, k
  <1>6. q \in Seq(Accesses) /\ \A i \in 1..Len(q) : q[i].do \in {"unflag", "clear"}
    <2>1. \A i \in 1..Len(u) : u[i].do \in {"unflag", "clear"}
      BY <1>3
    <2>2. \A i \in 1..Len(k) : k[i].do \in {"unflag", "clear"}
      BY <1>4
    <2>3. u \o k \in Seq(Accesses) /\ \A i \in 1..Len(u \o k) : (u \o k)[i].do \in {"unflag", "clear"}
      BY <1>3, <1>4, <2>1, <2>2, AllJoined
    <2> QED
      BY <2>3
  <1>7. mArmed => 1 \in 1..Len(q) /\ q[1].do = "unflag"
    <2> SUFFICES ASSUME mArmed PROVE 1 \in 1..Len(u \o k) /\ (u \o k)[1].do = "unflag"
      OBVIOUS
    <2>1. 1 \in 1..Len(u)
      BY <1>3
    <2>2. /\ \A i \in 1..Len(u) : (u \o k)[i] = u[i]
          /\ Len(u \o k) = Len(u) + Len(k)
      <3>1. u \in Seq(Accesses) /\ k \in Seq(Accesses)
        BY <1>3, <1>4
      <3> HIDE DEF q
      <3> QED
        BY <3>1, Joined
    <2> QED
      BY <1>3, <1>4, <2>1, <2>2
  <1> HIDE DEF q
  <1>8. /\ p \in Seq(Accesses) /\ Len(p) = n + 1
        /\ \A i \in 1..n : p[i] = a[i]
        /\ p[n + 1] = b[1]
    <2>1. a \in Seq(Accesses) /\ b \in Seq(Accesses)
      BY <1>1, <1>2
    <2>2. /\ p \in Seq(Accesses) /\ Len(p) = n + Len(b)
          /\ \A i \in 1..n : p[i] = a[i]
          /\ \A i \in 1..Len(b) : p[n + i] = b[i]
      BY <2>1, Joined
    <2>3. 1 \in 1..Len(b)
      BY <1>2
    <2> QED
      BY <1>2, <2>2, <2>3
  <1> HIDE DEF p, n
  <1>9. /\ t \in Seq(Accesses) /\ Len(t) = n + 1 + Len(q) /\ Len(q) \in Nat
        /\ \A i \in 1..n + 1 : t[i] = p[i]
        /\ \A i \in 1..Len(q) : t[n + 1 + i] = q[i]
        /\ \A i \in 1..Len(t) : i > n + 1 => i - (n + 1) \in 1..Len(q) /\ t[i] = q[i - (n + 1)]
    <2>1. p \in Seq(Accesses) /\ q \in Seq(Accesses)
      BY <1>6, <1>8
    <2>2. /\ t \in Seq(Accesses) /\ Len(t) = Len(p) + Len(q) /\ Len(q) \in Nat
          /\ \A i \in 1..Len(p) : t[i] = p[i]
          /\ \A i \in 1..Len(q) : t[Len(p) + i] = q[i]
          /\ \A i \in 1..Len(t) : i > Len(p) => i - Len(p) \in 1..Len(q) /\ t[i] = q[i - Len(p)]
      BY <2>1, Joined
    <2> QED
      BY <1>8, <2>2
  <1> HIDE DEF t
  <1>10. /\ \A i \in 1..n : t[i].do = "sweep" /\ t[i].chip = a[i].chip
         /\ t[n + 1].do = why
    BY <1>1, <1>2, <1>8, <1>9
  <1>11. \A i \in 1..Len(t) : i > n + 1 => t[i].do \in {"unflag", "clear"}
    BY <1>6, <1>9
  <1>12. mArmed => n + 2 <= Len(t) /\ t[n + 2].do = "unflag"
    <2> SUFFICES ASSUME mArmed PROVE n + 2 <= Len(t) /\ t[n + 2].do = "unflag"
      OBVIOUS
    <2>1. t[n + 1 + 1] = q[1] /\ 1 <= Len(q) /\ n + 1 + 1 = n + 2
      BY <1>1, <1>7, <1>9
    <2> QED
      BY <1>1, <1>7, <1>9, <2>1
  <1>13. \A e \in mPresent : \E i \in 1..n : t[i].chip = e
    BY <1>1, <1>10
  <1>14. n \in Nat /\ n + 1 <= Len(t) /\ t \in Seq(Accesses)
    BY <1>1, <1>9
  <1>15. IsRow(t, why)
    BY <1>10, <1>11, <1>12, <1>13, <1>14 DEF IsRow
  <1> QED
    BY <1>5, <1>15

(* Programming the chips makes no row.                                     *)
Setup == {"init", "clear", "arm", "disarm"}

LEMMA ApplyIsSetup ==
  ASSUME NEW on, NEW set, set \subseteq mChips
  PROVE  LET t == Stream!ApplySteps(on, set)
         IN  t \in Seq(Accesses) /\ \A i \in 1..Len(t) : t[i].do \in Setup
  <1> DEFINE a == Stream!Over("init", set)
             k == Stream!Over("clear", set)
             m == Stream!Only("arm")
             d == Stream!Only("disarm")
             s == Stream!ArmSteps(on, set)
  <1>1. a \in Seq(Accesses) /\ Len(a) \in Nat /\ \A i \in 1..Len(a) : a[i].do = "init"
    BY OverEach
  <1>2. k \in Seq(Accesses) /\ Len(k) \in Nat /\ \A i \in 1..Len(k) : k[i].do = "clear"
    BY OverEach
  <1>3. m \in Seq(Accesses) /\ Len(m) = 1 /\ m[1].do = "arm"
    BY OnlyOne
  <1>4. d \in Seq(Accesses) /\ Len(d) = 1 /\ d[1].do = "disarm"
    BY OnlyOne
  <1>5. s = (k \o m) \/ s = d
    BY DEF Stream!ArmSteps
  <1>6. Stream!ApplySteps(on, set) = a \o s
    BY DEF Stream!ApplySteps
  <1> HIDE DEF a, k, m, d, s
  <1>7. k \o m \in Seq(Accesses) /\ \A i \in 1..Len(k \o m) : (k \o m)[i].do \in Setup
    <2>1. (\A i \in 1..Len(k) : k[i].do \in Setup) /\ (\A i \in 1..Len(m) : m[i].do \in Setup)
      BY <1>2, <1>3 DEF Setup
    <2> QED
      BY <1>2, <1>3, <2>1, AllJoined
  <1>8. s \in Seq(Accesses) /\ \A i \in 1..Len(s) : s[i].do \in Setup
    <2>1. \A i \in 1..Len(d) : d[i].do \in Setup
      BY <1>4 DEF Setup
    <2> QED
      BY <1>4, <1>5, <1>7, <2>1
  <1>9. a \o s \in Seq(Accesses) /\ \A i \in 1..Len(a \o s) : (a \o s)[i].do \in Setup
    <2>1. \A i \in 1..Len(a) : a[i].do \in Setup
      BY <1>1 DEF Setup
    <2> QED
      BY <1>1, <1>8, <2>1, AllJoined
  <1> QED
    BY <1>6, <1>9

-----------------------------------------------------------------------------
(* Commands, time and the burst leave what a row is made of alone.         *)
LEMMA StreamAside ==
  ASSUME FreshInv, UNCHANGED <<mPresent, mBus, mNewer, mReady, mArmed, mTodo, mRow>>
  PROVE  FreshInv'
  <1>1. Ahead' = Ahead
    BY DEF Ahead
  <1> QED
    BY <1>1 DEF FreshInv, StreamTypes, EdgeIsNew, SweepsUnflag, EdgeComes, EdgeCame

(* A conversion that raises an edge is one no sweep has read.              *)
LEMMA ConvertKeeps ==
  ASSUME FreshInv, NEW c \in mChips, Stream!Convert(c)
  PROVE  FreshInv'
  <1>1. /\ UNCHANGED <<mPresent, mBus, mArmed, mTodo, mRow>>
        /\ c \in mBus /\ mNewer' = mNewer \cup {c}
        /\ mReady' \in BOOLEAN /\ (mReady' => mReady \/ mArmed)
    <2>1. mReady' = (mReady \/ (mWired /\ mArmed /\ c \in mCnvr /\ ~Stream!LineLow))
          /\ mReady \in BOOLEAN
      BY DEF Stream!Convert, FreshInv, StreamTypes
    <2>2. mReady' \in BOOLEAN /\ (mReady' => mReady \/ mArmed)
      BY <2>1, Zenon
    <2> QED
      BY <2>2 DEF Stream!Convert, Stream!loop
  <1>2. Ahead' = Ahead
    BY <1>1 DEF Ahead
  <1>3. StreamTypes'
    BY <1>1 DEF FreshInv, StreamTypes
  <1>4. EdgeIsNew'
    BY <1>1 DEF FreshInv, EdgeIsNew
  <1>5. SweepsUnflag' /\ EdgeCame'
    BY <1>1, <1>2 DEF FreshInv, SweepsUnflag, EdgeCame
  <1>6. EdgeComes'
    BY <1>1, <1>2 DEF FreshInv, EdgeComes
  <1> QED
    BY <1>3, <1>4, <1>5, <1>6 DEF FreshInv

(* A command that programs the chips finds no row under way.               *)
LEMMA SetupKeeps ==
  ASSUME FreshInv, mTodo = <<>>, UNCHANGED <<mBus, mNewer, mReady, mArmed, mRow>>,
         mPresent' = mPresent, mTodo' \in Seq(Accesses),
         \A i \in 1..Len(mTodo') : mTodo'[i].do \in Setup
  PROVE  FreshInv'
  <1>1. Ahead = {} /\ Ahead' = 1..Len(mTodo')
    BY DEF Ahead
  <1>2. StreamTypes'
    BY DEF FreshInv, StreamTypes
  <1>3. EdgeIsNew'
    BY <1>1 DEF FreshInv, EdgeIsNew
  <1>4. \A i \in Ahead' : mTodo'[i].do \notin {"sweep", "edge"}
    BY <1>1 DEF Setup
  <1>5. SweepsUnflag' /\ EdgeComes'
    BY <1>4 DEF SweepsUnflag, EdgeComes
  <1>6. EdgeCame'
    BY <1>1 DEF FreshInv, EdgeCame
  <1> QED
    BY <1>2, <1>3, <1>5, <1>6 DEF FreshInv

(* A row that is begun after an edge is to sweep the conversion behind it. *)
LEMMA RowKeeps ==
  ASSUME FreshInv, mTodo = <<>>, UNCHANGED <<mPresent, mBus, mNewer, mReady, mArmed>>,
         NEW why \in Reasons, why = "edge" => mReady,
         mTodo' = Stream!EmitSteps(why), mRow' = [mRow EXCEPT !.fresh = FALSE]
  PROVE  FreshInv'
  <1>1. Ahead = {} /\ Ahead' = 1..Len(mTodo')
    BY DEF Ahead
  <1>2. IsRow(mTodo', why)
    BY EmitIsRow DEF FreshInv, StreamTypes
  <1>3. PICK n \in Nat :
          /\ mTodo' \in Seq(Accesses) /\ n + 1 <= Len(mTodo')
          /\ \A i \in 1..n : mTodo'[i].do = "sweep"
          /\ \A e \in mPresent : \E i \in 1..n : mTodo'[i].chip = e
          /\ mTodo'[n + 1].do = why
          /\ \A i \in 1..Len(mTodo') : i > n + 1 => mTodo'[i].do \in {"unflag", "clear"}
          /\ mArmed => n + 2 <= Len(mTodo') /\ mTodo'[n + 2].do = "unflag"
    BY <1>2 DEF IsRow
  <1>4. Len(mTodo') \in Nat /\ n + 1 \in Ahead' /\ \A i \in 1..n : i \in Ahead'
    BY <1>1, <1>3
  <1>5. \A i \in Ahead' :
          \/ i \in 1..n /\ mTodo'[i].do = "sweep"
          \/ i = n + 1 /\ mTodo'[i].do = why
          \/ i > n + 1 /\ mTodo'[i].do \in {"unflag", "clear"}
    BY <1>1, <1>3, <1>4
  <1>6. StreamTypes'
    BY <1>3 DEF FreshInv, StreamTypes
  <1>7. EdgeIsNew'
    BY <1>1 DEF FreshInv, EdgeIsNew
  <1>8. why \notin {"sweep", "arm", "disarm"}
    BY DEF Reasons
  <1>9. SweepsUnflag'
    <2>1. \A j \in Ahead' : mTodo'[j].do \notin {"arm", "disarm"}
      BY <1>5, <1>8
    <2>2. ASSUME NEW i \in Ahead', mTodo'[i].do = "sweep", mArmed
          PROVE  \E j \in Ahead' : i < j /\ mTodo'[j].do = "unflag"
      <3>1. i \in 1..n
        BY <1>5, <1>8, <2>2
      <3>2. n + 2 \in Ahead' /\ i < n + 2 /\ mTodo'[n + 2].do = "unflag"
        BY <1>1, <1>3, <1>4, <2>2, <3>1
      <3> QED
        BY <3>2
    <2> QED
      BY <2>1, <2>2 DEF SweepsUnflag
  <1>10. EdgeComes'
    <2> SUFFICES ASSUME NEW j \in Ahead', mTodo'[j].do = "edge"
                 PROVE  \E i \in Ahead' : i < j /\ mTodo'[i].do = "sweep" /\ mTodo'[i].chip \in mNewer'
      BY DEF EdgeComes
    <2>1. j = n + 1 /\ why = "edge"
      BY <1>5
    <2>2. PICK e \in mNewer : TRUE
      BY <1>1, <2>1 DEF FreshInv, EdgeIsNew
    <2>3. e \in mPresent
      BY <2>2 DEF FreshInv, StreamTypes
    <2>4. PICK i \in 1..n : mTodo'[i].chip = e
      BY <1>3, <2>3
    <2> QED
      BY <1>3, <1>4, <2>1, <2>2, <2>4
  <1>11. EdgeCame'
    BY <1>3, <1>4 DEF EdgeCame
  <1> QED
    BY <1>6, <1>7, <1>9, <1>10, <1>11 DEF FreshInv

(* What is still to be done after an access stands one place further on.   *)
LEMMA AccessTaken ==
  ASSUME FreshInv, Stream!Access
  PROVE  /\ UNCHANGED <<mBus, mPresent>>
         /\ mTodo' \in Seq(Accesses) /\ mTodo[1] \in Accesses
         /\ \A i \in Ahead' : i \in Nat /\ i + 1 \in Ahead /\ mTodo'[i] = mTodo[i + 1]
         /\ \A i \in Ahead : i \in Nat /\ (i = 1 \/ (i > 1 /\ i - 1 \in Ahead' /\ mTodo'[i - 1] = mTodo[i]))
         /\ 1 \in Ahead /\ mTodo # <<>> /\ Head(mTodo) = mTodo[1]
  <1>1. mTodo # <<>> /\ mTodo' = Tail(mTodo) /\ UNCHANGED <<mBus, mPresent>>
    BY DEF Stream!Access
  <1>2. mTodo \in Seq(Accesses)
    BY DEF FreshInv, StreamTypes
  <1>3. /\ Head(mTodo) \in Accesses /\ Head(mTodo) = mTodo[1] /\ mTodo' \in Seq(Accesses)
        /\ Len(mTodo) \in Nat /\ Len(mTodo) >= 1 /\ Len(mTodo') = Len(mTodo) - 1
        /\ \A i \in 1..Len(mTodo') : mTodo'[i] = mTodo[i + 1]
    BY <1>1, <1>2, Taken
  <1>4. \A i \in Ahead' : i \in Nat /\ i + 1 \in Ahead /\ mTodo'[i] = mTodo[i + 1]
    BY <1>3 DEF Ahead
  <1>5. \A i \in Ahead : i \in Nat /\ (i = 1 \/ (i > 1 /\ i - 1 \in Ahead' /\ mTodo'[i - 1] = mTodo[i]))
    <2> SUFFICES ASSUME NEW i \in Ahead, i # 1
                 PROVE  i > 1 /\ i - 1 \in Ahead' /\ mTodo'[i - 1] = mTodo[i]
      BY <1>3 DEF Ahead
    <2>1. i \in Nat /\ i > 1 /\ i - 1 \in 1..Len(mTodo') /\ (i - 1) + 1 = i
      BY <1>3 DEF Ahead
    <2> QED
      BY <1>3, <2>1 DEF Ahead
  <1> QED
    BY <1>1, <1>3, <1>4, <1>5 DEF Ahead

(* An access: the line is swept before it is written, and the flag dropped *)
(* after.                                                                  *)
LEMMA AccessKeeps ==
  ASSUME FreshInv, Stream!Access
  PROVE  FreshInv'
  <1> DEFINE s == mTodo[1]
             new == mRow.fresh \/ s.chip \in mNewer
  <1>1. /\ UNCHANGED <<mBus, mPresent>>
        /\ mTodo' \in Seq(Accesses) /\ s \in Accesses
        /\ \A i \in Ahead' : i \in Nat /\ i + 1 \in Ahead /\ mTodo'[i] = mTodo[i + 1]
        /\ \A i \in Ahead : i \in Nat /\ (i = 1 \/ (i > 1 /\ i - 1 \in Ahead' /\ mTodo'[i - 1] = mTodo[i]))
        /\ 1 \in Ahead /\ mTodo # <<>> /\ Head(mTodo) = s
    BY AccessTaken
  <1>2. /\ mNewer' = IF s.do = "sweep" THEN mNewer \ {s.chip} ELSE mNewer
        /\ mReady' = IF s.do \in {"unflag", "arm", "disarm"} THEN FALSE ELSE mReady
        /\ mArmed' = CASE s.do = "arm" -> TRUE [] s.do = "disarm" -> FALSE [] OTHER -> mArmed
        /\ mRow' = CASE s.do = "sweep" -> [mRow EXCEPT !.fresh = new]
                     [] s.do \in Reasons -> [mRow EXCEPT !.why = s.do]
                     [] OTHER -> mRow
    BY <1>1 DEF Stream!Access, Reasons
  <1>3. /\ s.do \in {"init", "clear", "arm", "disarm", "sweep", "unflag"} \cup Reasons
        /\ mReady \in BOOLEAN /\ mArmed \in BOOLEAN /\ mRow.fresh \in BOOLEAN
        /\ mRow \in [why : Reasons \cup {"none"}, fresh : BOOLEAN] /\ new \in BOOLEAN
    BY <1>1 DEF Accesses, FreshInv, StreamTypes
  <1> HIDE DEF s, new
  <1>4. StreamTypes'
    <2>1. mRow' \in [why : Reasons \cup {"none"}, fresh : BOOLEAN]
      <3>1. CASE s.do = "sweep"
        BY <1>2, <1>3, <3>1 DEF Reasons
      <3>2. CASE s.do \in Reasons
        BY <1>2, <1>3, <3>2 DEF Reasons
      <3>3. CASE s.do \notin Reasons \cup {"sweep"}
        BY <1>2, <1>3, <3>3
      <3> QED
        BY <3>1, <3>2, <3>3
    <2>2. mReady' \in BOOLEAN /\ mArmed' \in BOOLEAN /\ mNewer' \subseteq mNewer
      BY <1>2, <1>3
    <2> QED
      BY <1>1, <2>1, <2>2 DEF FreshInv, StreamTypes
  <1>5. ASSUME NEW i \in Ahead, NEW j \in Ahead, i < j
        PROVE  j - 1 \in Ahead' /\ mTodo'[j - 1] = mTodo[j]
    BY <1>1, <1>5
  <1>6. SweepsUnflag'
    <2> SUFFICES ASSUME NEW i \in Ahead', mTodo'[i].do = "sweep"
                 PROVE  /\ mArmed' => \E j \in Ahead' : i < j /\ mTodo'[j].do = "unflag"
                        /\ \A j \in Ahead' : mTodo'[j].do \notin {"arm", "disarm"}
      BY DEF SweepsUnflag
    <2>1. i \in Nat /\ i + 1 \in Ahead /\ mTodo[i + 1].do = "sweep"
      BY <1>1
    <2>2. /\ mArmed => \E j \in Ahead : i + 1 < j /\ mTodo[j].do = "unflag"
          /\ \A j \in Ahead : mTodo[j].do \notin {"arm", "disarm"}
      BY <2>1 DEF FreshInv, SweepsUnflag
    <2>3. mArmed' = mArmed
      BY <1>1, <1>2, <2>2 DEF s
    <2>4. \A j \in Ahead' : mTodo'[j].do \notin {"arm", "disarm"}
      BY <1>1, <2>2
    <2>5. ASSUME mArmed
          PROVE  \E j \in Ahead' : i < j /\ mTodo'[j].do = "unflag"
      <3>1. PICK j \in Ahead : i + 1 < j /\ mTodo[j].do = "unflag"
        BY <2>2, <2>5
      <3>2. j \in Nat /\ i < j - 1 /\ j - 1 \in Ahead' /\ mTodo'[j - 1] = mTodo[j]
        BY <1>1, <1>5, <2>1, <3>1
      <3> QED
        BY <3>1, <3>2
    <2> QED
      BY <2>3, <2>4, <2>5
  <1>7. EdgeIsNew'
    <2> SUFFICES ASSUME mReady'
                 PROVE  mArmed' /\ (mNewer' # {} \/ \E i \in Ahead' : mTodo'[i].do = "unflag")
      BY DEF EdgeIsNew
    <2>1. mReady /\ s.do \notin {"unflag", "arm", "disarm"} /\ mArmed' = mArmed
      BY <1>2
    <2>2. mArmed /\ (mNewer # {} \/ \E i \in Ahead : mTodo[i].do = "unflag")
      BY <2>1 DEF FreshInv, EdgeIsNew
    <2>3. ASSUME NEW i \in Ahead, mTodo[i].do = "unflag"
          PROVE  \E k \in Ahead' : mTodo'[k].do = "unflag"
      <3>1. i # 1
        BY <2>1, <2>3 DEF s
      <3> QED
        BY <1>1, <2>3, <3>1
    <2>4. CASE s.do = "sweep"
      <3>1. \E i \in Ahead : mTodo[i].do = "unflag"
        BY <1>1, <2>2, <2>4 DEF s, FreshInv, SweepsUnflag
      <3> QED
        BY <2>1, <2>2, <2>3, <3>1
    <2>5. CASE s.do # "sweep"
      BY <1>2, <2>1, <2>2, <2>3, <2>5
    <2> QED
      BY <2>4, <2>5
  <1>8. /\ mRow.fresh => mRow'.fresh
        /\ \A i \in Ahead : mTodo[i].do = "sweep" /\ mTodo[i].chip \in mNewer =>
             \/ mRow'.fresh
             \/ i > 1 /\ i - 1 \in Ahead' /\ mTodo'[i - 1] = mTodo[i] /\ mTodo[i].chip \in mNewer'
    <2>1. CASE s.do = "sweep"
      <3>1. mRow'.fresh = new
        BY <1>2, <1>3, <2>1 DEF Reasons
      <3>2. mNewer' = mNewer \ {s.chip}
        BY <1>2, <2>1
      <3> QED
        BY <1>1, <3>1, <3>2 DEF s, new
    <2>2. CASE s.do # "sweep"
      <3>1. mRow'.fresh = mRow.fresh /\ mNewer' = mNewer
        BY <1>2, <1>3, <2>2
      <3> QED
        BY <1>1, <2>2, <3>1 DEF s
    <2> QED
      BY <2>1, <2>2
  <1>9. EdgeComes'
    <2> SUFFICES ASSUME NEW j \in Ahead', mTodo'[j].do = "edge", ~mRow'.fresh
                 PROVE  \E i \in Ahead' : i < j /\ mTodo'[i].do = "sweep" /\ mTodo'[i].chip \in mNewer'
      BY DEF EdgeComes
    <2>1. j \in Nat /\ j + 1 \in Ahead /\ mTodo[j + 1].do = "edge"
      BY <1>1
    <2>2. PICK i \in Ahead : i < j + 1 /\ mTodo[i].do = "sweep" /\ mTodo[i].chip \in mNewer
      BY <1>8, <2>1 DEF FreshInv, EdgeComes
    <2>3. i \in Nat /\ i > 1 /\ i - 1 \in Ahead' /\ mTodo'[i - 1] = mTodo[i] /\ mTodo[i].chip \in mNewer'
      BY <1>1, <1>8, <2>2
    <2> QED
      BY <2>1, <2>2, <2>3
  <1>10. EdgeCame'
    <2> SUFFICES ASSUME mRow'.why = "edge", ~mRow'.fresh
                 PROVE  \E i \in Ahead' : mTodo'[i].do \in Reasons
      BY DEF EdgeCame
    <2>1. ~mRow.fresh
      BY <1>8
    <2>2. s.do # "edge"
      <3> SUFFICES ASSUME s.do = "edge" PROVE FALSE
        OBVIOUS
      <3>1. PICK i \in Ahead : i < 1 /\ mTodo[i].do = "sweep"
        BY <1>1, <2>1 DEF s, FreshInv, EdgeComes
      <3> QED
        BY <1>1, <3>1
    <2>3. s.do \notin Reasons /\ mRow.why = "edge"
      BY <1>2, <1>3, <2>2 DEF Reasons
    <2>4. PICK i \in Ahead : mTodo[i].do \in Reasons
      BY <2>1, <2>3 DEF FreshInv, EdgeCame
    <2>5. i # 1
      BY <2>3, <2>4 DEF s
    <2> QED
      BY <1>1, <2>4, <2>5
  <1> QED
    BY <1>4, <1>6, <1>7, <1>9, <1>10 DEF FreshInv

-----------------------------------------------------------------------------
LEMMA StreamInitHolds ==
  ASSUME Stream!Init
  PROVE  FreshInv
  <1>1. /\ mBus \in SUBSET mChips /\ mPresent = mBus /\ mNewer = {}
        /\ mReady = FALSE /\ mArmed = FALSE /\ mTodo = <<>>
        /\ mRow = [why |-> "none", fresh |-> TRUE]
    BY DEF Stream!Init
  <1>2. Ahead = {}
    BY <1>1 DEF Ahead
  <1>3. StreamTypes
    <2>1. mTodo \in Seq(Accesses)
      BY <1>1
    <2> QED
      BY <1>1, <2>1 DEF StreamTypes
  <1> QED
    BY <1>1, <1>2, <1>3 DEF FreshInv, EdgeIsNew, SweepsUnflag, EdgeComes, EdgeCame

(* Every step of the stream keeps it.                                      *)
LEMMA StreamNextKeeps ==
  ASSUME FreshInv, [Stream!Next]_(Stream!vars)
  PROVE  FreshInv'
  <1>1. CASE UNCHANGED Stream!vars
    BY <1>1, StreamAside DEF Stream!vars, Stream!chipVars, Stream!cnvrVars, Stream!loop
  <1>2. CASE Stream!TimePasses
    BY <1>2, StreamAside DEF Stream!TimePasses, Stream!chipVars, Stream!cnvrVars, Stream!loop
  <1>3. CASE Stream!NoInput \/ Stream!Capture \/ Stream!NothingDue \/ Stream!CmdZ \/ Stream!CmdBD
    BY <1>3, StreamAside DEF Stream!NoInput, Stream!Capture, Stream!NothingDue, Stream!CmdZ,
       Stream!CmdBD, Stream!chipVars, Stream!cnvrVars
  <1>4. ASSUME NEW n, Stream!CmdT(n) \/ Stream!CmdV(n) \/ Stream!CmdB(n) \/ Stream!ProfileEnds(n)
        PROVE  FreshInv'
    BY <1>4, StreamAside DEF Stream!CmdT, Stream!CmdV, Stream!CmdB, Stream!ProfileEnds,
       Stream!chipVars, Stream!cnvrVars
  <1>5. mPresent \subseteq mChips /\ mBus = mPresent
    BY DEF FreshInv, StreamTypes
  <1>6. ASSUME NEW n, Stream!CmdA(n) PROVE FreshInv'
    <2>1. mTodo = <<>> /\ mTodo' = Stream!ApplySteps(mEnabled, mPresent)
          /\ UNCHANGED <<mBus, mNewer, mReady, mArmed, mRow, mPresent>>
      BY <1>6 DEF Stream!CmdA, Stream!AtInput, Stream!chipVars, Stream!cnvrVars
    <2> QED
      BY <1>5, <2>1, ApplyIsSetup, SetupKeeps
  <1>7. ASSUME NEW on \in BOOLEAN, Stream!CmdN(on) PROVE FreshInv'
    <2>1. mTodo = <<>> /\ mTodo' = Stream!ApplySteps(on, mPresent)
          /\ UNCHANGED <<mBus, mNewer, mReady, mArmed, mRow, mPresent>>
      BY <1>7 DEF Stream!CmdN, Stream!AtInput, Stream!chipVars
    <2> QED
      BY <1>5, <1>7, <2>1, ApplyIsSetup, SetupKeeps
  <1>8. CASE Stream!CmdR
    <2>1. mTodo = <<>> /\ mTodo' = Stream!ApplySteps(mEnabled, mBus) /\ mPresent' = mBus
          /\ UNCHANGED <<mBus, mNewer, mReady, mArmed, mRow>>
      BY <1>8 DEF Stream!CmdR, Stream!AtInput, Stream!chipVars
    <2> QED
      BY <1>5, <2>1, ApplyIsSetup, SetupKeeps
  <1>9. CASE Stream!ProfileRow
    <2>1. mTodo = <<>> /\ mTodo' = Stream!EmitSteps("profile") /\ mRow' = [mRow EXCEPT !.fresh = FALSE]
          /\ UNCHANGED <<mPresent, mBus, mNewer, mReady, mArmed>>
      BY <1>9 DEF Stream!ProfileRow, Stream!chipVars, Stream!cnvrVars
    <2>2. "profile" \in Reasons /\ "profile" # "edge"
      BY DEF Reasons
    <2> QED
      BY <2>1, <2>2, RowKeeps
  <1>10. CASE Stream!Emit
    <2> DEFINE why == Stream!Why
    <2>1. mTodo = <<>> /\ mTodo' = Stream!EmitSteps(why) /\ mRow' = [mRow EXCEPT !.fresh = FALSE]
          /\ UNCHANGED <<mPresent, mBus, mNewer, mReady, mArmed>>
      BY <1>10 DEF Stream!Emit, Stream!AtWork, Stream!chipVars, Stream!cnvrVars
    <2>2. why \in Reasons /\ (why = "edge" => mReady)
      BY DEF Stream!Why, Reasons
    <2> HIDE DEF why
    <2> QED
      BY <2>1, <2>2, RowKeeps
  <1> QED
    BY <1>1, <1>2, <1>3, <1>4, <1>6, <1>7, <1>8, <1>9, <1>10, AccessKeeps, ConvertKeeps
    DEF Stream!Next, Stream!MainLoop, Stream!Command, Stream!Profile

(* The row that the conversion-ready interrupt releases holds at least one *)
(* conversion newer than the row before it, for every number of chips and  *)
(* whatever converts between two accesses (firmware/main.py).              *)
THEOREM RowsAreFresh == Stream!Spec => []RowIsFresh
  <1>1. Stream!Init => FreshInv
    BY StreamInitHolds
  <1>2. FreshInv /\ [Stream!Next]_(Stream!vars) => FreshInv'
    BY StreamNextKeeps
  <1>3. FreshInv => RowIsFresh
    <2> SUFFICES ASSUME FreshInv, mTodo = <<>>, mRow.why = "edge" PROVE mRow.fresh
      BY DEF RowIsFresh, Stream!RowIsFresh
    <2>1. Ahead = {}
      BY DEF Ahead
    <2> QED
      BY <2>1 DEF FreshInv, EdgeCame
  <1> QED
    BY <1>1, <1>2, <1>3, PTL DEF Stream!Spec

-----------------------------------------------------------------------------
(* The types of the stream. *)

(* An access that programs a chip names one. *)
Named == {a \in Accesses : a.do = "init" => a.chip \in mChips}

StreamState ==
  /\ Stream!TypeOK
  /\ mTodo \in Seq(Named)

(* Programming the chips names chips only.                                  *)
LEMMA ApplyNames ==
  ASSUME NEW on, NEW set, set \subseteq mChips
  PROVE  Stream!ApplySteps(on, set) \in Seq(Named)
  <1> DEFINE a == Stream!Over("init", set)
             k == Stream!Over("clear", set)
             m == Stream!Only("arm")
             d == Stream!Only("disarm")
             s == Stream!ArmSteps(on, set)
  <1>1. ASSUME NEW t \in Seq(Accesses), \A i \in 1..Len(t) : t[i].do = "init" => t[i].chip \in mChips
        PROVE  t \in Seq(Named)
    BY <1>1 DEF Named
  <1>2. a \in Seq(Named)
    <2>1. a \in Seq(Accesses) /\ \A i \in 1..Len(a) : a[i].chip \in mChips
      BY OverEach
    <2> HIDE DEF a
    <2> QED
      BY <1>1, <2>1
  <1>3. k \in Seq(Named)
    <2>1. k \in Seq(Accesses) /\ \A i \in 1..Len(k) : k[i].chip \in mChips
      BY OverEach
    <2> HIDE DEF k
    <2> QED
      BY <1>1, <2>1
  <1>4. m \in Seq(Named) /\ d \in Seq(Named)
    <2>1. /\ m \in Seq(Accesses) /\ Len(m) = 1 /\ m[1].do = "arm"
          /\ d \in Seq(Accesses) /\ Len(d) = 1 /\ d[1].do = "disarm"
      BY OnlyOne
    <2> HIDE DEF m, d
    <2>2. /\ \A i \in 1..Len(m) : m[i].do # "init"
          /\ \A i \in 1..Len(d) : d[i].do # "init"
      BY <2>1
    <2> QED
      BY <1>1, <2>1, <2>2
  <1>5. s = (k \o m) \/ s = d
    BY DEF Stream!ArmSteps
  <1>6. Stream!ApplySteps(on, set) = a \o s
    BY DEF Stream!ApplySteps
  <1> HIDE DEF a, k, m, d, s
  <1>7. s \in Seq(Named)
    BY <1>3, <1>4, <1>5, ConcatProperties
  <1> QED
    BY <1>2, <1>6, <1>7, ConcatProperties

(* Of what a row is made of, nothing programs a chip.                       *)
LEMMA EmitNames ==
  ASSUME mPresent \subseteq mChips, NEW why \in Reasons
  PROVE  Stream!EmitSteps(why) \in Seq(Named)
  <1> DEFINE t == Stream!EmitSteps(why)
  <1>1. IsRow(t, why)
    BY EmitIsRow
  <1> HIDE DEF t
  <1>2. t \in Seq(Accesses) /\ \A i \in 1..Len(t) : t[i].do # "init"
    <2>1. PICK n \in Nat :
            /\ t \in Seq(Accesses) /\ n + 1 <= Len(t)
            /\ \A i \in 1..n : t[i].do = "sweep"
            /\ t[n + 1].do = why
            /\ \A i \in 1..Len(t) : i > n + 1 => t[i].do \in {"unflag", "clear"}
      BY <1>1 DEF IsRow
    <2> SUFFICES ASSUME NEW i \in 1..Len(t) PROVE t[i].do # "init"
      BY <2>1
    <2>2. CASE i \in 1..n
      BY <2>1, <2>2
    <2>3. CASE i = n + 1
      BY <2>1, <2>3 DEF Reasons
    <2>4. CASE i > n + 1
      BY <2>1, <2>4
    <2>5. i \in 1..n \/ i = n + 1 \/ i > n + 1
      BY <2>1
    <2> QED
      BY <2>2, <2>3, <2>4, <2>5
  <1>3. t \in Seq(Named)
    BY <1>2 DEF Named
  <1> QED
    BY <1>3 DEF t

(* A rate is cut to the cap.                                                *)
LEMMA CutToCap ==
  ASSUME NEW rate \in 0..mMaxRate, NEW cap \in 0..mMaxRate
  PROVE  Stream!Clamped(rate, cap) \in 0..mMaxRate /\ Stream!Clamped(rate, cap) <= cap
  <1>1. mMaxRate \in Nat
    BY ServiceAssumption DEF Stream!MicroStreamAssumption
  <1> QED
    BY <1>1 DEF Stream!Clamped

(* A burst that is on has samples left.                                     *)
LEMMA BurstIs ==
  ASSUME NEW on, NEW left \in 0..mMaxBurst, NEW full \in BOOLEAN, on <=> left > 0,
         on \in BOOLEAN
  PROVE  LET b == [on |-> on, left |-> left, held |-> full]
         IN  b \in [on : BOOLEAN, left : 0..mMaxBurst, held : BOOLEAN] /\ (b.on <=> b.left > 0)
  <1> DEFINE b == [on |-> on, left |-> left, held |-> full]
  <1>1. b \in [on : BOOLEAN, left : 0..mMaxBurst, held : BOOLEAN]
    OBVIOUS
  <1>2. b.on = on /\ b.left = left
    OBVIOUS
  <1> HIDE DEF b
  <1>3. b.on <=> b.left > 0
    BY <1>2
  <1> QED
    BY <1>1, <1>3 DEF b

(* Every step of the stream keeps its types: the rate stays under the cap   *)
(* whatever A, V and Z find, and a burst runs while samples are left.       *)
LEMMA StreamStateKept ==
  ASSUME StreamState, [Stream!Next]_(Stream!vars)
  PROVE  StreamState'
  <1> USE DEF StreamState, Stream!TypeOK, Stream!chipVars, Stream!cnvrVars, Stream!rateVars,
              Stream!loop, Stream!AtInput, Stream!AtWork, Stream!Cap
  <1>0. mMaxRate \in Nat \ {0} /\ mMaxBurst \in Nat \ {0} /\ mProfileRows \in Nat \ {0}
    BY ServiceAssumption DEF Stream!MicroStreamAssumption
  <1>1. CASE UNCHANGED Stream!vars
    BY <1>1 DEF Stream!vars
  <1>2. CASE Stream!TimePasses
    BY <1>2 DEF Stream!TimePasses
  <1>3. ASSUME NEW c \in mChips, Stream!Convert(c) PROVE StreamState'
    <2>1. mReady' \in BOOLEAN
      BY <1>3, Zenon DEF Stream!Convert
    <2> QED
      BY <1>3, <2>1 DEF Stream!Convert
  <1>4. CASE Stream!Access
    <2> DEFINE s == Head(mTodo)
    <2>1. s \in Named /\ Tail(mTodo) \in Seq(Named) /\ mTodo' = Tail(mTodo)
      BY <1>4 DEF Stream!Access
    <2>2. /\ mFlagged' \subseteq mFlagged /\ mNewer' \subseteq mNewer
          /\ mReady' \in {mReady, FALSE} /\ mArmed' \in {TRUE, FALSE, mArmed}
          /\ s.do = "init" => mCnvr' \subseteq mCnvr \cup {s.chip}
          /\ s.do # "init" => mCnvr' = mCnvr
          /\ UNCHANGED <<mBus, mWired, mPresent, mEnabled, mHz, mEstimate, mMeasured, mAge,
                         mBurst, mAt, mRows>>
      BY <1>4 DEF Stream!Access
    <2>3. mCnvr' \subseteq mChips
      BY <2>1, <2>2 DEF Named
    <2>4. mReady' \in BOOLEAN /\ mArmed' \in BOOLEAN
      BY <2>2
    <2> HIDE DEF s
    <2> QED
      BY <2>1, <2>2, <2>3, <2>4
  <1>5. CASE Stream!NoInput \/ Stream!NothingDue
    BY <1>5 DEF Stream!NoInput, Stream!NothingDue
  <1>6. ASSUME NEW rate \in 0..mMaxRate, Stream!CmdT(rate) PROVE StreamState'
    <2>1. Stream!Cap \in 0..mMaxRate
      BY <1>0
    <2>2. Stream!Clamped(rate, Stream!Cap) \in 0..mMaxRate /\ Stream!Clamped(rate, Stream!Cap) <= Stream!Cap
      BY <2>1, CutToCap
    <2> HIDE DEF Stream!Cap
    <2>3. mHz' \in 0..mMaxRate /\ mHz' <= Stream!Cap
      BY <1>6, <2>2 DEF Stream!CmdT
    <2> USE DEF Stream!Cap
    <2> QED
      BY <1>6, <2>3 DEF Stream!CmdT
  <1>7. ASSUME NEW allowed \in 1..mMaxRate, Stream!CmdA(allowed) \/ Stream!CmdV(allowed) PROVE StreamState'
    <2> DEFINE cap == IF mMeasured > 0 THEN mMeasured ELSE allowed
    <2>1. cap \in 0..mMaxRate
      BY <1>0
    <2> HIDE DEF cap
    <2>2. Stream!Clamped(mHz, cap) \in 0..mMaxRate /\ Stream!Clamped(mHz, cap) <= cap
      BY <2>1, CutToCap
    <2>3. mTodo' \in Seq(Named)
      <3>1. mPresent \subseteq mChips
        OBVIOUS
      <3>2. CASE Stream!CmdA(allowed)
        BY <3>1, <3>2, ApplyNames DEF Stream!CmdA
      <3>3. CASE Stream!CmdV(allowed)
        BY <3>3 DEF Stream!CmdV
      <3> QED
        BY <1>7, <3>2, <3>3
    <2>4. /\ mHz' = Stream!Clamped(mHz, cap) /\ mEstimate' = allowed /\ mAt' = "work"
          /\ UNCHANGED <<mBus, mWired, mPresent, mCnvr, mFlagged, mNewer, mReady, mArmed,
                         mEnabled, mMeasured, mAge, mBurst, mRows>>
      BY <1>7 DEF Stream!CmdA, Stream!CmdV, cap
    <2>5. mHz' \in 0..mMaxRate /\ mHz' <= cap
      BY <2>2, <2>4
    <2>6. mHz' <= IF mMeasured' > 0 THEN mMeasured' ELSE mEstimate'
      BY <2>4, <2>5 DEF cap
    <2> QED
      BY <2>3, <2>4, <2>5, <2>6
  <1>8. CASE Stream!CmdZ
    BY <1>0, <1>8 DEF Stream!CmdZ
  <1>9. ASSUME NEW why \in Reasons, mTodo' = Stream!EmitSteps(why),
               mAge' \in {0, mAge}, mAt' \in {"input", mAt}, mRows' \in 0..mProfileRows,
               UNCHANGED <<mBus, mWired, mPresent, mCnvr, mFlagged, mNewer, mReady, mArmed,
                           mEnabled, mHz, mEstimate, mMeasured, mBurst>>
        PROVE  StreamState'
    <2>1. mTodo' \in Seq(Named)
      <3>1. mPresent \subseteq mChips
        OBVIOUS
      <3> QED
        BY <1>9, <3>1, EmitNames
    <2> QED
      BY <1>9, <2>1
  <1>10. CASE Stream!ProfileRow
    <2>1. "profile" \in Reasons /\ mRows' \in 0..mProfileRows
      BY <1>0, <1>10 DEF Stream!ProfileRow, Reasons
    <2> QED
      BY <1>9, <1>10, <2>1 DEF Stream!ProfileRow
  <1>11. CASE Stream!Emit
    <2>1. Stream!Why \in Reasons
      BY DEF Stream!Why, Reasons
    <2> QED
      BY <1>9, <1>11, <2>1 DEF Stream!Emit
  <1>12. ASSUME NEW took \in 1..mMaxRate, Stream!ProfileEnds(took) PROVE StreamState'
    <2>1. took \in 0..mMaxRate /\ took > 0
      BY <1>0
    <2>2. Stream!Clamped(mHz, took) \in 0..mMaxRate /\ Stream!Clamped(mHz, took) <= took
      BY <2>1, CutToCap
    <2> QED
      BY <1>12, <2>1, <2>2 DEF Stream!ProfileEnds
  <1>13. ASSUME NEW on \in BOOLEAN, Stream!CmdN(on) PROVE StreamState'
    <2>1. Stream!ApplySteps(on, mPresent) \in Seq(Named)
      BY ApplyNames
    <2> QED
      BY <1>13, <2>1 DEF Stream!CmdN
  <1>14. CASE Stream!CmdR
    <2>1. Stream!ApplySteps(mEnabled, mBus) \in Seq(Named)
      BY ApplyNames
    <2> QED
      BY <1>14, <2>1 DEF Stream!CmdR
  <1>15. ASSUME NEW n \in 0..mMaxBurst, Stream!CmdB(n) PROVE StreamState'
    <2>1. mBurst' = [on |-> n > 0, left |-> n, held |-> FALSE]
      BY <1>15 DEF Stream!CmdB
    <2>2. mBurst' \in [on : BOOLEAN, left : 0..mMaxBurst, held : BOOLEAN]
          /\ (mBurst'.on <=> mBurst'.left > 0)
      <3> DEFINE b == n > 0
      <3>1. b \in BOOLEAN /\ FALSE \in BOOLEAN /\ (b <=> n > 0) /\ mBurst' = [on |-> b, left |-> n, held |-> FALSE]
        BY <2>1
      <3> HIDE DEF b
      <3> QED
        BY <3>1, BurstIs, Zenon
    <2> QED
      BY <1>15, <2>2 DEF Stream!CmdB
  <1>16. CASE Stream!CmdBD
    BY <1>0, <1>16 DEF Stream!CmdBD, Stream!NoBurst
  <1>17. CASE Stream!Capture
    <2>1. mBurst' = [on |-> mBurst.left > 1, left |-> mBurst.left - 1, held |-> TRUE]
          /\ mBurst.left > 0 /\ mBurst.left \in 0..mMaxBurst
      BY <1>17 DEF Stream!Capture
    <2>2. mBurst.left - 1 \in 0..mMaxBurst /\ (mBurst.left > 1 <=> mBurst.left - 1 > 0)
      BY <1>0, <2>1
    <2> DEFINE n == mBurst.left - 1
               b == mBurst.left > 1
    <2>3. /\ mBurst' = [on |-> b, left |-> n, held |-> TRUE]
          /\ n \in 0..mMaxBurst /\ (b <=> n > 0) /\ b \in BOOLEAN /\ TRUE \in BOOLEAN
      BY <2>1, <2>2
    <2> HIDE DEF n, b
    <2>4. mBurst' \in [on : BOOLEAN, left : 0..mMaxBurst, held : BOOLEAN]
          /\ (mBurst'.on <=> mBurst'.left > 0)
      BY <2>3, BurstIs, Zenon
    <2> QED
      BY <1>17, <2>4 DEF Stream!Capture
  <1>18. ASSUME NEW rate \in 0..mMaxRate, Stream!CmdA(rate) \/ Stream!CmdV(rate) PROVE rate \in 1..mMaxRate
    BY <1>18 DEF Stream!CmdA, Stream!CmdV
  <1> QED
    BY <1>1, <1>2, <1>3, <1>4, <1>5, <1>6, <1>7, <1>8, <1>10, <1>11, <1>12, <1>13, <1>14,
       <1>15, <1>16, <1>17, <1>18
    DEF Stream!Next, Stream!MainLoop, Stream!Command, Stream!Profile

(* The stream's variables have their types, for every number of chips.      *)
LEMMA StreamTypeCorrect == Stream!Spec => []Stream!TypeOK
  <1>1. Stream!Init => StreamState
    <2>1. mMaxRate \in Nat \ {0} /\ mMaxBurst \in Nat \ {0} /\ mProfileRows \in Nat \ {0}
      BY ServiceAssumption DEF Stream!MicroStreamAssumption
    <2> SUFFICES ASSUME Stream!Init PROVE StreamState
      OBVIOUS
    <2>2. mBurst \in [on : BOOLEAN, left : 0..mMaxBurst, held : BOOLEAN] /\ (mBurst.on <=> mBurst.left > 0)
      BY <2>1 DEF Stream!Init, Stream!NoBurst
    <2>3. mHz \in 0..mMaxRate /\ mEstimate \in 1..mMaxRate /\ mMeasured \in 0..mMaxRate
          /\ mHz <= Stream!Cap
      BY <2>1 DEF Stream!Init, Stream!Cap
    <2>4. mTodo \in Seq(Named) /\ mPresent \subseteq mBus /\ mBus \subseteq mChips
          /\ mCnvr \subseteq mChips /\ mFlagged \subseteq mBus /\ mNewer \subseteq mBus
      BY DEF Stream!Init
    <2>5. {mWired, mReady, mArmed, mEnabled} \subseteq BOOLEAN
      BY DEF Stream!Init
    <2>6. mAge \in 0..2 /\ mAt \in {"input", "profile", "work"} /\ mRows \in 0..mProfileRows
      BY <2>1 DEF Stream!Init
    <2> QED
      BY <2>2, <2>3, <2>4, <2>5, <2>6 DEF StreamState, Stream!TypeOK
  <1>2. StreamState /\ [Stream!Next]_(Stream!vars) => StreamState'
    BY StreamStateKept
  <1>3. StreamState => Stream!TypeOK
    BY DEF StreamState
  <1> QED
    BY <1>1, <1>2, <1>3, PTL DEF Stream!Spec

-----------------------------------------------------------------------------
(* The parts side by side. *)

(* What the composition does to a part is a step of the part, or nothing.   *)
LEMMA PartsMove ==
  ServiceSpec => Spec /\ Stream!Spec /\ Control!Spec /\ Dashboard!Spec
  <1>1. ServiceInit => Init /\ Stream!Init /\ Control!Init /\ Dashboard!Init
    BY DEF ServiceInit
  <1>2. [ServiceNext]_serviceVars => [Next]_vars
    BY DEF ServiceNext, serviceVars
  <1>3. [ServiceNext]_serviceVars => [Stream!Next]_(Stream!vars)
    <2>1. UNCHANGED mVars => UNCHANGED Stream!vars
      BY DEF mVars, Stream!vars, Stream!chipVars, Stream!cnvrVars, Stream!rateVars, Stream!loop
    <2> QED
      BY <2>1 DEF ServiceNext, serviceVars
  <1>4. [ServiceNext]_serviceVars => [Control!Next]_(Control!vars)
    <2>1. UNCHANGED aVars => UNCHANGED Control!vars
      BY DEF aVars, Control!vars, Control!state, Control!modeVars, Control!afVars,
             Control!threads, Control!history
    <2> QED
      BY <2>1 DEF ServiceNext, serviceVars
  <1>5. [ServiceNext]_serviceVars => [Dashboard!Next]_(Dashboard!vars)
    <2>1. UNCHANGED fVars => UNCHANGED Dashboard!vars
      BY DEF fVars, Dashboard!vars, Dashboard!world, Dashboard!store, Dashboard!cycler,
             Dashboard!web, Dashboard!history
    <2> QED
      BY <2>1 DEF ServiceNext, serviceVars
  <1> QED
    BY <1>1, <1>2, <1>3, <1>4, <1>5, PTL
    DEF ServiceSpec, Spec, Stream!Spec, Control!Spec, Dashboard!Spec

(* The state of the two sides of the cable, of the stream, of the control   *)
(* core and of the dashboard has the type each module declares, for every   *)
(* value of their constants.                                                *)
THEOREM ServiceTypes == ServiceSpec => []ServiceTypeOK
  <1>1. Control!Spec => []Control!TypeOK
    BY ServiceAssumption, Control!TypeCorrect
  <1>2. Dashboard!Spec => []Dashboard!TypeOK
    BY ServiceAssumption, Dashboard!FleetTypes
  <1>3. TypeOK /\ Stream!TypeOK /\ Control!TypeOK /\ Dashboard!TypeOK <=> ServiceTypeOK
    BY DEF ServiceTypeOK
  <1> QED
    BY <1>1, <1>2, <1>3, TypeCorrect, StreamTypeCorrect, PartsMove, PTL

(* The same composition keeps what was proved of the link and the stream.   *)
THEOREM ServiceIsSafe == ServiceSpec => [](StrayRepliesAreLate /\ RowIsFresh)
  BY PartsMove, StrayRepliesLate, RowsAreFresh, PTL

=============================================================================
