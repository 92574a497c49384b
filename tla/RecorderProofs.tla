---------------------------- MODULE RecorderProofs ----------------------------
(***************************************************************************)
(* Proofs about Recorder for every number of clients, sessions and frames, *)
(* with disks that fail and joins that time out.                           *)
(***************************************************************************)
EXTENDS Recorder, Integers, SequenceTheorems, TLAPS

Item == Frames \cup {Stop}

(* The parts of TypeOK. *)
SequencesOK ==
  /\ queue \in [Sessions -> Seq(Item)] /\ file \in [Sessions -> Seq(Frames)]
  /\ offered \in [Sessions -> Seq(Frames)] /\ accepted \in [Sessions -> Seq(Frames)]

SessionOK ==
  /\ active \in BOOLEAN /\ session \in 0..MaxSessions /\ writer \in 0..MaxSessions
  /\ gate \in Steps \cup {None} /\ sawOther \in BOOLEAN
  /\ lastSeq \in 0..SeqModulus - 1 \cup {None} /\ count \in 0..MaxFrames
  /\ asked \in [Sessions -> Requests \cup {[limit |-> 0, align |-> None]}]

ThreadsOK ==
  /\ writerPc \in [Sessions -> {"none", "opening", "writing", "draining", "done"}]
  /\ damaged \in [Sessions -> BOOLEAN] /\ warned \in [Sessions -> BOOLEAN]
  /\ pc \in [Clients -> {"ready", "start_stop", "join", "start_join", "setup"}]
  /\ joining \in [Clients -> 0..MaxSessions \cup {None}]

StreamOK ==
  /\ reader \in {"idle", "record"} /\ frame \in Frames \cup {None}
  /\ emitted \in 0..MaxFrames /\ seq \in 0..SeqModulus - 1 /\ rates \in 0..MaxRates

(* TypeOK is its parts.                                                     *)
LEMMA TypeParts == TypeOK <=> SequencesOK /\ SessionOK /\ ThreadsOK /\ StreamOK
  BY Zenon DEF TypeOK, SequencesOK, SessionOK, ThreadsOK, StreamOK, Item

(* The reader that is past the check holds a frame. *)
FrameHeld == reader = "record" => frame \in Frames

Counted == count + (IF reader = "record" THEN 1 ELSE 0) <= emitted

(* The sessions that are to come. *)
Unused ==
  \A s \in Sessions : s > session =>
    /\ queue[s] = <<>> /\ file[s] = <<>> /\ offered[s] = <<>> /\ accepted[s] = <<>>
    /\ writerPc[s] = "none"

(* A session that records has its writer and has not been told to end. *)
Running ==
  active => /\ session \in Sessions /\ Alive(session)
            /\ \A i \in 1..Len(queue[session]) : queue[session][i] # Stop

(* A writer drains because its file did not open; one that ended has taken  *)
(* everything.                                                              *)
WriterFate ==
  \A s \in Sessions :
    /\ writerPc[s] \in {"none", "opening"} => ~damaged[s]
    /\ writerPc[s] = "draining" => damaged[s]
    /\ writerPc[s] = "done" => queue[s] = <<>>

(* The rows are those from the first that begins the recording. *)
IsFirst(frames, align, m) ==
  /\ Begins(frames, align, m)
  /\ \A j \in 1..Len(frames) : Begins(frames, align, j) => m <= j

NoneBegins(frames, align) == \A j \in 1..Len(frames) : ~Begins(frames, align, j)

Recorded(frames, align, rows) ==
  \/ NoneBegins(frames, align) /\ rows = <<>>
  \/ \E m \in 1..Len(frames) :
       IsFirst(frames, align, m) /\ rows = SubSeq(frames, m, Len(frames))

AllRecorded == \A s \in Sessions : Recorded(offered[s], asked[s].align, accepted[s])

(* What the gate and the counter are to the session that records. *)
Gated ==
  active =>
    LET frames == offered[session]
        align  == asked[session].align
    IN  /\ gate \in {None, align}
        /\ gate # None => /\ NoneBegins(frames, align)
                          /\ sawOther <=> \E j \in 1..Len(frames) : frames[j].step # align
        /\ gate = None => align = None \/ ~NoneBegins(frames, align)

Limited ==
  /\ \A s \in Sessions : asked[s].limit > 0 => Len(accepted[s]) <= asked[s].limit
  /\ active => /\ count = Len(accepted[session])
               /\ asked[session].limit > 0 => count < asked[session].limit

IInv ==
  /\ SequencesOK /\ SessionOK /\ ThreadsOK /\ StreamOK
  /\ FrameHeld /\ Counted
  /\ Unused /\ Running /\ WriterFate
  /\ SentinelIsLast /\ WriterIsToldToEnd
  /\ FileIsRecording
  /\ AllRecorded /\ Gated /\ Limited

-----------------------------------------------------------------------------
(* Sequences. *)
LEMMA Appended ==
  ASSUME NEW S, NEW s \in Seq(S), NEW e \in S
  PROVE  /\ Append(s, e) \in Seq(S) /\ Len(s) \in Nat /\ Len(Append(s, e)) = Len(s) + 1
         /\ \A i \in 1..Len(s) : Append(s, e)[i] = s[i]
         /\ Append(s, e)[Len(s) + 1] = e
         /\ Append(s, e) # <<>> /\ Last(Append(s, e)) = e /\ Front(Append(s, e)) = s
  <1>1. /\ Append(s, e) \in Seq(S) /\ Len(s) \in Nat /\ Len(Append(s, e)) = Len(s) + 1
        /\ \A i \in 1..Len(s) : Append(s, e)[i] = s[i]
        /\ Append(s, e)[Len(s) + 1] = e
    BY AppendProperties
  <1>2. PICK t \in Seq(S) : t = Append(s, e)
    BY <1>1
  <1>3. SubSeq(t, 1, Len(t) - 1) = s
    <2>1. /\ \A i \in 1..(Len(t) - 1) : t[i] \in S
          /\ Len(t) - 1 \in Int /\ 1 \in Int
      BY <1>1, <1>2
    <2>2. /\ SubSeq(t, 1, Len(t) - 1) \in Seq(S)
          /\ Len(SubSeq(t, 1, Len(t) - 1)) = IF 1 <= Len(t) - 1 THEN Len(t) - 1 - 1 + 1 ELSE 0
          /\ \A i \in 1..(Len(t) - 1 - 1 + 1) : SubSeq(t, 1, Len(t) - 1)[i] = t[1 + i - 1]
      BY <2>1, SubSeqProperties
    <2>3. PICK u \in Seq(S) : u = SubSeq(t, 1, Len(t) - 1)
      BY <2>2
    <2>4. Len(u) = Len(s) /\ \A i \in 1..Len(s) : u[i] = s[i]
      BY <1>1, <1>2, <2>2, <2>3
    <2> QED
      BY <2>3, <2>4, SeqEqual
  <1> QED
    BY <1>1, <1>2, <1>3 DEF Last, Front

(* A sequence of elements of T is one over T.                               *)
LEMMA SeqOver ==
  ASSUME NEW S, NEW T, NEW s \in Seq(S), \A i \in 1..Len(s) : s[i] \in T
  PROVE  s \in Seq(T)
  OBVIOUS

(* The sentinel and None are not rows.                                      *)
LEMMA StopIsNoFrame == Stop \notin Frames /\ None \notin Frames
  BY RecorderAssumption

(* What the rows of a queue become. *)
LEMMA RowsAppended ==
  ASSUME NEW q \in Seq(Item), \A i \in 1..Len(q) : q[i] # Stop,
         NEW f \in Frames
  PROVE  /\ RowsOf(q) = q /\ RowsOf(Append(q, Stop)) = q
         /\ q \in Seq(Frames) /\ Append(q, f) \in Seq(Item) /\ \A i \in 1..Len(Append(q, f)) : Append(q, f)[i] # Stop
  <1>1. q \in Seq(Frames)
    <2>1. \A i \in 1..Len(q) : q[i] \in Frames
      BY DEF Item
    <2> QED
      BY <2>1
  <1>2. RowsOf(q) = q
    <2>1. q # <<>> => Len(q) \in 1..Len(q)
      OBVIOUS
    <2> QED
      BY <2>1 DEF RowsOf, Last
  <1>3. RowsOf(Append(q, Stop)) = q
    BY Appended DEF RowsOf, Item
  <1>4. Append(q, f) \in Seq(Item) /\ \A i \in 1..Len(Append(q, f)) : Append(q, f)[i] # Stop
    BY StopIsNoFrame, AppendProperties DEF Item
  <1> QED
    BY <1>1, <1>2, <1>3, <1>4

(* What is left of a queue when its first item is taken.                    *)
LEMMA RowsTaken ==
  ASSUME NEW q \in Seq(Item), q # <<>>,
         \A i \in 1..Len(q) : q[i] = Stop => i = Len(q)
  PROVE  /\ Head(q) \in Item /\ Tail(q) \in Seq(Item)
         /\ \A i \in 1..Len(Tail(q)) : Tail(q)[i] = Stop => i = Len(Tail(q))
         /\ Head(q) = Stop => Tail(q) = <<>> /\ RowsOf(q) = <<>>
         /\ Head(q) # Stop => /\ Head(q) \in Frames /\ RowsOf(Tail(q)) \in Seq(Frames)
                              /\ RowsOf(q) = <<Head(q)>> \o RowsOf(Tail(q))
         /\ RowsOf(Tail(q)) \in Seq(Frames) /\ RowsOf(q) \in Seq(Frames)
         /\ \A i \in 1..Len(Tail(q)) : Tail(q)[i] = q[i + 1]
         /\ Last(q) = Stop /\ Head(q) # Stop => Tail(q) # <<>> /\ Last(Tail(q)) = Stop
  <1>1. /\ Head(q) \in Item /\ Tail(q) \in Seq(Item) /\ Head(q) = q[1]
        /\ Len(q) \in Nat /\ Len(q) >= 1 /\ Len(Tail(q)) = Len(q) - 1
        /\ \A i \in 1..Len(Tail(q)) : Tail(q)[i] = q[i + 1]
    BY HeadTailProperties
  <1> PICK n \in Nat : n = Len(q)
    BY <1>1
  <1> PICK t \in Seq(Item) : t = Tail(q)
    BY <1>1
  <1>2. \A i \in 1..Len(t) : t[i] = Stop => i = Len(t)
    BY <1>1
  <1>3. Head(q) = Stop => t = <<>>
    BY <1>1
  <1>4. Last(q) = Stop /\ Head(q) # Stop => t # <<>> /\ Last(t) = Stop
    <2> SUFFICES ASSUME Last(q) = Stop, Head(q) # Stop
                 PROVE  t # <<>> /\ Last(t) = Stop
      OBVIOUS
    <2>1. n > 1
      BY <1>1 DEF Last
    <2>2. Len(t) = n - 1 /\ n - 1 \in 1..Len(t)
      BY <1>1, <2>1
    <2>3. t[n - 1] = q[n] /\ q[n] = Stop
      BY <1>1, <2>2 DEF Last
    <2> QED
      BY <2>2, <2>3 DEF Last
  <1>5. CASE Last(q) = Stop
    <2>1. /\ RowsOf(q) = SubSeq(q, 1, n - 1)
          /\ \A i \in 1..(n - 1) : q[i] \in Frames
      BY <1>1, <1>5 DEF RowsOf, Front, Item, Last
    <2>2. PICK r \in Seq(Frames) : r = RowsOf(q)
      BY <2>1, SubSeqProperties
    <2>3. Len(r) = n - 1 /\ \A i \in 1..(n - 1) : r[i] = q[i]
      <3>1. 1 \in Int /\ n - 1 \in Int
        OBVIOUS
      <3>2. /\ Len(SubSeq(q, 1, n - 1)) = IF 1 <= n - 1 THEN n - 1 - 1 + 1 ELSE 0
            /\ \A i \in 1..(n - 1 - 1 + 1) : SubSeq(q, 1, n - 1)[i] = q[1 + i - 1]
        BY <2>1, <3>1, SubSeqProperties
      <3> QED
        BY <1>1, <2>1, <2>2, <3>2
    <2>4. CASE Head(q) = Stop
      <3>1. n = 1 /\ r = <<>> /\ t = <<>>
        BY <1>1, <2>3, <2>4
      <3>2. RowsOf(t) = <<>> /\ <<>> \in Seq(Frames)
        BY <3>1 DEF RowsOf
      <3> QED
        BY <1>1, <1>2, <1>3, <1>4, <2>2, <2>4, <3>1, <3>2
    <2>5. CASE Head(q) # Stop
      <3>1. t # <<>> /\ Last(t) = Stop /\ n > 1
        BY <1>1, <1>4, <1>5, <2>5
      <3>2. RowsOf(t) = SubSeq(t, 1, n - 2)
        BY <1>1, <3>1 DEF RowsOf, Front
      <3>3. \A i \in 1..(n - 2) : t[i] \in Frames
        BY <1>1, <2>1, <3>1
      <3>12. 1 \in Int /\ n - 2 \in Int
        OBVIOUS
      <3>13. SubSeq(t, 1, n - 2) \in Seq(Frames)
        BY <3>3, <3>12, SubSeqProperties
      <3>4. PICK u \in Seq(Frames) : u = RowsOf(t)
        BY <3>2, <3>13
      <3>5. Len(u) = n - 2 /\ \A i \in 1..(n - 2) : u[i] = t[i]
        <4>1. 1 \in Int /\ n - 2 \in Int
          OBVIOUS
        <4>2. /\ Len(SubSeq(t, 1, n - 2)) = IF 1 <= n - 2 THEN n - 2 - 1 + 1 ELSE 0
              /\ \A i \in 1..(n - 2 - 1 + 1) : SubSeq(t, 1, n - 2)[i] = t[1 + i - 1]
          BY <3>3, <4>1, SubSeqProperties
        <4> QED
          BY <3>1, <3>2, <3>4, <4>2
      <3>6. PICK h \in Frames : h = Head(q)
        BY <1>1, <2>1, <3>1
      <3>7. <<h>> \in Seq(Frames) /\ Len(<<h>>) = 1 /\ <<h>>[1] = h
        OBVIOUS
      <3>8. PICK v \in Seq(Frames) : v = <<h>> \o u
        BY <3>7, ConcatProperties
      <3>9. Len(v) = n - 1 /\ \A i \in 1..(n - 1) : v[i] = IF i <= 1 THEN h ELSE u[i - 1]
        BY <3>1, <3>5, <3>7, <3>8, ConcatProperties
      <3>10. \A i \in 1..(n - 1) : v[i] = r[i]
        BY <1>1, <2>3, <3>5, <3>6, <3>9
      <3>11. r = v
        BY <2>3, <3>9, <3>10, SeqEqual
      <3> QED
        BY <1>1, <1>2, <1>4, <2>2, <2>5, <3>4, <3>6, <3>8, <3>11
    <2> QED
      BY <2>4, <2>5
  <1>6. CASE Last(q) # Stop
    <2>1. \A i \in 1..n : q[i] \in Frames
      BY <1>1, <1>6 DEF Item, Last
    <2>2. RowsOf(q) = q /\ q \in Seq(Frames)
      BY <1>6, <2>1 DEF RowsOf
    <2>3. Head(q) \in Frames
      BY <1>1, <2>1
    <2>4. RowsOf(t) = t /\ t \in Seq(Frames)
      <3>1. \A i \in 1..Len(t) : t[i] \in Frames
        BY <1>1, <2>1
      <3>2. t # <<>> => Last(t) \in Frames
        <4>1. t # <<>> => Len(t) \in 1..Len(t)
          OBVIOUS
        <4> QED
          BY <3>1, <4>1 DEF Last
      <3>3. t \in Seq(Frames)
        BY <3>1, SeqOver
      <3>4. RowsOf(t) = t
        BY <3>2, StopIsNoFrame DEF RowsOf
      <3> QED
        BY <3>3, <3>4
    <2>5. q = <<Head(q)>> \o t
      <3>1. PICK h \in Frames : h = Head(q)
        BY <2>3
      <3>2. <<h>> \in Seq(Frames) /\ Len(<<h>>) = 1 /\ <<h>>[1] = h
        OBVIOUS
      <3>3. PICK v \in Seq(Frames) : v = <<h>> \o t
        BY <2>4, <3>2, ConcatProperties
      <3>4. Len(v) = n /\ \A i \in 1..n : v[i] = IF i <= 1 THEN h ELSE t[i - 1]
        BY <1>1, <2>4, <3>2, <3>3, ConcatProperties
      <3>5. \A i \in 1..n : v[i] = q[i]
        BY <1>1, <3>1, <3>4
      <3> QED
        BY <2>2, <3>1, <3>3, <3>4, <3>5, SeqEqual
    <2> QED
      BY <1>1, <1>2, <1>4, <1>6, <2>2, <2>3, <2>4, <2>5, StopIsNoFrame
  <1> QED
    BY <1>5, <1>6

(* A file grows by the row that leaves the queue, or goes without it. *)
LEMMA RowMoves ==
  ASSUME NEW f \in Seq(Frames), NEW h \in Frames, NEW rest \in Seq(Frames)
  PROVE  /\ Append(f, h) \o rest = f \o (<<h>> \o rest)
         /\ ToSet(f \o rest) \subseteq ToSet(f \o (<<h>> \o rest))
  <1>1. <<h>> \in Seq(Frames) /\ Len(<<h>>) = 1 /\ f \in Seq(Frames) /\ rest \in Seq(Frames)
    OBVIOUS
  <1>2. Append(f, h) = f \o <<h>>
    BY AppendIsConcat
  <1>3. (f \o <<h>>) \o rest = f \o (<<h>> \o rest)
    BY <1>1, ConcatAssociative
  <1>4. PICK t \in Seq(Frames) : t = <<h>> \o rest
    BY <1>1, ConcatProperties
  <1>5. Len(t) = 1 + Len(rest) /\ \A i \in 1..Len(rest) : t[i + 1] = rest[i]
    BY <1>1, <1>4, ConcatProperties
  <1>6. \A i \in 1..Len(f) + Len(rest) :
          (f \o rest)[i] = IF i <= Len(f) THEN f[i] ELSE rest[i - Len(f)]
    BY ConcatProperties
  <1>7. \A i \in 1..Len(f) + Len(t) : (f \o t)[i] = IF i <= Len(f) THEN f[i] ELSE t[i - Len(f)]
    BY ConcatProperties
  <1>8. /\ Len(f) \in Nat /\ Len(rest) \in Nat
        /\ f \o rest \in Seq(Frames) /\ Len(f \o rest) = Len(f) + Len(rest)
        /\ f \o t \in Seq(Frames) /\ Len(f \o t) = Len(f) + 1 + Len(rest)
    <2>1. Len(f) \in Nat /\ Len(rest) \in Nat
      BY LenProperties
    <2>2. f \o rest \in Seq(Frames) /\ Len(f \o rest) = Len(f) + Len(rest)
      BY ConcatProperties
    <2>3. f \o t \in Seq(Frames) /\ Len(f \o t) = Len(f) + Len(t)
      BY ConcatProperties
    <2> QED
      BY <1>5, <2>1, <2>2, <2>3
  <1>9. ASSUME NEW i \in 1..Len(f \o rest)
        PROVE  \E j \in 1..Len(f \o t) : (f \o rest)[i] = (f \o t)[j]
    <2>1. CASE i <= Len(f)
      BY <1>5, <1>6, <1>7, <1>8, <2>1
    <2>2. CASE i > Len(f)
      <3>1. i + 1 \in 1..Len(f \o t) /\ i - Len(f) \in 1..Len(rest)
        BY <1>8, <2>2
      <3>2. (f \o t)[i + 1] = t[(i - Len(f)) + 1]
        BY <1>5, <1>7, <1>8, <2>2, <3>1, SMTT(30)
      <3>3. (f \o rest)[i] = rest[i - Len(f)]
        BY <1>6, <1>8, <2>2
      <3> QED
        BY <1>5, <3>1, <3>2, <3>3
    <2> QED
      BY <1>8, <2>1, <2>2
  <1>10. DOMAIN (f \o rest) = 1..Len(f \o rest) /\ DOMAIN (f \o t) = 1..Len(f \o t)
    BY <1>8
  <1>11. ToSet(f \o rest) \subseteq ToSet(f \o t)
    BY <1>9, <1>10 DEF ToSet
  <1> QED
    BY <1>2, <1>3, <1>4, <1>11

(* A row is queued. *)
LEMMA RowQueued ==
  ASSUME NEW f \in Seq(Frames), NEW q \in Seq(Frames), NEW h \in Frames
  PROVE  /\ f \o Append(q, h) = Append(f \o q, h)
         /\ f \o q \in Seq(Frames)
         /\ \A t \in Seq(Frames) : ToSet(Append(t, h)) = ToSet(t) \cup {h}
  <1>1. <<h>> \in Seq(Frames)
    OBVIOUS
  <1>2. /\ Append(q, h) = q \o <<h>> /\ f \o q \in Seq(Frames)
        /\ f \o (q \o <<h>>) = (f \o q) \o <<h>>
    BY <1>1, AppendIsConcat, ConcatAssociative, ConcatProperties
  <1>3. Append(f \o q, h) = (f \o q) \o <<h>>
    BY <1>2, AppendIsConcat
  <1>4. ASSUME NEW t \in Seq(Frames) PROVE ToSet(Append(t, h)) = ToSet(t) \cup {h}
    <2>1. PICK a \in Seq(Frames) : a = Append(t, h)
      BY Appended
    <2>2. /\ Len(t) \in Nat /\ Len(a) = Len(t) + 1 /\ a[Len(t) + 1] = h
          /\ \A i \in 1..Len(t) : a[i] = t[i]
      BY <2>1, Appended
    <2>3. DOMAIN t = 1..Len(t) /\ DOMAIN a = 1..Len(a)
      OBVIOUS
    <2>4. ToSet(a) = {a[i] : i \in 1..Len(a)} /\ ToSet(t) = {t[i] : i \in 1..Len(t)}
      BY <2>3 DEF ToSet
    <2>5. ToSet(t) \cup {h} \subseteq ToSet(a)
      <3>1. Len(t) + 1 \in 1..Len(a) /\ \A i \in 1..Len(t) : i \in 1..Len(a)
        BY <2>2
      <3> QED
        BY <2>2, <2>4, <3>1
    <2>6. ToSet(a) \subseteq ToSet(t) \cup {h}
      <3>1. \A i \in 1..Len(a) : i \in 1..Len(t) \/ i = Len(t) + 1
        BY <2>2
      <3> QED
        BY <2>2, <2>4, <3>1
    <2> QED
      BY <2>1, <2>5, <2>6
  <1> QED
    BY <1>2, <1>3, <1>4

Matches(damage, written, queued, rows) ==
  IF damage THEN ToSet(written \o queued) \subseteq ToSet(rows) ELSE written \o queued = rows

(* A row that is queued and accepted keeps file and queue the recording.    *)
LEMMA RowMatches ==
  ASSUME NEW damage, NEW written \in Seq(Frames), NEW q \in Seq(Frames), NEW rows \in Seq(Frames),
         NEW h \in Frames, Matches(damage, written, q, rows)
  PROVE  Matches(damage, written, Append(q, h), Append(rows, h))
  <1>1. written \o Append(q, h) = Append(written \o q, h)
    BY RowQueued
  <1>2. PICK t \in Seq(Frames) : t = written \o q
    BY RowQueued
  <1>3. ToSet(Append(t, h)) = ToSet(t) \cup {h} /\ ToSet(Append(rows, h)) = ToSet(rows) \cup {h}
    BY RowQueued
  <1> QED
    BY <1>1, <1>2, <1>3 DEF Matches

(* The end of a sequence, from m on.                                        *)
LEMMA RestOf ==
  ASSUME NEW S, NEW s \in Seq(S), NEW n \in Nat, n = Len(s), NEW m \in 1..n
  PROVE  /\ SubSeq(s, m, n) \in Seq(S) /\ Len(SubSeq(s, m, n)) = n - m + 1
         /\ \A i \in 1..(n - m + 1) : SubSeq(s, m, n)[i] = s[m + i - 1]
  <1>1. m \in Int /\ n \in Int /\ m <= n /\ \A i \in m..n : s[i] \in S
    OBVIOUS
  <1>2. /\ SubSeq(s, m, n) \in Seq(S)
        /\ Len(SubSeq(s, m, n)) = IF m <= n THEN n - m + 1 ELSE 0
        /\ \A i \in 1..n - m + 1 : SubSeq(s, m, n)[i] = s[m + i - 1]
    BY <1>1, SubSeqProperties
  <1> QED
    BY <1>1, <1>2

(* What is appended is appended to the rest. *)
LEMMA RestAppended ==
  ASSUME NEW S, NEW s \in Seq(S), NEW e \in S, NEW n \in Nat, n = Len(s), NEW m \in 1..n
  PROVE  SubSeq(Append(s, e), m, n + 1) = Append(SubSeq(s, m, n), e)
  <1>1. PICK k \in Nat, l \in Nat : k = n + 1 /\ l = n - m + 1 /\ k - m + 1 = l + 1 /\ m \in 1..k
    OBVIOUS
  <1>2. PICK long \in Seq(S) : long = Append(s, e)
    BY Appended
  <1>3. Len(long) = k /\ long[k] = e /\ \A i \in 1..n : long[i] = s[i]
    BY <1>1, <1>2, Appended
  <1>4. PICK rest \in Seq(S) : rest = SubSeq(s, m, n)
    BY RestOf
  <1>5. Len(rest) = l /\ \A i \in 1..l : rest[i] = s[m + i - 1]
    <2>1. /\ Len(SubSeq(s, m, n)) = n - m + 1
          /\ \A i \in 1..(n - m + 1) : SubSeq(s, m, n)[i] = s[m + i - 1]
      BY RestOf
    <2> QED
      BY <1>1, <1>4, <2>1, Zenon
  <1>6. PICK t \in Seq(S) : t = SubSeq(long, m, k)
    BY <1>1, <1>3, RestOf
  <1>7. Len(t) = l + 1 /\ \A i \in 1..(l + 1) : t[i] = long[m + i - 1]
    <2>1. /\ Len(SubSeq(long, m, k)) = k - m + 1
          /\ \A i \in 1..(k - m + 1) : SubSeq(long, m, k)[i] = long[m + i - 1]
      BY <1>1, <1>3, RestOf
    <2> QED
      BY <1>1, <1>6, <2>1, Zenon
  <1>8. PICK u \in Seq(S) : u = Append(rest, e)
    BY Appended
  <1>9. Len(u) = l + 1 /\ u[l + 1] = e /\ \A i \in 1..l : u[i] = rest[i]
    <2>1. Len(u) = Len(rest) + 1 /\ u[Len(rest) + 1] = e /\ \A i \in 1..Len(rest) : u[i] = rest[i]
      BY <1>8, Appended
    <2> QED
      BY <1>5, <2>1, Zenon
  <1>10. ASSUME NEW i \in 1..(l + 1) PROVE t[i] = u[i]
    <2>1. t[i] = long[m + i - 1]
      BY <1>7
    <2>2. CASE i \in 1..l
      <3>1. m + i - 1 \in 1..n
        BY <1>1, <2>2
      <3>2. u[i] = s[m + i - 1]
        BY <1>5, <1>9, <2>2
      <3> QED
        BY <1>3, <2>1, <3>1, <3>2
    <2>3. CASE i = l + 1
      <3>1. m + i - 1 = k
        BY <1>1, <2>3
      <3> QED
        BY <1>3, <1>9, <2>1, <2>3, <3>1
    <2> QED
      BY <1>1, <2>2, <2>3
  <1>11. t = u
    BY <1>7, <1>9, <1>10, SeqEqual
  <1> QED
    BY <1>1, <1>2, <1>4, <1>6, <1>8, <1>11

(* Recorded, which is kept step by step, is what Expected asks for.         *)
LEMMA RecordedIsExpected ==
  ASSUME NEW s, Recorded(offered[s], asked[s].align, accepted[s]), Len(offered[s]) \in Nat
  PROVE  accepted[s] = Expected(s)
  <1> DEFINE frames == offered[s]
             starts == {k \in 1..Len(frames) : Begins(frames, asked[s].align, k)}
             first  == CHOOSE k \in starts : \A j \in starts : k <= j
  <1>1. Expected(s) = IF starts = {} THEN <<>> ELSE SubSeq(frames, first, Len(frames))
    BY DEF Expected
  <1>2. CASE NoneBegins(frames, asked[s].align) /\ accepted[s] = <<>>
    BY <1>1, <1>2 DEF NoneBegins
  <1>3. ASSUME NEW m \in 1..Len(frames), IsFirst(frames, asked[s].align, m),
               accepted[s] = SubSeq(frames, m, Len(frames))
        PROVE  accepted[s] = Expected(s)
    <2>1. m \in starts /\ \A j \in starts : m <= j
      BY <1>3 DEF IsFirst
    <2>2. first \in starts /\ \A j \in starts : first <= j
      BY <2>1
    <2>3. first = m
      BY <2>1, <2>2
    <2> QED
      BY <1>1, <1>3, <2>1, <2>3
  <1> QED
    BY <1>2, <1>3 DEF Recorded

(* What one more frame does to a recording.                                 *)
LEMMA RecordedAppend ==
  ASSUME NEW fr \in Seq(Frames), NEW f \in Frames, NEW align, NEW rows \in Seq(Frames),
         Recorded(fr, align, rows)
  PROVE  /\ Begins(Append(fr, f), align, Len(fr) + 1) <=>
              align = None \/ (f.step = align /\ \E j \in 1..Len(fr) : fr[j].step # align)
         /\ NoneBegins(Append(fr, f), align) <=>
              NoneBegins(fr, align) /\ ~Begins(Append(fr, f), align, Len(fr) + 1)
         /\ Begins(Append(fr, f), align, Len(fr) + 1) \/ ~NoneBegins(fr, align) =>
              Recorded(Append(fr, f), align, Append(rows, f))
         /\ NoneBegins(Append(fr, f), align) => Recorded(Append(fr, f), align, rows)
  <1> DEFINE now == Begins(Append(fr, f), align, Len(fr) + 1)
  <1> PICK n \in Nat : n = Len(fr)
    BY LenProperties
  <1> PICK fs \in Seq(Frames) : fs = Append(fr, f)
    BY Appended
  <1>1. Len(fs) = n + 1 /\ (\A i \in 1..n : fs[i] = fr[i]) /\ fs[n + 1] = f
    BY Appended
  <1>2. \A k \in 1..n : Begins(fs, align, k) <=> Begins(fr, align, k)
    BY <1>1 DEF Begins
  <1>3. now <=> align = None \/ (f.step = align /\ \E j \in 1..n : fr[j].step # align)
    BY <1>1 DEF Begins
  <1>4. NoneBegins(fs, align) <=> NoneBegins(fr, align) /\ ~now
    BY <1>1, <1>2 DEF NoneBegins
  <1>5. NoneBegins(fs, align) => Recorded(fs, align, rows)
    BY <1>4 DEF Recorded, IsFirst, NoneBegins
  <1>6. ASSUME now, NoneBegins(fr, align) PROVE Recorded(fs, align, Append(rows, f))
    <2>1. rows = <<>>
      BY <1>6 DEF Recorded, IsFirst, NoneBegins
    <2>2. IsFirst(fs, align, n + 1) /\ n + 1 \in 1..Len(fs)
      BY <1>1, <1>2, <1>6, SMTT(30) DEF IsFirst, NoneBegins
    <2>3. SubSeq(fs, n + 1, n + 1) = Append(rows, f)
      <3>1. n + 1 \in Nat /\ n + 1 = Len(fs) /\ n + 1 \in 1..(n + 1)
        BY <1>1
      <3>2. PICK t \in Seq(Frames) : t = SubSeq(fs, n + 1, n + 1)
        BY <3>1, RestOf
      <3>3. Len(t) = 1 /\ t[1] = f
        <4>1. /\ Len(SubSeq(fs, n + 1, n + 1)) = (n + 1) - (n + 1) + 1
              /\ \A i \in 1..((n + 1) - (n + 1) + 1) : SubSeq(fs, n + 1, n + 1)[i] = fs[(n + 1) + i - 1]
          BY <3>1, RestOf
        <4> QED
          BY <1>1, <3>2, <4>1
      <3>4. PICK u \in Seq(Frames) : u = Append(rows, f)
        BY Appended
      <3>5. Len(rows) = 0
        BY <2>1
      <3>6. Len(u) = Len(rows) + 1 /\ u[Len(rows) + 1] = f
        BY <3>4, Appended
      <3>7. Len(u) = 1 /\ u[1] = f
        BY <3>5, <3>6
      <3> QED
        BY <3>2, <3>3, <3>4, <3>7, SeqEqual
    <2> QED
      BY <1>1, <2>2, <2>3 DEF Recorded
  <1>7. ASSUME ~NoneBegins(fr, align) PROVE Recorded(fs, align, Append(rows, f))
    <2>1. PICK m \in 1..n : IsFirst(fr, align, m) /\ rows = SubSeq(fr, m, n)
      BY <1>7 DEF Recorded
    <2>2. IsFirst(fs, align, m) /\ m \in 1..Len(fs)
      BY <1>1, <1>2, <2>1, SMTT(30) DEF IsFirst
    <2>3. SubSeq(fs, m, n + 1) = Append(rows, f)
      BY <2>1, RestAppended
    <2> QED
      BY <1>1, <2>2, <2>3 DEF Recorded
  <1> QED
    BY <1>3, <1>4, <1>5, <1>6, <1>7

(* A frame the gate lets through belongs to the recording.                  *)
LEMMA RowTaken ==
  ASSUME NEW fr \in Seq(Frames), NEW f \in Frames, NEW align, NEW rows \in Seq(Frames),
         Recorded(fr, align, rows),
         \/ align = None \/ ~NoneBegins(fr, align)
         \/ f.step = align /\ \E j \in 1..Len(fr) : fr[j].step # align
  PROVE  /\ Recorded(Append(fr, f), align, Append(rows, f))
         /\ ~NoneBegins(Append(fr, f), align)
  BY RecordedAppend

-----------------------------------------------------------------------------
(* No session is open at the start.                                         *)
LEMMA InitInv == ASSUME Init PROVE IInv
  <1> USE DEF Init
  <1>1. SequencesOK
    BY DEF SequencesOK, Item
  <1>7. SessionOK
    <2>1. asked \in [Sessions -> Requests \cup {[limit |-> 0, align |-> None]}]
      OBVIOUS
    <2>2. 0 \in 0..MaxSessions /\ 0 \in 0..MaxFrames
      BY RecorderAssumption
    <2> QED
      BY <2>1, <2>2 DEF SessionOK
  <1>8. ThreadsOK
    BY DEF ThreadsOK
  <1>9. StreamOK
    BY RecorderAssumption DEF StreamOK
  <1>2. \A s \in Sessions : queue[s] = <<>> /\ file[s] = <<>> /\ offered[s] = <<>> /\ accepted[s] = <<>>
    OBVIOUS
  <1>3. FrameHeld /\ Counted /\ Unused /\ Running /\ WriterFate /\ SentinelIsLast /\ WriterIsToldToEnd
    BY <1>2 DEF FrameHeld, Counted, Unused, Running, WriterFate, SentinelIsLast, WriterIsToldToEnd
  <1>4. FileIsRecording
    BY <1>2 DEF FileIsRecording, RowsOf
  <1>5. AllRecorded
    BY <1>2 DEF AllRecorded, Recorded, NoneBegins
  <1>6. Gated /\ Limited
    BY <1>2 DEF Gated, Limited
  <1> QED
    BY <1>1, <1>3, <1>4, <1>5, <1>6, <1>7, <1>8, <1>9 DEF IInv

(* What a step that touches none of a session's state leaves to be shown. *)
LEMMA SessionsAlone ==
  ASSUME IInv, SessionOK', ThreadsOK', StreamOK', FrameHeld', Counted',
         UNCHANGED <<active, session, gate, sawOther, count, asked,
                     queue, file, writerPc, damaged, offered, accepted>>
  PROVE  IInv'
  <1>1. Unused' /\ Running' /\ WriterFate' /\ SentinelIsLast' /\ WriterIsToldToEnd'
    BY DEF IInv, Unused, Running, WriterFate, SentinelIsLast, WriterIsToldToEnd, Alive
  <1>2. FileIsRecording'
    BY DEF IInv, FileIsRecording
  <1>3. AllRecorded' /\ Gated' /\ Limited'
    BY DEF IInv, AllRecorded, Gated, Limited
  <1>4. SequencesOK'
    BY DEF IInv, SequencesOK
  <1> QED
    BY <1>1, <1>2, <1>3, <1>4 DEF IInv

(* stop puts its sentinel behind everything the session has queued. *)
LEMMA StopInv ==
  ASSUME IInv, NEW c \in Clients, NEW next \in {"join", "start_join"}, StopSection(c, next)
  PROVE  IInv'
  <1> USE DEF IInv
  <1>1. /\ active' = FALSE
        /\ UNCHANGED <<session, gate, sawOther, lastSeq, count, asked, file, writerPc, damaged,
                       reader, frame, emitted, seq, rates, warned, offered, accepted>>
    BY DEF StopSection, readerVars, streamVars, recordVars
  <1>2. FrameHeld' /\ Counted'
    BY <1>1 DEF FrameHeld, Counted
  <1>5. SessionOK' /\ ThreadsOK' /\ StreamOK'
    <2>1. SessionOK'
      <3>1. writer' = 0 /\ 0 \in 0..MaxSessions
        BY RecorderAssumption DEF StopSection
      <3> QED
        BY <1>1, <3>1 DEF SessionOK
    <2>2. ThreadsOK'
      <3>1. writer \in 0..MaxSessions \cup {None}
        BY DEF SessionOK
      <3>2. joining' \in [Clients -> 0..MaxSessions \cup {None}]
        BY <3>1 DEF StopSection, ThreadsOK
      <3>3. pc' \in [Clients -> {"ready", "start_stop", "join", "start_join", "setup"}]
        BY DEF StopSection, ThreadsOK
      <3> QED
        BY <1>1, <3>2, <3>3 DEF ThreadsOK
    <2>3. StreamOK'
      BY <1>1 DEF StreamOK
    <2> QED
      BY <2>1, <2>2, <2>3
  <1>3. CASE ~active
    <2>1. queue' = queue /\ active' = active
      BY <1>1, <1>3 DEF StopSection, SessionOK
    <2> QED
      BY <1>1, <1>2, <1>5, <2>1, SessionsAlone
  <1>4. CASE active
    <2> PICK q \in Seq(Item) : q = queue[session]
      BY <1>4 DEF Running, SequencesOK
    <2>1. session \in Sessions /\ \A i \in 1..Len(q) : q[i] # Stop
      BY <1>4 DEF Running
    <2> PICK r \in Seq(Item) : r = Append(q, Stop)
      BY Appended DEF Item
    <2>2. queue' = [queue EXCEPT ![session] = r]
      BY <1>4 DEF StopSection
    <2>3. /\ Len(r) = Len(q) + 1 /\ r[Len(q) + 1] = Stop /\ Len(q) \in Nat
          /\ \A i \in 1..Len(q) : r[i] = q[i]
          /\ r # <<>> /\ Last(r) = Stop
      BY Appended DEF Item
    <2>4. RowsOf(r) = q /\ RowsOf(q) = q
      <3>1. RowsOf(q) = q
        <4>1. q # <<>> => Len(q) \in 1..Len(q)
          OBVIOUS
        <4> QED
          BY <2>1, <4>1 DEF RowsOf, Last
      <3>2. RowsOf(r) = q
        BY <2>3, Appended DEF RowsOf, Item
      <3> QED
        BY <3>1, <3>2
    <2>5. /\ queue' \in [Sessions -> Seq(Item)] /\ queue'[session] = r
          /\ \A s \in Sessions \ {session} : queue'[s] = queue[s]
      BY <2>1, <2>2 DEF SequencesOK
    <2>6. SequencesOK'
      BY <1>1, <2>5 DEF SequencesOK
    <2>7. Unused' /\ Running' /\ WriterFate'
      <3>1. Unused'
        <4>1. session \in Nat
          BY <2>1 DEF Sessions
        <4> QED
          BY <1>1, <2>5, <4>1 DEF Unused, Sessions
      <3>2. WriterFate'
        BY <1>1, <1>4, <2>5 DEF Running, WriterFate, Alive
      <3> QED
        BY <1>1, <3>1, <3>2 DEF Running
    <2>8. SentinelIsLast' /\ WriterIsToldToEnd'
      <3>1. SentinelIsLast'
        <4> SUFFICES ASSUME NEW s \in Sessions, NEW i \in 1..Len(queue'[s]), queue'[s][i] = Stop
                     PROVE  i = Len(queue'[s])
          BY DEF SentinelIsLast
        <4>1. CASE s = session
          <5>1. i \in 1..Len(q) \/ i = Len(q) + 1
            BY <2>3, <2>5, <4>1
          <5> QED
            BY <2>1, <2>3, <2>5, <4>1, <5>1
        <4>2. CASE s # session
          BY <2>5, <4>2 DEF SentinelIsLast
        <4> QED
          BY <4>1, <4>2
      <3>2. WriterIsToldToEnd'
        BY <1>1, <2>3, <2>5 DEF WriterIsToldToEnd
      <3> QED
        BY <3>1, <3>2
    <2>9. FileIsRecording'
      <3>1. \A s \in Sessions : RowsOf(queue'[s]) = RowsOf(queue[s])
        BY <2>4, <2>5
      <3> QED
        BY <1>1, <3>1 DEF FileIsRecording
    <2>10. AllRecorded' /\ Gated' /\ Limited'
      BY <1>1 DEF AllRecorded, Gated, Limited
    <2> QED
      BY <1>2, <1>5, <2>6, <2>7, <2>8, <2>9, <2>10
  <1> QED
    BY <1>3, <1>4

(* start opens a session with a fresh queue and a writer of its own. *)
LEMMA SetupInv ==
  ASSUME IInv, NEW c \in Clients, NEW request \in Requests, Setup(c, request)
  PROVE  IInv'
  <1> USE DEF IInv
  <1> PICK s \in Nat : s = session + 1
    BY DEF SessionOK
  <1>1. /\ s \in Sessions /\ s > session /\ session \in Nat /\ MaxSessions \in Nat
    BY RecorderAssumption DEF Setup, SessionOK, Sessions
  <1>2. /\ queue[s] = <<>> /\ file[s] = <<>> /\ offered[s] = <<>> /\ accepted[s] = <<>>
        /\ ~damaged[s]
    BY <1>1 DEF Unused, WriterFate
  <1>3. /\ session' = s /\ active' /\ gate' = request.align /\ ~sawOther' /\ lastSeq' = None
        /\ count' = 0 /\ asked' = [asked EXCEPT ![s] = request]
        /\ writerPc' = [writerPc EXCEPT ![s] = "opening"] /\ writer' = s
        /\ UNCHANGED <<queue, file, damaged, joining, reader, frame, emitted, seq, rates,
                       warned, offered, accepted>>
    BY DEF Setup, readerVars, streamVars, recordVars
  <1>4. request.limit \in Nat /\ request.align \in Steps \cup {None}
    BY RecorderAssumption
  <1>5. /\ asked'[s] = request /\ writerPc'[s] = "opening"
        /\ \A t \in Sessions \ {s} : asked'[t] = asked[t] /\ writerPc'[t] = writerPc[t]
    BY <1>1, <1>3 DEF SessionOK, ThreadsOK
  <1>6. SequencesOK' /\ SessionOK' /\ ThreadsOK' /\ StreamOK'
    <2>1. SequencesOK' /\ StreamOK'
      BY <1>3 DEF SequencesOK, StreamOK
    <2>2. SessionOK'
      <3>1. active' \in BOOLEAN /\ sawOther' \in BOOLEAN /\ asked' \in [Sessions -> Requests \cup {[limit |-> 0, align |-> None]}]
        BY <1>1 DEF Setup, SessionOK
      <3>2. s \in 0..MaxSessions /\ 0 \in 0..MaxFrames
        BY <1>1, RecorderAssumption DEF Sessions
      <3> QED
        BY <1>3, <1>4, <3>1, <3>2 DEF SessionOK
    <2>3. ThreadsOK'
      BY <1>3 DEF ThreadsOK, Setup
    <2> QED
      BY <2>1, <2>2, <2>3
  <1>7. FrameHeld' /\ Counted'
    <2>1. count \in Nat /\ emitted \in Nat
      BY DEF SessionOK, StreamOK
    <2> QED
      BY <1>3, <2>1 DEF FrameHeld, Counted
  <1>8. Unused' /\ Running' /\ WriterFate'
    BY <1>1, <1>2, <1>3, <1>5 DEF Unused, Running, WriterFate, Alive, Sessions
  <1>9. SentinelIsLast' /\ WriterIsToldToEnd'
    BY <1>3 DEF SentinelIsLast, WriterIsToldToEnd
  <1>10. FileIsRecording'
    <2>1. \A t \in Sessions : writerPc'[t] = "done" => writerPc[t] = "done"
      BY <1>5
    <2> QED
      BY <1>3, <2>1 DEF FileIsRecording
  <1>11. AllRecorded'
    <2>1. Recorded(offered[s], request.align, accepted[s])
      BY <1>2 DEF Recorded, NoneBegins
    <2> QED
      BY <1>3, <1>5, <2>1 DEF AllRecorded
  <1>12. Gated' /\ Limited'
    BY <1>1, <1>2, <1>3, <1>4, <1>5 DEF Gated, Limited, NoneBegins
  <1> QED
    BY <1>6, <1>7, <1>8, <1>9, <1>10, <1>11, <1>12

(* record holds a frame back. *)
LEMMA WaitsInv ==
  ASSUME IInv, RecordWaits
  PROVE  IInv'
  <1> USE DEF IInv
  <1> PICK fr \in Seq(Frames) : fr = offered[session]
    BY DEF RecordWaits, Running, SequencesOK
  <1> PICK rows \in Seq(Frames) : rows = accepted[session]
    BY DEF RecordWaits, Running, SequencesOK
  <1> PICK fs \in Seq(Frames) : fs = Append(fr, frame)
    BY Appended DEF RecordWaits, FrameHeld
  <1>1. /\ active /\ session \in Sessions /\ reader = "record" /\ frame \in Frames
        /\ gate # None /\ (frame.step # gate \/ ~sawOther)
    BY DEF RecordWaits, Waiting, Running, FrameHeld
  <1>2. /\ UNCHANGED <<active, session, writer, gate, lastSeq, count, asked, queue, file, writerPc,
                       damaged, pc, joining, warned, accepted, emitted, seq, rates>>
        /\ sawOther' = (sawOther \/ frame.step # gate)
        /\ offered' = [offered EXCEPT ![session] = fs]
        /\ reader' = "idle" /\ frame' = None
    BY DEF RecordWaits, Offer, Idle, writerVars, clientVars, streamVars
  <1>3. /\ offered' \in [Sessions -> Seq(Frames)] /\ offered'[session] = fs
        /\ \A s \in Sessions \ {session} : offered'[s] = offered[s]
    BY <1>1, <1>2 DEF SequencesOK
  <1>4. /\ Len(fs) = Len(fr) + 1 /\ fs[Len(fr) + 1] = frame /\ Len(fr) \in Nat
        /\ \A j \in 1..Len(fr) : fs[j] = fr[j]
    BY <1>1, Appended
  <1> PICK align \in Steps \cup {None} : align = asked[session].align
    BY <1>1, RecorderAssumption DEF SessionOK
  <1>5. /\ gate = align /\ NoneBegins(fr, align)
        /\ sawOther <=> \E j \in 1..Len(fr) : fr[j].step # align
    BY <1>1 DEF Gated
  <1>6. Recorded(fr, align, rows)
    BY <1>1 DEF AllRecorded
  <1>7. NoneBegins(fs, align) /\ Recorded(fs, align, rows)
    <2>1. ~Begins(fs, align, Len(fr) + 1)
      BY <1>1, <1>5, <1>6, RecordedAppend
    <2> QED
      BY <1>1, <1>5, <1>6, <2>1, RecordedAppend
  <1>8. sawOther' <=> \E j \in 1..Len(fs) : fs[j].step # align
    <2>1. sawOther' <=> sawOther \/ frame.step # align
      BY <1>2, <1>5
    <2>2. \A j \in 1..Len(fs) : j \in 1..Len(fr) \/ j = Len(fr) + 1
      BY <1>4
    <2>3. Len(fr) + 1 \in 1..Len(fs) /\ \A j \in 1..Len(fr) : j \in 1..Len(fs)
      BY <1>4
    <2> QED
      BY <1>4, <1>5, <2>1, <2>2, <2>3
  <1>9. SequencesOK' /\ FrameHeld' /\ Counted'
    <2>1. count \in Nat /\ emitted \in Nat
      BY DEF SessionOK, StreamOK
    <2>2. FrameHeld' /\ Counted'
      BY <1>1, <1>2, <2>1 DEF FrameHeld, Counted
    <2>3. SequencesOK'
      BY <1>2, <1>3 DEF SequencesOK
    <2> QED
      BY <2>2, <2>3
  <1>14. SessionOK' /\ ThreadsOK' /\ StreamOK'
    <2>1. sawOther' \in BOOLEAN
      BY <1>2 DEF SessionOK
    <2> QED
      BY <1>2, <2>1 DEF SessionOK, ThreadsOK, StreamOK
  <1>10. Unused' /\ Running' /\ WriterFate' /\ SentinelIsLast' /\ WriterIsToldToEnd'
    BY <1>1, <1>2, <1>3 DEF Unused, Running, WriterFate, SentinelIsLast, WriterIsToldToEnd, Alive, Sessions, SessionOK
  <1>11. FileIsRecording'
    BY <1>2 DEF FileIsRecording
  <1>12. AllRecorded'
    BY <1>1, <1>2, <1>3, <1>7 DEF AllRecorded
  <1>13. Gated' /\ Limited'
    BY <1>1, <1>2, <1>3, <1>5, <1>7, <1>8 DEF Gated, Limited
  <1> QED
    BY <1>9, <1>10, <1>11, <1>12, <1>13, <1>14

(* record takes a row, and ends the session when its limit is reached. *)
LEMMA RecordInv ==
  ASSUME IInv, Record
  PROVE  IInv'
  <1> USE DEF IInv
  <1>1. /\ active /\ session \in Sessions /\ reader = "record" /\ frame \in Frames
        /\ gate = None \/ (frame.step = gate /\ sawOther)
        /\ Alive(session)
    BY DEF Record, Waiting, Running, FrameHeld
  <1> PICK fr \in Seq(Frames) : fr = offered[session]
    BY <1>1 DEF SequencesOK
  <1> PICK rows \in Seq(Frames) : rows = accepted[session]
    BY <1>1 DEF SequencesOK
  <1> PICK written \in Seq(Frames) : written = file[session]
    BY <1>1 DEF SequencesOK
  <1> PICK q \in Seq(Item) : q = queue[session]
    BY <1>1 DEF SequencesOK
  <1> PICK limit \in Nat, align \in Steps \cup {None} :
        limit = asked[session].limit /\ align = asked[session].align
    BY <1>1, RecorderAssumption DEF SessionOK
  <1> DEFINE hit == limit > 0 /\ count + 1 >= limit
  <1>20. PICK fs \in Seq(Frames) : fs = Append(fr, frame)
    BY <1>1, Appended
  <1>21. PICK taken \in Seq(Frames) : taken = Append(rows, frame)
    BY <1>1, Appended
  <1>2. /\ \A i \in 1..Len(q) : q[i] # Stop
        /\ q \in Seq(Frames) /\ RowsOf(q) = q
        /\ Append(q, frame) \in Seq(Item) /\ \A i \in 1..Len(Append(q, frame)) : Append(q, frame)[i] # Stop
    <2>1. \A i \in 1..Len(q) : q[i] # Stop
      BY <1>1 DEF Running
    <2> QED
      BY <1>1, <2>1, RowsAppended
  <1>22. PICK qf \in Seq(Item) : qf = Append(q, frame)
    BY <1>2
  <1>3. /\ qf \in Seq(Frames) /\ RowsOf(qf) = qf /\ RowsOf(Append(qf, Stop)) = qf
        /\ \A i \in 1..Len(qf) : qf[i] # Stop
    <2>1. PICK h \in Frames : h = frame
      BY <1>1
    <2>2. qf = Append(q, h)
      BY <1>22, <2>1
    <2>3. \A i \in 1..Len(qf) : qf[i] # Stop
      BY <1>2, <1>22
    <2>4. /\ RowsOf(qf) = qf /\ RowsOf(Append(qf, Stop)) = qf /\ qf \in Seq(Frames)
      BY <2>1, <2>3, RowsAppended
    <2> QED
      BY <2>3, <2>4
  <1>23. PICK r \in Seq(Item) : r = IF hit THEN Append(qf, Stop) ELSE qf
    BY Appended DEF Item
  <1>4. /\ count \in Nat /\ count = Len(rows) /\ emitted \in 0..MaxFrames /\ count + 1 <= emitted
        /\ limit > 0 => count < limit
    BY <1>1 DEF Limited, SessionOK, StreamOK, Counted
  <1>5. /\ UNCHANGED <<session, writer, sawOther, asked, file, writerPc, damaged, pc, joining,
                       emitted, seq, rates>>
        /\ gate' = None /\ lastSeq' = frame.seq /\ count' = count + 1 /\ active' = ~hit
        /\ warned' \in [Sessions -> BOOLEAN]
        /\ queue' = [queue EXCEPT ![session] = r]
        /\ offered' = [offered EXCEPT ![session] = fs]
        /\ accepted' = [accepted EXCEPT ![session] = taken]
        /\ reader' = "idle" /\ frame' = None
    <2>1. warned' \in [Sessions -> BOOLEAN]
      <3>1. warned \in [Sessions -> BOOLEAN]
        BY DEF ThreadsOK
      <3> QED
        BY <3>1 DEF Record
    <2>2. queue' = [queue EXCEPT ![session] = r]
      BY <1>22, <1>23 DEF Record
    <2> QED
      BY <1>20, <1>21, <2>1, <2>2 DEF Record, Offer, Idle, clientVars, streamVars
  <1>6. /\ queue' \in [Sessions -> Seq(Item)] /\ queue'[session] = r
        /\ offered' \in [Sessions -> Seq(Frames)] /\ offered'[session] = fs
        /\ accepted' \in [Sessions -> Seq(Frames)] /\ accepted'[session] = taken
        /\ \A s \in Sessions \ {session} : /\ queue'[s] = queue[s] /\ offered'[s] = offered[s]
                                           /\ accepted'[s] = accepted[s]
    BY <1>1, <1>5 DEF SequencesOK
  <1>7. SequencesOK' /\ SessionOK' /\ ThreadsOK' /\ StreamOK' /\ FrameHeld' /\ Counted'
    <2>1. SequencesOK'
      BY <1>5, <1>6 DEF SequencesOK
    <2>2. lastSeq' \in 0..SeqModulus - 1 /\ count' \in 0..MaxFrames
      <3>1. frame.seq \in 0..SeqModulus - 1
        BY <1>1 DEF Frames
      <3>2. count + 1 \in 0..MaxFrames
        BY <1>4, RecorderAssumption, SMTT(30)
      <3> QED
        BY <1>5, <3>1, <3>2
    <2>3. SessionOK'
      BY <1>5, <2>2 DEF SessionOK
    <2>4. ThreadsOK'
      BY <1>5 DEF ThreadsOK
    <2>5. StreamOK' /\ FrameHeld' /\ Counted'
      BY <1>4, <1>5 DEF StreamOK, FrameHeld, Counted
    <2> QED
      BY <2>1, <2>3, <2>4, <2>5
  <1>8. Unused'
    <2>1. session \in Nat
      BY <1>1 DEF Sessions
    <2> QED
      BY <1>5, <1>6, <2>1 DEF Unused, Sessions
  <1>9. WriterFate'
    BY <1>1, <1>5, <1>6 DEF WriterFate, Alive
  <1>10. Running' /\ WriterIsToldToEnd'
    <2>1. CASE hit
      <3>2. PICK e \in Item : e = Stop
        BY DEF Item
      <3>3. Append(qf, e) # <<>> /\ Last(Append(qf, e)) = e
        BY Appended
      <3>1. r # <<>> /\ Last(r) = Stop
        BY <1>23, <2>1, <3>2, <3>3
      <3> QED
        BY <1>5, <1>6, <2>1, <3>1 DEF Running, WriterIsToldToEnd
    <2>2. CASE ~hit
      BY <1>1, <1>3, <1>5, <1>6, <1>23, <2>2 DEF Running, WriterIsToldToEnd, Alive
    <2> QED
      BY <2>1, <2>2
  <1>11. SentinelIsLast'
    <2> SUFFICES ASSUME NEW s \in Sessions, NEW i \in 1..Len(queue'[s]), queue'[s][i] = Stop
                 PROVE  i = Len(queue'[s])
      BY DEF SentinelIsLast
    <2>1. CASE s = session /\ hit
      <3>1. /\ Len(qf) \in Nat /\ Len(r) = Len(qf) + 1
            /\ \A j \in 1..Len(qf) : r[j] = qf[j]
        BY <1>23, <2>1, Appended DEF Item
      <3>2. i \in 1..Len(qf) \/ i = Len(r)
        BY <1>6, <2>1, <3>1
      <3> QED
        BY <1>3, <1>6, <1>23, <2>1, <3>1, <3>2
    <2>2. CASE s = session /\ ~hit
      BY <1>3, <1>6, <1>23, <2>2
    <2>3. CASE s # session
      BY <1>6, <2>3 DEF SentinelIsLast
    <2> QED
      BY <2>1, <2>2, <2>3
  <1>12. FileIsRecording'
    <2> SUFFICES ASSUME NEW s \in Sessions
                 PROVE  IF damaged[s]
                          THEN ToSet(file[s] \o RowsOf(queue'[s])) \subseteq ToSet(accepted'[s])
                          ELSE /\ file[s] \o RowsOf(queue'[s]) = accepted'[s]
                               /\ writerPc[s] = "done" => file[s] = accepted'[s]
      BY <1>5 DEF FileIsRecording
    <2>1. CASE s # session
      BY <1>6, <2>1 DEF FileIsRecording
    <2>2. CASE s = session
      <3>1. RowsOf(queue'[s]) = qf
        BY <1>3, <1>6, <1>23, <2>2
      <3>2. Matches(damaged[s], written, q, rows)
        BY <1>2, <2>2 DEF FileIsRecording, Matches
      <3>3. Matches(damaged[s], written, qf, taken)
        <4>1. PICK h \in Frames : h = frame
          BY <1>1
        <4>2. PICK p \in Seq(Frames) : p = q
          BY <1>2
        <4>3. Matches(damaged[s], written, Append(p, h), Append(rows, h))
          BY <3>2, <4>2, RowMatches
        <4> QED
          BY <1>21, <1>22, <4>1, <4>2, <4>3
      <3>4. writerPc[s] # "done"
        BY <1>1, <2>2 DEF Alive
      <3> QED
        BY <1>6, <2>2, <3>1, <3>3, <3>4 DEF Matches
    <2> QED
      BY <2>1, <2>2
  <1>13. Recorded(fr, align, rows)
    BY <1>1 DEF AllRecorded
  <1>14. Recorded(fs, align, taken) /\ (align = None \/ ~NoneBegins(fs, align))
    <2>1. \/ align = None \/ ~NoneBegins(fr, align)
          \/ frame.step = align /\ \E j \in 1..Len(fr) : fr[j].step # align
      BY <1>1 DEF Gated
    <2>2. PICK h \in Frames : h = frame
      BY <1>1
    <2>3. Recorded(Append(fr, h), align, Append(rows, h)) /\ ~NoneBegins(Append(fr, h), align)
      BY <1>13, <2>1, <2>2, RowTaken
    <2> QED
      BY <1>20, <1>21, <2>2, <2>3
  <1>15. AllRecorded'
    BY <1>5, <1>6, <1>14 DEF AllRecorded
  <1>16. Gated'
    BY <1>5, <1>6, <1>14 DEF Gated
  <1>17. Limited'
    <2>1. Len(taken) = count + 1 /\ (limit > 0 => count + 1 <= limit)
      BY <1>1, <1>4, <1>21, Appended
    <2>2. \A s \in Sessions : asked[s].limit > 0 => Len(accepted'[s]) <= asked[s].limit
      BY <1>6, <2>1 DEF Limited
    <2>3. ~hit /\ limit > 0 => count + 1 < limit
      BY <1>4
    <2> QED
      BY <1>5, <1>6, <2>1, <2>2, <2>3 DEF Limited
  <1> QED
    BY <1>7, <1>8, <1>9, <1>10, <1>11, <1>12, <1>15, <1>16, <1>17

(* The writer opens its file, or finds that it cannot. *)
LEMMA OpenInv ==
  ASSUME IInv, NEW s \in Sessions, OpenFile(s)
  PROVE  IInv'
  <1> USE DEF IInv
  <1>1. PICK ok \in BOOLEAN :
          /\ writerPc' = [writerPc EXCEPT ![s] = IF ok THEN "writing" ELSE "draining"]
          /\ damaged' = [damaged EXCEPT ![s] = ~ok]
    BY DEF OpenFile
  <1>2. /\ writerPc[s] = "opening"
        /\ UNCHANGED <<active, session, writer, gate, sawOther, lastSeq, count, asked, queue, file,
                       pc, joining, reader, frame, emitted, seq, rates, warned, offered, accepted>>
    BY DEF OpenFile, sessionVars, clientVars, readerVars, streamVars, recordVars
  <1>3. /\ writerPc'[s] = (IF ok THEN "writing" ELSE "draining") /\ damaged'[s] = ~ok
        /\ \A t \in Sessions \ {s} : writerPc'[t] = writerPc[t] /\ damaged'[t] = damaged[t]
    BY <1>1 DEF ThreadsOK
  <1>4. ThreadsOK'
    BY <1>1, <1>2 DEF ThreadsOK
  <1>5. SequencesOK' /\ SessionOK' /\ StreamOK' /\ FrameHeld' /\ Counted'
    BY <1>2 DEF SequencesOK, SessionOK, StreamOK, FrameHeld, Counted
  <1>6. Unused' /\ WriterFate'
    BY <1>2, <1>3 DEF Unused, WriterFate
  <1>7. Running' /\ WriterIsToldToEnd' /\ SentinelIsLast'
    <2>1. \A t \in Sessions : Alive(t)' <=> Alive(t)
      BY <1>2, <1>3 DEF Alive
    <2>2. Running' /\ SentinelIsLast'
      BY <1>2, <2>1 DEF Running, SentinelIsLast
    <2>3. session # 0 => session \in Sessions
      BY RecorderAssumption DEF SessionOK, Sessions
    <2>4. WriterIsToldToEnd'
      BY <1>2, <2>1, <2>3 DEF WriterIsToldToEnd
    <2> QED
      BY <2>2, <2>4
  <1>8. FileIsRecording'
    <2> SUFFICES ASSUME NEW t \in Sessions
                 PROVE  IF damaged'[t]
                          THEN ToSet(file[t] \o RowsOf(queue[t])) \subseteq ToSet(accepted[t])
                          ELSE /\ file[t] \o RowsOf(queue[t]) = accepted[t]
                               /\ writerPc'[t] = "done" => file[t] = accepted[t]
      BY <1>2 DEF FileIsRecording
    <2>1. CASE t = s
      <3>1. file[t] \o RowsOf(queue[t]) = accepted[t] /\ writerPc'[t] # "done"
        BY <1>2, <1>3, <2>1 DEF FileIsRecording, WriterFate
      <3> QED
        BY <3>1
    <2>2. CASE t # s
      BY <1>3, <2>2 DEF FileIsRecording
    <2> QED
      BY <2>1, <2>2
  <1>9. AllRecorded' /\ Gated' /\ Limited'
    BY <1>2 DEF AllRecorded, Gated, Limited
  <1> QED
    BY <1>4, <1>5, <1>6, <1>7, <1>8, <1>9

(* The writer takes an item: the sentinel, or a row for its file. *)
LEMMA TakeInv ==
  ASSUME IInv, NEW s \in Sessions, TakeItem(s)
  PROVE  IInv'
  <1> USE DEF IInv
  <1> PICK q \in Seq(Item) : q = queue[s]
    BY DEF SequencesOK
  <1> PICK written \in Seq(Frames) : written = file[s]
    BY DEF SequencesOK
  <1>1. /\ q # <<>> /\ writerPc[s] \in {"writing", "draining"}
        /\ \A i \in 1..Len(q) : q[i] = Stop => i = Len(q)
    BY DEF TakeItem, SentinelIsLast
  <1>2. /\ Head(q) \in Item /\ Tail(q) \in Seq(Item)
        /\ \A i \in 1..Len(Tail(q)) : Tail(q)[i] = Stop => i = Len(Tail(q))
        /\ Head(q) = Stop => Tail(q) = <<>> /\ RowsOf(q) = <<>>
        /\ Head(q) # Stop => /\ Head(q) \in Frames /\ RowsOf(Tail(q)) \in Seq(Frames)
                             /\ RowsOf(q) = <<Head(q)>> \o RowsOf(Tail(q))
        /\ RowsOf(Tail(q)) \in Seq(Frames) /\ RowsOf(q) \in Seq(Frames)
        /\ \A i \in 1..Len(Tail(q)) : Tail(q)[i] = q[i + 1]
        /\ Last(q) = Stop /\ Head(q) # Stop => Tail(q) # <<>> /\ Last(Tail(q)) = Stop
    BY <1>1, RowsTaken
  <1> PICK item \in Item : item = Head(q)
    BY <1>2
  <1> PICK rest \in Seq(Item) : rest = Tail(q)
    BY <1>2
  <1>3. PICK ok \in BOOLEAN :
          /\ file' = IF item # Stop /\ writerPc[s] = "writing" /\ ok
                       THEN [file EXCEPT ![s] = Append(written, item)] ELSE file
          /\ damaged' = [damaged EXCEPT ![s] = damaged[s] \/ (item # Stop /\ ~ok)]
    BY DEF TakeItem
  <1>4. /\ queue' = [queue EXCEPT ![s] = rest]
        /\ writerPc' = IF item = Stop THEN [writerPc EXCEPT ![s] = "done"] ELSE writerPc
        /\ UNCHANGED <<active, session, writer, gate, sawOther, lastSeq, count, asked,
                       pc, joining, reader, frame, emitted, seq, rates, warned, offered, accepted>>
    BY DEF TakeItem, sessionVars, clientVars, readerVars, streamVars, recordVars
  <1>5. /\ queue' \in [Sessions -> Seq(Item)] /\ queue'[s] = rest
        /\ \A t \in Sessions \ {s} : queue'[t] = queue[t]
    BY <1>4 DEF SequencesOK
  <1>6. /\ writerPc'[s] = (IF item = Stop THEN "done" ELSE writerPc[s])
        /\ \A t \in Sessions \ {s} : writerPc'[t] = writerPc[t] /\ damaged'[t] = damaged[t]
        /\ damaged'[s] <=> damaged[s] \/ (item # Stop /\ ~ok)
        /\ damaged[s] \in BOOLEAN
    BY <1>3, <1>4 DEF ThreadsOK
  <1>7. ThreadsOK'
    <2>1. writerPc' \in [Sessions -> {"none", "opening", "writing", "draining", "done"}]
      BY <1>4 DEF ThreadsOK
    <2>2. damaged' \in [Sessions -> BOOLEAN]
      BY <1>3, <1>6 DEF ThreadsOK
    <2> QED
      BY <1>4, <2>1, <2>2 DEF ThreadsOK
  <1>8. /\ file' \in [Sessions -> Seq(Frames)]
        /\ file'[s] = IF item # Stop /\ writerPc[s] = "writing" /\ ok
                        THEN Append(written, item) ELSE written
        /\ \A t \in Sessions \ {s} : file'[t] = file[t]
    <2>1. CASE item # Stop /\ writerPc[s] = "writing" /\ ok
      <3>1. PICK a \in Seq(Frames) : a = Append(written, item)
        BY <1>2, <2>1, Appended
      <3>2. file' = [file EXCEPT ![s] = a]
        BY <1>3, <2>1, <3>1
      <3> QED
        BY <2>1, <3>1, <3>2 DEF SequencesOK
    <2>2. CASE ~(item # Stop /\ writerPc[s] = "writing" /\ ok)
      BY <1>3, <2>2 DEF SequencesOK
    <2> QED
      BY <2>1, <2>2
  <1>9. SequencesOK'
    BY <1>4, <1>5, <1>8 DEF SequencesOK
  <1>10. SessionOK' /\ StreamOK' /\ FrameHeld' /\ Counted'
    BY <1>4 DEF SessionOK, StreamOK, FrameHeld, Counted
  <1>11. Unused'
    <2>1. ~(s > session)
      BY <1>1 DEF Unused
    <2> QED
      BY <1>4, <1>5, <1>6, <1>8, <2>1 DEF Unused
  <1>12. WriterFate'
    <2> SUFFICES ASSUME NEW t \in Sessions
                 PROVE  /\ writerPc'[t] \in {"none", "opening"} => ~damaged'[t]
                        /\ writerPc'[t] = "draining" => damaged'[t]
                        /\ writerPc'[t] = "done" => queue'[t] = <<>>
      BY DEF WriterFate
    <2>1. CASE t # s
      BY <1>5, <1>6, <2>1 DEF WriterFate
    <2>2. CASE t = s /\ item = Stop
      BY <1>2, <1>5, <1>6, <2>2
    <2>3. CASE t = s /\ item # Stop
      <3>1. writerPc[s] = "draining" => damaged[s]
        BY DEF WriterFate
      <3> QED
        BY <1>1, <1>6, <2>3, <3>1
    <2> QED
      BY <2>1, <2>2, <2>3
  <1>13. SentinelIsLast'
    <2>1. \A i \in 1..Len(rest) : rest[i] = Stop => i = Len(rest)
      BY <1>2
    <2> QED
      BY <1>5, <2>1 DEF SentinelIsLast
  <1>14. Running'
    <2>1. CASE active /\ s = session
      <3>1. item # Stop /\ \A i \in 1..Len(rest) : rest[i] # Stop
        <4>1. \A i \in 1..Len(q) : q[i] # Stop
          BY <2>1 DEF Running
        <4>2. /\ Len(q) \in Nat /\ 1 \in 1..Len(q) /\ Head(q) = q[1]
              /\ \A i \in 1..Len(rest) : i + 1 \in 1..Len(q)
          BY <1>1, HeadTailProperties
        <4> QED
          BY <1>2, <4>1, <4>2
      <3> QED
        BY <1>4, <1>5, <1>6, <2>1, <3>1 DEF Running, Alive
    <2>2. CASE active /\ s # session
      BY <1>4, <1>5, <1>6, <2>2 DEF Running, Alive
    <2>3. CASE ~active
      BY <1>4, <2>3 DEF Running
    <2> QED
      BY <2>1, <2>2, <2>3
  <1>15. WriterIsToldToEnd'
    <2>1. session # 0 => session \in Sessions
      BY RecorderAssumption DEF SessionOK, Sessions
    <2>2. CASE s = session
      BY <1>1, <1>2, <1>4, <1>5, <1>6, <2>2 DEF WriterIsToldToEnd, Alive
    <2>3. CASE s # session
      BY <1>4, <1>5, <1>6, <2>1, <2>3 DEF WriterIsToldToEnd, Alive
    <2> QED
      BY <2>2, <2>3
  <1>16. FileIsRecording'
    <2> SUFFICES ASSUME NEW t \in Sessions
                 PROVE  IF damaged'[t]
                          THEN ToSet(file'[t] \o RowsOf(queue'[t])) \subseteq ToSet(accepted[t])
                          ELSE /\ file'[t] \o RowsOf(queue'[t]) = accepted[t]
                               /\ writerPc'[t] = "done" => file'[t] = accepted[t]
      BY <1>4 DEF FileIsRecording
    <2>1. CASE t # s
      BY <1>5, <1>6, <1>8, <2>1 DEF FileIsRecording
    <2>2. IF damaged[s]
            THEN ToSet(written \o RowsOf(q)) \subseteq ToSet(accepted[s])
            ELSE written \o RowsOf(q) = accepted[s]
      BY DEF FileIsRecording
    <2>3. CASE t = s /\ item = Stop
      <3>1. RowsOf(q) = <<>> /\ RowsOf(rest) = <<>>
        BY <1>2, <2>3 DEF RowsOf
      <3>2. written \o <<>> = written
        BY ConcatEmptySeq
      <3> QED
        BY <1>5, <1>6, <1>8, <2>2, <2>3, <3>1, <3>2
    <2>4. CASE t = s /\ item # Stop
      <3>1. PICK h \in Frames : h = item
        BY <1>2, <2>4
      <3>2. PICK rows \in Seq(Frames) : rows = RowsOf(rest)
        BY <1>2
      <3>3. RowsOf(q) = <<h>> \o rows
        BY <1>2, <2>4, <3>1, <3>2
      <3>4. /\ Append(written, h) \o rows = written \o (<<h>> \o rows)
            /\ ToSet(written \o rows) \subseteq ToSet(written \o (<<h>> \o rows))
        BY RowMoves
      <3>5. writerPc'[s] # "done" /\ (writerPc[s] = "draining" => damaged[s])
        BY <1>1, <1>6, <2>4 DEF WriterFate
      <3>6. CASE writerPc[s] = "writing" /\ ok
        BY <1>5, <1>6, <1>8, <2>2, <2>4, <3>1, <3>2, <3>3, <3>4, <3>5, <3>6
      <3>7. CASE ~(writerPc[s] = "writing" /\ ok)
        <4>1. damaged'[s] /\ file'[s] = written
          BY <1>1, <1>6, <1>8, <2>4, <3>5, <3>7
        <4>2. ToSet(written \o rows) \subseteq ToSet(accepted[s])
          BY <2>2, <3>3, <3>4
        <4> QED
          BY <1>5, <2>4, <3>2, <4>1, <4>2
      <3> QED
        BY <3>6, <3>7
    <2> QED
      BY <2>1, <2>3, <2>4
  <1>17. AllRecorded' /\ Gated' /\ Limited'
    BY <1>4 DEF AllRecorded, Gated, Limited
  <1> QED
    BY <1>7, <1>9, <1>10, <1>11, <1>12, <1>13, <1>14, <1>15, <1>16, <1>17

-----------------------------------------------------------------------------
(* Every step keeps the invariant.                                          *)
LEMMA NextInv == ASSUME IInv, [Next]_vars PROVE IInv'
  <1> USE DEF IInv
  <1> DEFINE Alone == UNCHANGED <<active, session, gate, sawOther, count, asked,
                                  queue, file, writerPc, damaged, offered, accepted>>
             Kept  == UNCHANGED <<lastSeq, writer, warned>>
  <1>1. ASSUME NEW c \in Clients, StartCall(c) PROVE IInv'
    <2>1. Alone /\ Kept /\ UNCHANGED <<joining, reader, frame, emitted, seq, rates>>
      BY <1>1 DEF StartCall, sessionVars, writerVars, readerVars, streamVars, recordVars
    <2>2. pc' \in [Clients -> {"ready", "start_stop", "join", "start_join", "setup"}]
      BY <1>1 DEF StartCall, ThreadsOK
    <2> QED
      BY <2>1, <2>2, SessionsAlone DEF SessionOK, ThreadsOK, StreamOK, FrameHeld, Counted
  <1>2. ASSUME NEW c \in Clients, StopCall(c) \/ StopInStart(c) PROVE IInv'
    BY <1>2, StopInv DEF StopCall, StopInStart
  <1>3. ASSUME NEW c \in Clients, Join(c) PROVE IInv'
    <2>1. Alone /\ Kept /\ UNCHANGED <<reader, frame, emitted, seq, rates>>
      BY <1>3 DEF Join, sessionVars, writerVars, readerVars, streamVars, recordVars
    <2>2. /\ pc' \in [Clients -> {"ready", "start_stop", "join", "start_join", "setup"}]
          /\ joining' \in [Clients -> 0..MaxSessions \cup {None}]
      BY <1>3 DEF Join, ThreadsOK
    <2> QED
      BY <2>1, <2>2, SessionsAlone DEF SessionOK, ThreadsOK, StreamOK, FrameHeld, Counted
  <1>4. ASSUME NEW c \in Clients, NEW request \in Requests, Setup(c, request) PROVE IInv'
    BY <1>4, SetupInv
  <1>5. NextSeq \in 0..SeqModulus - 1
    BY RecorderAssumption DEF NextSeq, StreamOK
  <1>6. ASSUME Emit PROVE emitted' = emitted + 1 /\ emitted' \in 1..MaxFrames /\ seq' = NextSeq /\ rates' = rates
    BY <1>6, RecorderAssumption DEF Emit, StreamOK
  <1>7. CASE LoseFrame
    <2>1. Alone /\ Kept /\ UNCHANGED <<pc, joining, reader, frame>>
      BY <1>7 DEF LoseFrame, sessionVars, writerVars, clientVars, readerVars, recordVars
    <2>2. emitted' = emitted + 1 /\ emitted' \in 0..MaxFrames /\ seq' \in 0..SeqModulus - 1 /\ rates' = rates
      BY <1>5, <1>6, <1>7 DEF LoseFrame
    <2>3. SessionOK' /\ ThreadsOK' /\ StreamOK' /\ FrameHeld'
      BY <2>1, <2>2 DEF SessionOK, ThreadsOK, StreamOK, FrameHeld
    <2>4. Counted'
      BY <2>1, <2>2 DEF Counted, SessionOK, StreamOK
    <2> QED
      BY <2>1, <2>3, <2>4, SessionsAlone
  <1>8. CASE SetRate
    <2>1. Alone /\ Kept /\ UNCHANGED <<pc, joining, reader, frame, emitted>>
      BY <1>8 DEF SetRate, sessionVars, writerVars, clientVars, readerVars, recordVars
    <2>2. seq' \in 0..SeqModulus - 1 /\ rates' \in 0..MaxRates
      BY <1>8, RecorderAssumption DEF SetRate, StreamOK
    <2> QED
      BY <2>1, <2>2, SessionsAlone DEF SessionOK, ThreadsOK, StreamOK, FrameHeld, Counted
  <1>9. ASSUME NEW step \in Steps, SensorTick(step) PROVE IInv'
    <2>1. Alone /\ Kept /\ UNCHANGED <<pc, joining>>
      BY <1>9 DEF SensorTick, sessionVars, writerVars, clientVars, recordVars
    <2>2. emitted' = emitted + 1 /\ emitted' \in 1..MaxFrames /\ seq' \in 0..SeqModulus - 1 /\ rates' = rates
      BY <1>5, <1>6, <1>9 DEF SensorTick
    <2>3. [n |-> emitted + 1, rate |-> rates, seq |-> NextSeq, step |-> step] \in Frames
      BY <1>5, <2>2 DEF Frames, StreamOK
    <2>4. /\ reader' \in {"idle", "record"} /\ frame' \in Frames \cup {None}
          /\ reader' = "record" => frame' \in Frames
      BY <1>9, <2>3 DEF SensorTick
    <2>5. SessionOK' /\ ThreadsOK' /\ StreamOK' /\ FrameHeld'
      BY <2>1, <2>2, <2>4 DEF SessionOK, ThreadsOK, StreamOK, FrameHeld
    <2>6. Counted'
      <3>1. count <= emitted /\ count \in Nat /\ emitted \in Nat
        BY DEF Counted, SessionOK, StreamOK
      <3> QED
        BY <2>1, <2>2, <3>1 DEF Counted
    <2> QED
      BY <2>1, <2>5, <2>6, SessionsAlone
  <1>10. CASE RecordInactive
    <2>1. /\ Alone /\ Kept /\ UNCHANGED <<pc, joining, emitted, seq, rates>>
          /\ reader' = "idle" /\ frame' = None
      BY <1>10 DEF RecordInactive, Idle, sessionVars, writerVars, clientVars, streamVars, recordVars
    <2>2. SessionOK' /\ ThreadsOK' /\ StreamOK' /\ FrameHeld'
      BY <2>1 DEF SessionOK, ThreadsOK, StreamOK, FrameHeld
    <2>3. Counted'
      BY <2>1 DEF Counted, SessionOK, StreamOK
    <2> QED
      BY <2>1, <2>2, <2>3, SessionsAlone
  <1>11. CASE RecordWaits
    BY <1>11, WaitsInv
  <1>12. CASE Record
    BY <1>12, RecordInv
  <1>13. ASSUME NEW s \in Sessions, Writer(s) PROVE IInv'
    BY <1>13, OpenInv, TakeInv DEF Writer
  <1>14. CASE UNCHANGED vars
    <2>1. Alone /\ Kept /\ UNCHANGED <<pc, joining, reader, frame, emitted, seq, rates>>
      BY <1>14 DEF vars, sessionVars, writerVars, clientVars, readerVars, streamVars, recordVars
    <2> QED
      BY <2>1, SessionsAlone DEF SessionOK, ThreadsOK, StreamOK, FrameHeld, Counted
  <1> QED
    BY <1>1, <1>2, <1>3, <1>4, <1>7, <1>8, <1>9, <1>10, <1>11, <1>12, <1>13, <1>14
    DEF Next, Client, Reader

(* What holds between any two steps of the clients, the reader and the      *)
(* writers: a session that records has a writer and no sentinel, one that   *)
(* is over has its sentinel queued last, and the gate and the counter are   *)
(* those of the frames offered (recorder.py).                               *)
THEOREM Invariance == Spec => []IInv
  BY InitInv, NextInv, PTL DEF Spec

(* Every variable keeps its type; in particular the frames counted against  *)
(* a limit are never more than the firmware has emitted.                    *)
THEOREM TypeCorrect == Spec => []TypeOK
  <1>1. IInv => TypeOK
    BY TypeParts DEF IInv
  <1> QED
    BY <1>1, Invariance, PTL

(* A session's file and queue are what record accepted for it.              *)
THEOREM FileSafe == Spec => []FileIsRecording
  <1>1. IInv => FileIsRecording
    BY DEF IInv
  <1> QED
    BY <1>1, Invariance, PTL

(* Nothing is queued behind a sentinel.                                     *)
THEOREM SentinelSafe == Spec => []SentinelIsLast
  <1>1. IInv => SentinelIsLast
    BY DEF IInv
  <1> QED
    BY <1>1, Invariance, PTL

(* The rows recorded are those from the transition into the asked step on,  *)
(* none is skipped, and they are no more than the limit.                    *)
THEOREM RecordsFromTransition == Spec => []RecordingIsContiguous
  <1>1. IInv => RecordingIsContiguous
    <2> SUFFICES ASSUME IInv, NEW s \in Sessions
                 PROVE  /\ accepted[s] = Expected(s)
                        /\ asked[s].limit > 0 => Len(accepted[s]) <= asked[s].limit
      BY DEF RecordingIsContiguous
    <2>1. Len(offered[s]) \in Nat /\ Recorded(offered[s], asked[s].align, accepted[s])
      BY LenProperties DEF IInv, SequencesOK, AllRecorded
    <2> QED
      BY <2>1, RecordedIsExpected DEF IInv, Limited
  <1> QED
    BY <1>1, Invariance, PTL

(* The writer of a session that is over has ended or has its sentinel.      *)
THEOREM WriterSafe == Spec => []WriterIsToldToEnd
  <1>1. IInv => WriterIsToldToEnd
    BY DEF IInv
  <1> QED
    BY <1>1, Invariance, PTL

-----------------------------------------------------------------------------
(* GapIffLost.  It needs that the emit counter does not come round while a   *)
(* session records: of as many frames as its modulus, lost in one run, no    *)
(* comparison of two counters can tell.                                      *)

(* The frames of one rate are numbered from one base, modulo SeqModulus. *)
NumberedFrom(base, f) == f.seq = (f.n - base[f.rate]) % SeqModulus

Rows == UNION {{accepted[s][i] : i \in 1..Len(accepted[s])} : s \in Sessions}

NumberedSo(base) ==
  /\ seq = (emitted - base[rates]) % SeqModulus
  /\ \A row \in Rows : NumberedFrom(base, row)
  /\ reader = "record" => NumberedFrom(base, frame)

Numbered == \E base \in [0..MaxRates -> Int] : NumberedSo(base)

(* What is held is younger than what is recorded, and neither is ahead of   *)
(* the firmware.                                                            *)
Aged ==
  /\ \A row \in Rows : row.n <= emitted /\ row.rate <= rates
  /\ reader = "record" => /\ frame.n <= emitted /\ frame.rate <= rates
                          /\ \A row \in Rows : row.n < frame.n

LastKnown ==
  active => lastSeq = IF accepted[session] = <<>> THEN None ELSE Last(accepted[session]).seq

GInv == Numbered /\ Aged /\ LastKnown /\ GapIffLost

-----------------------------------------------------------------------------
(* Arithmetic modulo M. *)
LEMMA DivMod ==
  ASSUME NEW M \in Nat \ {0}, NEW a \in Int
  PROVE  a % M \in 0..M - 1 /\ a \div M \in Int /\ a = M * (a \div M) + (a % M)
  OBVIOUS

(* The only multiple of M less than M away from 0 is 0.                     *)
LEMMA Multiple ==
  ASSUME NEW M \in Nat \ {0}, NEW k \in Int, M * k > -M, M * k < M
  PROVE  k = 0
  <1>1. k >= 1 => M * k >= M
    BY Z3
  <1>2. k <= -1 => M * k <= -M
    BY Z3
  <1> QED
    BY <1>1, <1>2

(* A product of a difference.                                               *)
LEMMA Distributes ==
  ASSUME NEW M \in Int, NEW p \in Int, NEW q \in Int
  PROVE  M * (q - p) = M * q - M * p
  OBVIOUS

(* Two ways to write a number differ by a multiple of M.                    *)
LEMMA Apart ==
  ASSUME NEW M \in Int, NEW p \in Int, NEW q \in Int, NEW r \in Int, NEW t \in Int,
         M * p + t = M * q + r
  PROVE  t = M * (q - p) + r
  <1>1. M * (q - p) = M * q - M * p
    BY Distributes
  <1>2. PICK x \in Int, y \in Int : x = M * q /\ y = M * p
    OBVIOUS
  <1>3. t = (x - y) + r
    BY <1>2
  <1> QED
    BY <1>1, <1>2, <1>3

(* There is one remainder.                                                  *)
LEMMA ModUnique ==
  ASSUME NEW M \in Nat \ {0}, NEW q \in Int, NEW r \in 0..M - 1, NEW a \in Int, a = M * q + r
  PROVE  a % M = r
  <1>1. a = M * (a \div M) + (a % M) /\ a % M \in 0..M - 1 /\ a \div M \in Int
    BY DivMod
  <1>2. PICK p \in Int, s \in 0..M - 1 : p = a \div M /\ s = a % M
    BY <1>1
  <1>3. M * q + r = M * p + s
    BY <1>1, <1>2
  <1>4. s = M * (q - p) + r
    BY <1>3, Apart
  <1>5. PICK d \in Int : d = q - p
    OBVIOUS
  <1>6. M * d > -M /\ M * d < M
    <2>1. PICK x \in Int : x = M * d
      OBVIOUS
    <2>2. s = x + r
      BY <1>4, <1>5, <2>1
    <2> QED
      BY <2>1, <2>2
  <1>7. d = 0
    BY <1>6, Multiple
  <1>8. s = r
    BY <1>4, <1>5, <1>7
  <1> QED
    BY <1>2, <1>8

(* Counting on is counting on modulo M. *)
LEMMA CountOn ==
  ASSUME NEW M \in Nat \ {0}, NEW a \in Int
  PROVE  ((a % M) + 1) % M = (a + 1) % M
  <1>1. PICK b \in Int : b = a + 1
    OBVIOUS
  <1>2. PICK p \in Int, s \in 0..M - 1 : a = M * p + s /\ s = a % M
    BY DivMod
  <1>3. PICK q \in Int, r \in 0..M - 1 : b = M * q + r /\ r = b % M
    BY DivMod
  <1>4. PICK t \in Int : t = s + 1
    OBVIOUS
  <1>5. M * p + t = M * q + r
    BY <1>1, <1>2, <1>3, <1>4
  <1>6. PICK d \in Int : d = q - p
    OBVIOUS
  <1>7. t = M * d + r
    BY <1>5, <1>6, Apart
  <1>8. t % M = r
    BY <1>7, ModUnique
  <1> QED
    BY <1>1, <1>2, <1>3, <1>4, <1>8

(* Two numbers less than M + 1 apart are neighbours if they are modulo M. *)
LEMMA Neighbours ==
  ASSUME NEW M \in Nat \ {0}, NEW a \in Int, NEW b \in Int, a < b, b - a <= M
  PROVE  b % M = ((a % M) + 1) % M <=> b = a + 1
  <1>1. ((a % M) + 1) % M = (a + 1) % M
    BY CountOn
  <1>2. ASSUME b % M = (a + 1) % M PROVE b = a + 1
    <2>1. /\ b = M * (b \div M) + (b % M) /\ b \div M \in Int
          /\ a + 1 = M * ((a + 1) \div M) + ((a + 1) % M) /\ (a + 1) \div M \in Int
          /\ b % M \in 0..M - 1
      BY DivMod
    <2> PICK p \in Int, q \in Int, r \in 0..M - 1 : p = b \div M /\ q = (a + 1) \div M /\ r = b % M
      BY <2>1
    <2>2. b = M * p + r /\ a + 1 = M * q + r
      BY <1>2, <2>1
    <2>3. M * (p - q) = b - (a + 1)
      BY <2>2
    <2>4. p - q = 0
      BY <2>3, Multiple
    <2> QED
      BY <2>2, <2>4
  <1> QED
    BY <1>1, <1>2

-----------------------------------------------------------------------------
(* Rows are frames.                                                         *)
LEMMA RowsAre ==
  ASSUME SequencesOK
  PROVE  /\ Rows \subseteq Frames
         /\ \A s \in Sessions : \A i \in 1..Len(accepted[s]) : accepted[s][i] \in Rows
  BY DEF SequencesOK, Rows

(* Nothing is recorded at the start.                                        *)
LEMMA GapInit == ASSUME Init PROVE GInv
  <1> USE DEF Init
  <1>1. \A s \in Sessions : accepted[s] = <<>>
    OBVIOUS
  <1>2. Rows = {}
    BY <1>1 DEF Rows
  <1>3. Numbered
    <2> DEFINE base == [r \in 0..MaxRates |-> 0]
    <2>1. base \in [0..MaxRates -> Int] /\ base[rates] = 0
      BY RecorderAssumption
    <2>2. (0 - 0) % SeqModulus = 0
      BY RecorderAssumption, ModUnique
    <2>3. NumberedSo(base)
      BY <1>2, <2>1, <2>2 DEF NumberedSo
    <2> QED
      BY <2>1, <2>3 DEF Numbered
  <1>4. Aged /\ LastKnown
    BY <1>2 DEF Aged, LastKnown
  <1>5. GapIffLost
    BY <1>1 DEF GapIffLost
  <1> QED
    BY <1>3, <1>4, <1>5 DEF GInv

(* Steps that leave the stream and the rows alone. *)
LEMMA StreamAlone ==
  ASSUME GInv, UNCHANGED <<accepted, warned, lastSeq, session, emitted, seq, rates>>,
         active' => active,
         reader' = "record" => reader = "record" /\ frame' = frame
  PROVE  GInv'
  <1>1. Rows' = Rows
    BY DEF Rows
  <1>2. Numbered'
    BY <1>1 DEF GInv, Numbered, NumberedSo
  <1>3. Aged' /\ LastKnown'
    BY <1>1 DEF GInv, Aged, LastKnown
  <1>4. GapIffLost'
    BY DEF GInv, GapIffLost
  <1> QED
    BY <1>2, <1>3, <1>4 DEF GInv

(* The firmware counts a frame. *)
LEMMA Counts ==
  ASSUME IInv, NEW base \in [0..MaxRates -> Int], NumberedSo(base)
  PROVE  \E x \in Int : x = (emitted + 1) - base[rates] /\ NextSeq = x % SeqModulus
  <1>1. emitted \in Nat /\ rates \in 0..MaxRates /\ base[rates] \in Int
    BY DEF IInv, StreamOK
  <1> PICK a \in Int : a = emitted - base[rates]
    BY <1>1
  <1>2. seq = a % SeqModulus /\ (emitted + 1) - base[rates] = a + 1
    BY <1>1 DEF NumberedSo
  <1>3. PICK x \in Int : x = a + 1
    OBVIOUS
  <1>4. ((a % SeqModulus) + 1) % SeqModulus = x % SeqModulus
    BY <1>3, CountOn, RecorderAssumption
  <1>5. NextSeq = x % SeqModulus
    BY <1>2, <1>4 DEF NextSeq
  <1>6. x = (emitted + 1) - base[rates]
    BY <1>2, <1>3
  <1> QED
    BY <1>5, <1>6

(* A frame is lost on the wire.                                             *)
LEMMA LoseGap == ASSUME IInv, GInv, LoseFrame PROVE GInv'
  <1>1. /\ UNCHANGED <<accepted, warned, lastSeq, session, rates, active, reader, frame>>
        /\ emitted' = emitted + 1 /\ seq' = NextSeq
    BY DEF LoseFrame, Emit, recordVars, sessionVars, readerVars
  <1>2. Rows' = Rows /\ Rows \subseteq Frames
    BY <1>1, RowsAre DEF Rows, IInv
  <1>3. Numbered'
    <2>1. PICK base \in [0..MaxRates -> Int] : NumberedSo(base)
      BY DEF GInv, Numbered
    <2>2. PICK x \in Int : x = (emitted + 1) - base[rates] /\ NextSeq = x % SeqModulus
      BY <2>1, Counts
    <2>3. seq' = (emitted' - base[rates']) % SeqModulus
      <3>1. emitted' = emitted + 1 /\ rates' = rates /\ seq' = NextSeq
        BY <1>1
      <3>2. emitted' - base[rates'] = x
        BY <2>2, <3>1
      <3>3. seq' = x % SeqModulus
        BY <2>2, <3>1
      <3> QED
        BY <3>2, <3>3
    <2>4. NumberedSo(base)'
      BY <1>1, <1>2, <2>1, <2>3 DEF NumberedSo
    <2> QED
      BY <2>1, <2>4 DEF Numbered
  <1>4. Aged'
    <2>1. emitted \in Nat /\ \A row \in Rows : row.n \in Nat
      BY <1>2 DEF IInv, StreamOK, Frames
    <2>2. reader = "record" => frame.n \in Nat
      BY DEF IInv, FrameHeld, Frames
    <2> QED
      BY <1>1, <1>2, <2>1, <2>2 DEF GInv, Aged
  <1>5. LastKnown' /\ GapIffLost'
    BY <1>1 DEF GInv, LastKnown, GapIffLost
  <1> QED
    BY <1>3, <1>4, <1>5 DEF GInv

(* The rate is set: the counter starts again, from a new base.              *)
LEMMA RateGap == ASSUME IInv, GInv, SetRate PROVE GInv'
  <1>1. /\ UNCHANGED <<accepted, warned, lastSeq, session, emitted, active, reader, frame>>
        /\ rates' = rates + 1 /\ rates' \in 0..MaxRates /\ seq' = 0 /\ rates \in 0..MaxRates /\ emitted \in Nat
    BY RecorderAssumption DEF SetRate, recordVars, sessionVars, readerVars, IInv, StreamOK
  <1>2. Rows' = Rows /\ Rows \subseteq Frames
    BY <1>1, RowsAre DEF Rows, IInv
  <1>6. /\ \A row \in Rows : row.rate \in 0..MaxRates /\ row.rate <= rates
        /\ reader = "record" => frame.rate \in 0..MaxRates /\ frame.rate <= rates
    BY <1>2 DEF IInv, FrameHeld, Frames, GInv, Aged
  <1>3. Numbered'
    <2>1. PICK base \in [0..MaxRates -> Int] : NumberedSo(base)
      BY DEF GInv, Numbered
    <2> PICK k \in 0..MaxRates, e \in Int : k = rates' /\ e = emitted
      BY <1>1
    <2>2. PICK next \in [0..MaxRates -> Int] : next = [base EXCEPT ![k] = e]
      BY <2>1
    <2>3. next[rates'] = emitted /\ \A r \in 0..MaxRates : r <= rates => next[r] = base[r]
      <3>1. next[k] = e /\ \A r \in 0..MaxRates : r # k => next[r] = base[r]
        BY <2>1, <2>2
      <3>2. \A r \in 0..MaxRates : r <= rates => r # k
        BY <1>1, RecorderAssumption
      <3> QED
        BY <3>1, <3>2
    <2>4. (emitted - emitted) % SeqModulus = 0
      BY <1>1, RecorderAssumption, ModUnique
    <2>5. \A row \in Rows : NumberedFrom(next, row)
      BY <1>6, <2>1, <2>3 DEF NumberedSo, NumberedFrom
    <2>6. reader = "record" => NumberedFrom(next, frame)
      BY <1>6, <2>1, <2>3 DEF NumberedSo, NumberedFrom
    <2>7. NumberedSo(next)'
      BY <1>1, <1>2, <2>3, <2>4, <2>5, <2>6 DEF NumberedSo, NumberedFrom
    <2> QED
      BY <2>2, <2>7 DEF Numbered
  <1>4. Aged'
    BY <1>1, <1>2, <1>6 DEF GInv, Aged
  <1>5. LastKnown' /\ GapIffLost'
    BY <1>1 DEF GInv, LastKnown, GapIffLost
  <1> QED
    BY <1>3, <1>4, <1>5 DEF GInv

(* A frame reaches the reader thread.                                       *)
LEMMA TickGap == ASSUME IInv, GInv, NEW step \in Steps, SensorTick(step) PROVE GInv'
  <1> DEFINE f == [n |-> emitted + 1, rate |-> rates, seq |-> NextSeq, step |-> step]
  <1>1. /\ UNCHANGED <<accepted, warned, lastSeq, session, rates, active>>
        /\ emitted' = emitted + 1 /\ seq' = NextSeq
        /\ reader' = "record" => frame' = f
    BY DEF SensorTick, Emit, recordVars, sessionVars
  <1>2. Rows' = Rows /\ Rows \subseteq Frames
    BY <1>1, RowsAre DEF Rows, IInv
  <1>3. Numbered'
    <2>1. PICK base \in [0..MaxRates -> Int] : NumberedSo(base)
      BY DEF GInv, Numbered
    <2>2. PICK x \in Int : x = (emitted + 1) - base[rates] /\ NextSeq = x % SeqModulus
      BY <2>1, Counts
    <2>3. seq' = (emitted' - base[rates']) % SeqModulus
      <3>1. emitted' = emitted + 1 /\ rates' = rates /\ seq' = NextSeq
        BY <1>1
      <3>2. emitted' - base[rates'] = x
        BY <2>2, <3>1
      <3>3. seq' = x % SeqModulus
        BY <2>2, <3>1
      <3> QED
        BY <3>2, <3>3
    <2>4. NumberedFrom(base, f)
      <3>1. f.n = emitted + 1 /\ f.rate = rates /\ f.seq = NextSeq
        OBVIOUS
      <3> HIDE DEF f
      <3>2. f.n - base[f.rate] = x
        BY <2>2, <3>1
      <3>3. f.seq = x % SeqModulus
        BY <2>2, <3>1
      <3> QED
        BY <3>2, <3>3 DEF NumberedFrom
    <2>5. NumberedSo(base)'
      BY <1>1, <1>2, <2>1, <2>3, <2>4 DEF NumberedSo, NumberedFrom
    <2> QED
      BY <2>1, <2>5 DEF Numbered
  <1>4. Aged'
    <2>1. emitted \in Nat /\ rates \in Nat /\ \A row \in Rows : row.n \in Nat
      BY <1>2 DEF IInv, StreamOK, Frames
    <2>2. \A row \in Rows : row.n <= emitted /\ row.rate <= rates
      BY DEF GInv, Aged
    <2> QED
      BY <1>1, <1>2, <2>1, <2>2 DEF Aged
  <1>5. LastKnown' /\ GapIffLost'
    BY <1>1 DEF GInv, LastKnown, GapIffLost
  <1> QED
    BY <1>3, <1>4, <1>5 DEF GInv

(* A new session has no last row.                                           *)
LEMMA SetupGap ==
  ASSUME IInv, GInv, NEW c \in Clients, NEW request \in Requests, Setup(c, request)
  PROVE  GInv'
  <1>1. /\ UNCHANGED <<accepted, warned, emitted, seq, rates, reader, frame>>
        /\ session' = session + 1 /\ lastSeq' = None
    BY DEF Setup, recordVars, readerVars, streamVars
  <1>2. Rows' = Rows
    BY <1>1 DEF Rows
  <1>3. Numbered'
    BY <1>1, <1>2 DEF GInv, Numbered, NumberedSo
  <1>4. Aged' /\ GapIffLost'
    BY <1>1, <1>2 DEF GInv, Aged, GapIffLost
  <1>5. LastKnown'
    <2>1. accepted[session + 1] = <<>>
      BY RecorderAssumption DEF Setup, IInv, Unused, Sessions, SessionOK
    <2> QED
      BY <1>1, <2>1 DEF LastKnown
  <1> QED
    BY <1>3, <1>4, <1>5 DEF GInv

(* A row is compared with the one before it. *)
LEMMA RecordGap ==
  ASSUME IInv, GInv, Record, MaxFrames <= SeqModulus + 1
  PROVE  GInv'
  <1>1. /\ active /\ session \in Sessions /\ reader = "record" /\ frame \in Frames
        /\ UNCHANGED <<session, emitted, seq, rates>> /\ reader' = "idle" /\ lastSeq' = frame.seq
    BY DEF Record, IInv, Running, FrameHeld, Idle, streamVars
  <1> PICK f \in Frames : f = frame
    BY <1>1
  <1>2. PICK rows \in Seq(Frames) : rows = accepted[session]
    BY <1>1 DEF IInv, SequencesOK
  <1>3. PICK taken \in Seq(Frames) : taken = Append(rows, f)
    BY Appended
  <1>4. /\ Len(rows) \in Nat /\ Len(taken) = Len(rows) + 1 /\ taken[Len(rows) + 1] = f
        /\ \A i \in 1..Len(rows) : taken[i] = rows[i]
        /\ taken # <<>> /\ Last(taken) = f
    BY <1>3, Appended
  <1>5. /\ accepted' \in [Sessions -> Seq(Frames)] /\ accepted'[session] = taken
        /\ \A s \in Sessions \ {session} : accepted'[s] = accepted[s]
    <2>1. accepted' = [accepted EXCEPT ![session] = taken]
      BY <1>2, <1>3 DEF Record
    <2> QED
      BY <1>1, <2>1 DEF IInv, SequencesOK
  <1>6. Rows' = Rows \cup {f} /\ Rows \subseteq Frames
    <2>1. ASSUME NEW row \in Rows PROVE row \in Rows'
      <3>1. PICK s \in Sessions : \E i \in 1..Len(accepted[s]) : row = accepted[s][i]
        BY <2>1 DEF Rows
      <3>2. \E i \in 1..Len(accepted'[s]) : row = accepted'[s][i]
        BY <1>2, <1>4, <1>5, <3>1
      <3> QED
        BY <3>2 DEF Rows
    <2>2. f \in Rows'
      <3>1. Len(taken) \in 1..Len(taken) /\ f = taken[Len(taken)]
        BY <1>4
      <3> QED
        BY <1>1, <1>5, <3>1 DEF Rows
    <2>3. ASSUME NEW row \in Rows' PROVE row \in Rows \cup {f}
      <3>1. PICK s \in Sessions : \E i \in 1..Len(accepted'[s]) : row = accepted'[s][i]
        BY <2>3 DEF Rows
      <3>2. CASE s = session
        <4>1. PICK i \in 1..Len(taken) : row = taken[i]
          BY <1>5, <3>1, <3>2
        <4>2. i \in 1..Len(rows) \/ i = Len(rows) + 1
          BY <1>4, <4>1
        <4> QED
          BY <1>1, <1>2, <1>4, <4>1, <4>2, SMTT(30) DEF Rows
      <3>3. CASE s # session
        BY <1>5, <3>1, <3>3 DEF Rows
      <3> QED
        BY <3>2, <3>3
    <2> QED
      BY <2>1, <2>2, <2>3, RowsAre DEF IInv
  <1>7. Numbered'
    <2>1. PICK base \in [0..MaxRates -> Int] : NumberedSo(base)
      BY DEF GInv, Numbered
    <2>2. NumberedSo(base)'
      BY <1>1, <1>6, <2>1 DEF NumberedSo, NumberedFrom
    <2> QED
      BY <2>1, <2>2 DEF Numbered
  <1>8. Aged'
    BY <1>1, <1>6 DEF GInv, Aged
  <1>9. LastKnown'
    BY <1>1, <1>4, <1>5 DEF LastKnown
  <1>10. ASSUME \A row \in ToSet(taken) : row.rate = taken[1].rate
         PROVE  warned'[session] <=> \E i \in 1..Len(taken) - 1 : taken[i + 1].n # taken[i].n + 1
    <2> DEFINE gap == lastSeq # None /\ f.seq # (lastSeq + 1) % SeqModulus
    <2>1. warned'[session] <=> warned[session] \/ gap
      <3>1. warned \in [Sessions -> BOOLEAN]
        BY DEF IInv, ThreadsOK
      <3> QED
        BY <1>1, <3>1 DEF Record
    <2>2. \A i \in 1..Len(taken) : taken[i].rate = taken[1].rate
      BY <1>10 DEF ToSet
    <2>3. \A i \in 1..Len(rows) : rows[i].rate = rows[1].rate /\ rows[i].rate = f.rate
      BY <1>4, <2>2
    <2>4. warned[session] <=> \E i \in 1..Len(rows) - 1 : rows[i + 1].n # rows[i].n + 1
      <3>1. \A row \in ToSet(rows) : row.rate = rows[1].rate
        BY <2>3 DEF ToSet
      <3> QED
        BY <1>1, <1>2, <3>1 DEF GInv, GapIffLost
    <2>5. CASE rows = <<>>
      <3>1. lastSeq = None /\ Len(rows) = 0
        BY <1>1, <1>2, <2>5 DEF GInv, LastKnown
      <3> QED
        BY <1>4, <2>1, <2>4, <3>1
    <2>6. CASE rows # <<>>
      <3>1. PICK n \in Nat \ {0} : n = Len(rows)
        BY <1>4, <2>6
      <3>2. PICK last \in Frames : last = rows[n]
        BY <3>1
      <3>3. lastSeq = last.seq /\ lastSeq # None
        <4>1. lastSeq = last.seq
          BY <1>1, <1>2, <2>6, <3>1, <3>2 DEF GInv, LastKnown, Last
        <4> QED
          BY <4>1, RecorderAssumption DEF Frames
      <3>4. last \in Rows /\ last.rate = f.rate
        BY <1>1, <1>2, <2>3, <3>1, <3>2, RowsAre DEF IInv
      <3>5. PICK base \in [0..MaxRates -> Int] : NumberedFrom(base, last) /\ NumberedFrom(base, f)
        BY <1>1, <3>4 DEF GInv, Numbered, NumberedSo
      <3>6. /\ last.n \in 1..MaxFrames /\ f.n \in 1..MaxFrames /\ last.n < f.n
            /\ f.rate \in 0..MaxRates /\ base[f.rate] \in Int
        BY <1>1, <3>4 DEF GInv, Aged, Frames
      <3>7. gap <=> f.n # last.n + 1
        <4>1. PICK a \in Int, b \in Int : a = last.n - base[f.rate] /\ b = f.n - base[f.rate]
          BY <3>6
        <4>2. a < b /\ b - a <= SeqModulus
          <5>1. PICK i \in Int, j \in Int, m \in Int, k \in Int :
                  i = last.n /\ j = f.n /\ m = base[f.rate] /\ k = SeqModulus
            BY <3>6, RecorderAssumption
          <5>2. i < j /\ j - i <= k
            BY <3>6, <5>1, RecorderAssumption, SMTT(30)
          <5>3. a = i - m /\ b = j - m
            BY <4>1, <5>1
          <5>4. a < b /\ b - a <= k
            BY <5>2, <5>3
          <5> QED
            BY <5>1, <5>4
        <4>3. last.seq = a % SeqModulus /\ f.seq = b % SeqModulus
          BY <3>4, <3>5, <4>1 DEF NumberedFrom
        <4>4. b % SeqModulus = ((a % SeqModulus) + 1) % SeqModulus <=> b = a + 1
          BY <4>2, Neighbours, RecorderAssumption
        <4>5. b = a + 1 <=> f.n = last.n + 1
          BY <3>6, <4>1, SMTT(30)
        <4> QED
          BY <3>3, <4>3, <4>4, <4>5
      <3>8. (\E i \in 1..n : taken[i + 1].n # taken[i].n + 1) <=>
              (\E i \in 1..n - 1 : rows[i + 1].n # rows[i].n + 1) \/ f.n # last.n + 1
        <4>1. taken[n + 1] = f /\ taken[n] = last /\ \A i \in 1..n - 1 : taken[i + 1] = rows[i + 1] /\ taken[i] = rows[i]
          BY <1>4, <3>1, <3>2
        <4>2. \A i \in 1..n : i \in 1..n - 1 \/ i = n
          BY <3>1
        <4>3. n \in 1..n /\ \A i \in 1..n - 1 : i \in 1..n
          BY <3>1
        <4> QED
          BY <4>1, <4>2, <4>3
      <3>9. Len(taken) - 1 = n
        BY <1>4, <3>1
      <3> QED
        BY <2>1, <2>4, <3>1, <3>7, <3>8, <3>9
    <2> QED
      BY <2>5, <2>6
  <1>11. GapIffLost'
    <2>1. \A s \in Sessions \ {session} : warned'[s] = warned[s]
      <3>1. warned \in [Sessions -> BOOLEAN]
        BY DEF IInv, ThreadsOK
      <3> QED
        BY <3>1 DEF Record
    <2>2. ASSUME NEW s \in Sessions, \A row \in ToSet(accepted'[s]) : row.rate = accepted'[s][1].rate
          PROVE  warned'[s] <=> \E i \in 1..Len(accepted'[s]) - 1 :
                                  accepted'[s][i + 1].n # accepted'[s][i].n + 1
      <3>1. CASE s = session
        BY <1>5, <1>10, <2>2, <3>1
      <3>2. CASE s # session
        <4>1. accepted'[s] = accepted[s] /\ warned'[s] = warned[s]
          BY <1>5, <2>1, <3>2
        <4>2. (\A row \in ToSet(accepted[s]) : row.rate = accepted[s][1].rate) =>
                (warned[s] <=> \E i \in 1..Len(accepted[s]) - 1 :
                                 accepted[s][i + 1].n # accepted[s][i].n + 1)
          BY Zenon DEF GInv, GapIffLost
        <4> QED
          BY <2>2, <4>1, <4>2, Zenon
      <3> QED
        BY <3>1, <3>2
    <2> QED
      BY <2>2, Zenon DEF GapIffLost
  <1> QED
    BY <1>7, <1>8, <1>9, <1>11 DEF GInv

(* Every step keeps GInv.                                                   *)
LEMMA GapNext ==
  ASSUME IInv, GInv, [Next]_vars, MaxFrames <= SeqModulus + 1
  PROVE  GInv'
  <1>1. ASSUME NEW c \in Clients, StartCall(c) \/ Join(c) PROVE GInv'
    BY <1>1, StreamAlone DEF StartCall, Join, sessionVars, readerVars, streamVars, recordVars
  <1>2. ASSUME NEW c \in Clients, NEW next, StopSection(c, next) PROVE GInv'
    BY <1>2, StreamAlone DEF StopSection, readerVars, streamVars, recordVars
  <1>3. ASSUME NEW c \in Clients, Client(c) PROVE GInv'
    BY <1>1, <1>2, <1>3, SetupGap DEF Client, StopCall, StopInStart
  <1>4. CASE RecordInactive
    BY <1>4, StreamAlone DEF RecordInactive, Idle, sessionVars, streamVars, recordVars
  <1>5. CASE RecordWaits
    BY <1>5, StreamAlone DEF RecordWaits, Idle, streamVars
  <1>6. CASE Reader
    <2>1. ASSUME NEW step \in Steps, SensorTick(step) PROVE GInv'
      BY <2>1, TickGap
    <2>2. CASE Record
      BY <2>2, RecordGap
    <2> QED
      BY <1>4, <1>5, <1>6, <2>1, <2>2 DEF Reader
  <1>7. ASSUME NEW s \in Sessions, Writer(s) PROVE GInv'
    <2>1. UNCHANGED <<sessionVars, readerVars, streamVars, recordVars>>
      BY <1>7 DEF Writer, OpenFile, TakeItem
    <2> QED
      BY <2>1, StreamAlone DEF sessionVars, readerVars, streamVars, recordVars
  <1>8. CASE UNCHANGED vars
    BY <1>8, StreamAlone DEF vars, sessionVars, readerVars, streamVars, recordVars
  <1> QED
    BY <1>3, <1>6, <1>7, <1>8, LoseGap, RateGap DEF Next

(* While the stream's rate is not set, a gap is logged exactly if frames    *)
(* are missing between the rows of one session, provided that fewer frames  *)
(* can be lost in one run than the emit counter has values.                 *)
THEOREM GapsAreSeen == ASSUME MaxFrames <= SeqModulus + 1 PROVE Spec => []GapIffLost
  <1>1. Init => GInv
    BY GapInit
  <1>2. IInv /\ GInv /\ [Next]_vars => GInv'
    BY GapNext
  <1>3. GInv => GapIffLost
    BY DEF GInv
  <1> QED
    BY <1>1, <1>2, <1>3, Invariance, PTL DEF Spec
================================================================================
