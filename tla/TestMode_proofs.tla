---------------------------- MODULE TestMode_proofs ----------------------------
(***************************************************************************)
(* What both policies of Assignment1 guarantee for files of any length:    *)
(* PriorityFirst serves the best class only, and within a class (for       *)
(* roundRobin, among all) the bursts are given out evenly.                 *)
(***************************************************************************)
EXTENDS TestMode, SequenceTheorems, TLAPS

(* Appending adds one member at the end.                                   *)
LEMMA AppendSeq ==
  ASSUME NEW S, NEW s \in Seq(S), NEW e \in S
  PROVE  /\ Append(s, e) \in Seq(S)
         /\ Range(Append(s, e)) = Range(s) \cup {e}
<1>1. <<e>> \in Seq(S) /\ Range(<<e>>) = {e}
  BY DEF Range
<1>2. Append(s, e) \in Seq(S) /\ Append(s, e) = s \o <<e>>
  BY AppendProperties, AppendIsConcat, Zenon
<1>3. Range(s \o <<e>>) = Range(s) \cup Range(<<e>>)
  BY <1>1, RangeConcatenation, Zenon
<1> QED BY <1>1, <1>2, <1>3

(* Taking the head of a queue takes one member out.                        *)
LEMMA HeadTailSeq ==
  ASSUME NEW S, NEW s \in Seq(S), s # <<>>
  PROVE  /\ Head(s) \in S /\ Tail(s) \in Seq(S)
         /\ Range(s) = {Head(s)} \cup Range(Tail(s))
<1>1. <<Head(s)>> \in Seq(S) /\ Tail(s) \in Seq(S) /\ Head(s) \in S
  BY HeadTailProperties
<1>2. s = <<Head(s)>> \o Tail(s)
  OBVIOUS
<1>3. Range(<<Head(s)>>) = {Head(s)}
  BY DEF Range
<1>4. Range(<<Head(s)>> \o Tail(s)) = Range(<<Head(s)>>) \cup Range(Tail(s))
  BY <1>1, RangeConcatenation, Zenon
<1> QED BY <1>1, <1>2, <1>3, <1>4

(* The queue is a rotation: who stands further behind is either later in   *)
(* the file, or has had one burst more and is earlier in the file.         *)
Rotation ==
  \A i, j \in DOMAIN processQueue : i < j =>
    LET a == processQueue[i]  b == processQueue[j] IN
    \/ Given(a) = Given(b) /\ a < b
    \/ Given(b) = Given(a) + cyclesPerBurst /\ b < a

SameClass(p, q) == priority(p) = priority(q)

(* In each of the two containers, members of a class have had the same.    *)
Level(q) == \A a, b \in q : SameClass(a, b) => Given(a) = Given(b)

(* Those in k have had one burst more than their class in q, and are       *)
(* earlier in the file.                                                    *)
OneAhead(q, k) ==
  \A a \in q, b \in k :
    SameClass(a, b) => Given(b) = Given(a) + cyclesPerBurst /\ b < a

(* Whoever is held out is of the current class, and nobody is of a better. *)
CurrentClass(q, k, c) ==
  /\ \A h \in k : priority(h) = c
  /\ k # {} => \A p \in q : priority(p) >= c

PriorityInv ==
  /\ Level(ready) /\ Level(holdout) /\ OneAhead(ready, holdout)
  /\ CurrentClass(ready, holdout, currPriority)

(* What an unfinished process still needs.                                 *)
Remaining ==
  \A p \in Unfinished : \/ est_remaining_runtime[p] = Work(p)
                        \/ est_remaining_runtime[p] \in 1..Work(p)

IInv ==
  /\ TestTypeOK /\ Remaining /\ EvenTurns
  /\ policy = "roundRobin" => Rotation
  /\ policy = "priority" => PriorityInv

LEMMA Numbers ==
  ASSUME TestTypeOK
  PROVE  /\ Processes = 1..Len(processes) /\ Len(processes) \in Nat
         /\ cyclesPerBurst \in Nat /\ cyclesPerBurst >= 1
         /\ \A p \in Processes : /\ p \in Nat /\ priority(p) \in Int
                                 /\ Work(p) \in Int /\ Given(p) \in Int
                                 /\ est_remaining_runtime[p] \in Int
<1>1. processes \in Seq(Row)
  BY FilesAssumption DEF TestTypeOK
<1>2. Processes = 1..Len(processes) /\ Len(processes) \in Nat
  BY <1>1 DEF Processes
<1>3. \A p \in Processes : processes[p] \in Row
  BY <1>1, <1>2
<1>4. \A p \in Processes : priority(p) \in Int /\ Work(p) \in Int
  BY <1>3 DEF Row, priority, Work
<1>5. \A p \in Processes : est_remaining_runtime[p] \in Int
  BY DEF TestTypeOK
<1>6. \A p \in Processes : Given(p) \in Int
  BY <1>4, <1>5 DEF Given
<1> QED BY <1>2, <1>4, <1>5, <1>6, CyclesAssumption

(* A burst adds one burst to what its process was given.                   *)
LEMMA BurstGives ==
  ASSUME TestTypeOK, NEW p \in Processes, Burst(p), UNCHANGED processes
  PROVE  /\ est_remaining_runtime' \in [Processes -> Int]
         /\ est_remaining_runtime'[p] = est_remaining_runtime[p]
                                          - cyclesPerBurst
         /\ Given(p)' = Given(p) + cyclesPerBurst
         /\ \A q \in Processes \ {p} :
              /\ est_remaining_runtime'[q] = est_remaining_runtime[q]
              /\ Given(q)' = Given(q)
         /\ completed' \in Seq(Processes)
<1>1. /\ est_remaining_runtime[p] \in Int /\ Work(p) \in Int
      /\ cyclesPerBurst \in Int
      /\ est_remaining_runtime \in [Processes -> Int]
      /\ completed \in Seq(Processes)
  BY Numbers DEF TestTypeOK
<1>2. est_remaining_runtime' = [est_remaining_runtime EXCEPT ![p] =
                                  est_remaining_runtime[p] - cyclesPerBurst]
  BY DEF Burst, AfterBurst
<1>3. /\ est_remaining_runtime' \in [Processes -> Int]
      /\ est_remaining_runtime'[p] = est_remaining_runtime[p] - cyclesPerBurst
      /\ \A q \in Processes \ {p} :
           est_remaining_runtime'[q] = est_remaining_runtime[q]
  BY <1>1, <1>2
<1>4. \A q \in Processes : Work(q)' = Work(q)
  BY DEF Work
<1>5. Given(p)' = Given(p) + cyclesPerBurst
  BY <1>1, <1>3, <1>4 DEF Given
<1>6. \A q \in Processes \ {p} : Given(q)' = Given(q)
  BY <1>3, <1>4 DEF Given
<1>7. completed' \in Seq(Processes)
  BY <1>1, AppendSeq DEF Burst
<1> QED BY <1>3, <1>5, <1>6, <1>7

(* What is left after a burst of an unfinished process.                    *)
LEMMA BurstLeaves ==
  ASSUME TestTypeOK, Remaining, NEW p \in Unfinished, p \in Processes, Burst(p),
         UNCHANGED processes
  PROVE  /\ \A q \in Processes :
              \/ est_remaining_runtime'[q] = Work(q)
              \/ /\ Work(q) <= 0
                 /\ est_remaining_runtime'[q] = Work(q) - cyclesPerBurst
              \/ est_remaining_runtime'[q] \in (1 - cyclesPerBurst)..Work(q)
         /\ ~Done(est_remaining_runtime'[p]) =>
              est_remaining_runtime'[p] \in 1..Work(p)
<1>1. /\ cyclesPerBurst \in Nat /\ cyclesPerBurst >= 1
      /\ Work(p) \in Int /\ est_remaining_runtime[p] \in Int
  BY Numbers
<1>2. est_remaining_runtime'[p] = est_remaining_runtime[p] - cyclesPerBurst
  BY BurstGives
<1>3. \/ est_remaining_runtime[p] = Work(p)
      \/ est_remaining_runtime[p] \in 1..Work(p)
  BY DEF Remaining
<1>4. \/ Work(p) <= 0 /\ est_remaining_runtime'[p] = Work(p) - cyclesPerBurst
      \/ est_remaining_runtime'[p] \in (1 - cyclesPerBurst)..Work(p)
  BY <1>1, <1>2, <1>3
<1>5. ~Done(est_remaining_runtime'[p]) =>
        est_remaining_runtime'[p] \in 1..Work(p)
  BY <1>1, <1>2, <1>3 DEF Done
<1>6. \A q \in Processes \ {p} :
        est_remaining_runtime'[q] = est_remaining_runtime[q]
  BY BurstGives
<1> QED BY <1>4, <1>5, <1>6 DEF TestTypeOK

-------------------------------------------------------------------------------
(* roundRobin                                                              *)
LEMMA RoundRobinStep ==
  ASSUME IInv, RoundRobin
  PROVE  IInv'
<1> DEFINE q == processQueue
<1>1. /\ TestTypeOK /\ Remaining /\ EvenTurns /\ Rotation
      /\ policy = "roundRobin" /\ q # <<>> /\ q \in Seq(Processes)
      /\ Unfinished = Range(q)
  BY DEF IInv, RoundRobin, TestTypeOK, Unfinished
<1>2. PICK p \in Processes, t \in Seq(Processes) :
        p = Head(q) /\ t = Tail(q) /\ Range(q) = {p} \cup Range(t)
  <2>1. /\ Head(q) \in Processes /\ Tail(q) \in Seq(Processes)
        /\ Range(q) = {Head(q)} \cup Range(Tail(q))
    BY <1>1, HeadTailSeq
  <2> QED BY <2>1
<1>3. /\ Burst(p)
      /\ q' = IF Done(est_remaining_runtime'[p]) THEN t
                                                 ELSE Append(t, p)
      /\ UNCHANGED <<iFile, processes, policy, ready, holdout, currPriority>>
  BY <1>2 DEF RoundRobin, PushBack
<1>4. /\ Given(p)' = Given(p) + cyclesPerBurst
      /\ \A r \in Processes \ {p} :
           /\ Given(r)' = Given(r)
           /\ est_remaining_runtime'[r] = est_remaining_runtime[r]
      /\ Given(p) \in Int /\ cyclesPerBurst \in Nat
      /\ \A r \in Processes : Given(r) \in Int /\ r \in Nat
      /\ Processes' = Processes
  BY <1>1, <1>2, <1>3, BurstGives, Numbers DEF Processes
<1>5. /\ q' \in Seq(Processes)
      /\ Range(q') = IF Done(est_remaining_runtime'[p]) THEN Range(t)
                     ELSE Range(t) \cup {p}
  <2>1. /\ Append(t, p) \in Seq(Processes)
        /\ Range(Append(t, p)) = Range(t) \cup {p}
    BY AppendSeq
  <2>2. CASE Done(est_remaining_runtime'[p])
    BY <2>2, <1>2, <1>3
  <2>3. CASE ~Done(est_remaining_runtime'[p])
    BY <2>1, <2>3, <1>3
  <2> QED BY <2>2, <2>3
<1>6. Unfinished' = Range(q')
  BY <1>1, <1>3 DEF Unfinished
<1>7. Range(t) \subseteq Processes \ {p}
  <2> SUFFICES ASSUME NEW j \in DOMAIN t
               PROVE  t[j] \in Processes \ {p}
    BY DEF Range
  <2>1. /\ j + 1 \in DOMAIN q /\ 1 \in DOMAIN q /\ 1 < j + 1
        /\ t[j] = q[j + 1] /\ q[1] = p /\ t[j] \in Processes
    BY <1>1, <1>2
  <2>2. \/ Given(p) = Given(t[j]) /\ p < t[j]
        \/ Given(t[j]) = Given(p) + cyclesPerBurst /\ t[j] < p
    BY <2>1, <1>1 DEF Rotation
  <2>3. t[j] # p
    BY <2>1, <2>2, <1>4
  <2> QED BY <2>1, <2>3
(* How the front stands to all others.                                     *)
<1>8. \A r \in Range(t) :
        \/ Given(p) = Given(r) /\ p < r
        \/ Given(r) = Given(p) + cyclesPerBurst /\ r < p
  <2> SUFFICES ASSUME NEW j \in DOMAIN t
               PROVE  LET r == t[j] IN
                      \/ Given(p) = Given(r) /\ p < r
                      \/ Given(r) = Given(p) + cyclesPerBurst /\ r < p
    BY DEF Range
  <2>1. /\ j + 1 \in DOMAIN q /\ 1 \in DOMAIN q /\ 1 < j + 1
        /\ t[j] = q[j + 1] /\ q[1] = p
    BY <1>1, <1>2
  <2> QED BY <2>1, <1>1 DEF Rotation
<1>9. TestTypeOK'
  <2>1. /\ est_remaining_runtime' \in [Processes -> Int]
        /\ completed' \in Seq(Processes)
    BY <1>1, <1>2, <1>3, BurstGives
  <2>2. \A r \in Processes :
          \/ est_remaining_runtime'[r] = Work(r)
          \/ /\ Work(r) <= 0
             /\ est_remaining_runtime'[r] = Work(r) - cyclesPerBurst
          \/ est_remaining_runtime'[r] \in (1 - cyclesPerBurst)..Work(r)
    BY <1>1, <1>2, <1>3, BurstLeaves
  <2> QED BY <2>1, <2>2, <1>1, <1>3, <1>4, <1>5 DEF TestTypeOK, Work
<1>10. Remaining'
  <2> SUFFICES ASSUME NEW r \in Range(q')
               PROVE  \/ est_remaining_runtime'[r] = Work(r)
                      \/ est_remaining_runtime'[r] \in 1..Work(r)
    BY <1>3, <1>6 DEF Remaining, Work
  <2>1. CASE r = p
    <3>1. ~Done(est_remaining_runtime'[p])
      BY <2>1, <1>5, <1>7
    <3> QED BY <2>1, <3>1, <1>1, <1>2, <1>3, BurstLeaves
  <2>2. CASE r # p
    BY <2>2, <1>1, <1>2, <1>4, <1>5, <1>7 DEF Remaining
  <2> QED BY <2>1, <2>2
<1>11. EvenTurns'
  <2> SUFFICES ASSUME NEW a \in Range(q'), NEW b \in Processes
               PROVE  /\ Given(b)' <= Given(a)' + cyclesPerBurst
                      /\ a < b => Given(b)' <= Given(a)'
    BY <1>3, <1>4, <1>6 DEF EvenTurns, Peers
  <2>1. a \in Range(q) /\ a \in Processes
    BY <1>2, <1>5, <1>7
  <2>2. /\ Given(b) <= Given(a) + cyclesPerBurst
        /\ a < b => Given(b) <= Given(a)
    BY <2>1, <1>1 DEF EvenTurns, Peers
  <2>3. CASE a = p
    BY <2>2, <2>3, <1>4
  <2>4. CASE a # p /\ b # p
    BY <2>1, <2>2, <2>4, <1>4
  <2>5. CASE a # p /\ b = p
    <3>1. a \in Range(t)
      BY <2>5, <1>2, <2>1
    <3> QED BY <3>1, <2>1, <2>5, <1>4, <1>8
  <2> QED BY <2>3, <2>4, <2>5
<1>12. Rotation'
  <2>1. ASSUME NEW i \in DOMAIN t, NEW j \in DOMAIN t, i < j,
               NEW a, a = t[i], NEW b, b = t[j]
        PROVE  \/ Given(a)' = Given(b)' /\ a < b
               \/ Given(b)' = Given(a)' + cyclesPerBurst /\ b < a
    <3>1. /\ i + 1 \in DOMAIN q /\ j + 1 \in DOMAIN q /\ i + 1 < j + 1
          /\ a = q[i + 1] /\ b = q[j + 1]
      BY <2>1, <1>1, <1>2
    <3>2. a \in Processes \ {p} /\ b \in Processes \ {p}
      BY <2>1, <1>7 DEF Range
    <3>3. \/ Given(a) = Given(b) /\ a < b
          \/ Given(b) = Given(a) + cyclesPerBurst /\ b < a
      BY <3>1, <1>1 DEF Rotation
    <3> QED BY <3>2, <3>3, <1>4
  <2>2. ASSUME NEW a \in Range(t)
        PROVE  \/ Given(a)' = Given(p)' /\ a < p
               \/ Given(p)' = Given(a)' + cyclesPerBurst /\ p < a
    BY <1>4, <1>7, <1>8
  <2> SUFFICES ASSUME NEW i \in DOMAIN q', NEW j \in DOMAIN q', i < j,
                      NEW a, a = q'[i], NEW b, b = q'[j]
               PROVE  \/ Given(a)' = Given(b)' /\ a < b
                      \/ Given(b)' = Given(a)' + cyclesPerBurst /\ b < a
    BY DEF Rotation
  <2>3. CASE Done(est_remaining_runtime'[p])
    BY <2>1, <2>3, <1>3
  <2>4. CASE ~Done(est_remaining_runtime'[p])
    <3>1. q' = Append(t, p) /\ Len(t) \in Nat
      BY <2>4, <1>3
    <3>2. /\ DOMAIN q' = 1..(Len(t) + 1) /\ DOMAIN t = 1..Len(t)
          /\ \A k \in 1..Len(t) : q'[k] = t[k]
          /\ q'[Len(t) + 1] = p
      BY <3>1
    <3>3. i \in DOMAIN t /\ a = t[i]
      BY <3>1, <3>2
    <3>4. CASE j \in DOMAIN t
      <4>1. b = t[j]
        BY <3>2, <3>4
      <4> QED BY <4>1, <3>3, <3>4, <2>1
    <3>5. CASE j \notin DOMAIN t
      <4>1. b = p /\ a \in Range(t)
        BY <3>1, <3>2, <3>3, <3>5 DEF Range
      <4> QED BY <4>1, <2>2
    <3> QED BY <3>4, <3>5
  <2> QED BY <2>3, <2>4
<1> QED BY <1>1, <1>3, <1>9, <1>10, <1>11, <1>12 DEF IInv

-------------------------------------------------------------------------------
(* PriorityFirst.  Wherever the process p that is picked comes from, the   *)
(* unfinished ones are split into those p was picked from and those that   *)
(* stay held out, with p before the former and in the class of the latter. *)
LEMMA Picked ==
  ASSUME IInv, PriorityFirst
  PROVE  \E q, k \in SUBSET Processes : \E p \in q :
           /\ q \cup k = ready \cup holdout /\ q \cap k = {}
           /\ Level(q) /\ Level(k) /\ OneAhead(q, k)
           /\ \A r \in q : priority(p) <= priority(r)
           /\ \A r \in q \ {p} : SameClass(p, r) => p < r
           /\ \A h \in k : SameClass(h, p)
           /\ currPriority' = priority(p) /\ Burst(p)
           /\ ready' = q \ {p}
           /\ holdout' = IF Done(est_remaining_runtime'[p]) THEN k
                                                            ELSE k \cup {p}
<1> DEFINE back == BringBack(Refilled, HeldOut)
           q == IF back THEN Refilled \cup HeldOut ELSE Refilled
           k == IF back THEN {} ELSE HeldOut
<1>1. /\ TestTypeOK /\ PriorityInv /\ policy = "priority"
      /\ ready \in SUBSET Processes /\ holdout \in SUBSET Processes
      /\ ready \cap holdout = {} /\ currPriority \in Int
      /\ Level(ready) /\ Level(holdout) /\ OneAhead(ready, holdout)
      /\ CurrentClass(ready, holdout, currPriority)
  BY DEF IInv, PriorityFirst, PriorityInv, TestTypeOK
<1>2. \A r \in Processes : priority(r) \in Int /\ r \in Nat
  BY <1>1, Numbers
<1>3. PICK p \in q :
        /\ IsTop(p, q)
        /\ currPriority' = IF back THEN currPriority ELSE priority(p)
        /\ Burst(p)
        /\ ready' = q \ {p}
        /\ holdout' = IF Done(est_remaining_runtime'[p]) THEN k
                                                         ELSE k \cup {p}
  BY DEF PriorityFirst
<1>4. q \in SUBSET Processes /\ k \in SUBSET Processes
  BY <1>1 DEF Refilled, HeldOut
<1>5. /\ \A r \in q : priority(p) <= priority(r)
      /\ \A r \in q \ {p} : SameClass(p, r) => p < r
  BY <1>2, <1>3, <1>4 DEF IsTop, Before, SameClass
<1>6. q \cup k = ready \cup holdout /\ q \cap k = {}
  BY <1>1 DEF Refilled, HeldOut
<1>7. CASE ready = {}
  <2>1. q = holdout /\ k = {} /\ ~back
    BY <1>7 DEF Refilled, HeldOut, BringBack
  <2>2. Level(q) /\ Level(k) /\ OneAhead(q, k)
    BY <1>1, <2>1 DEF Level, OneAhead
  <2> HIDE DEF q, k, back
  <2> QED BY <1>3, <1>4, <1>5, <1>6, <2>1, <2>2
<1>8. CASE ready # {} /\ back
  <2>1. q = ready \cup holdout /\ k = {} /\ holdout # {}
    BY <1>8 DEF Refilled, HeldOut, BringBack
  <2>2. PICK top \in ready : IsTop(top, ready) /\ currPriority < priority(top)
    BY <1>8 DEF Refilled, HeldOut, BringBack
  <2>3. \A r \in ready : currPriority < priority(r)
    <3>1. \A r \in ready : priority(top) <= priority(r)
      BY <1>1, <1>2, <2>2 DEF IsTop, Before
    <3> QED BY <3>1, <2>2, <1>1, <1>2
  <2>4. \A h \in holdout : priority(h) = currPriority
    BY <1>1 DEF CurrentClass
  <2>5. Level(q)
    BY <1>1, <1>2, <2>1, <2>3, <2>4 DEF Level, SameClass
  <2>6. Level(k) /\ OneAhead(q, k) /\ \A h \in k : SameClass(h, p)
    BY <2>1 DEF Level, OneAhead
  <2>7. priority(p) = currPriority
    <3>1. PICK h \in holdout : TRUE
      BY <2>1
    <3>2. priority(p) <= currPriority
      BY <3>1, <1>5, <2>1, <2>4
    <3>3. priority(p) >= currPriority
      BY <1>1, <1>2, <1>3, <2>1, <2>3, <2>4
    <3> QED BY <3>2, <3>3, <1>1, <1>2, <1>3, <1>4
  <2>8. currPriority' = priority(p)
    BY <1>3, <1>8, <2>7
  <2> HIDE DEF q, k, back
  <2> QED BY <1>3, <1>4, <1>5, <1>6, <2>5, <2>6, <2>8
<1>9. CASE ready # {} /\ ~back
  <2>1. q = ready /\ k = holdout
    BY <1>9 DEF Refilled, HeldOut
  <2>2. \A h \in k : SameClass(h, p)
    <3> SUFFICES ASSUME NEW h \in k PROVE SameClass(h, p)
      OBVIOUS
    <3>1. holdout # {} /\ priority(h) = currPriority
      BY <2>1, <1>1 DEF CurrentClass
    <3>2. ~(currPriority < priority(p))
      BY <3>1, <2>1, <1>3, <1>9 DEF BringBack, Refilled, HeldOut
    <3>3. priority(p) >= currPriority
      BY <3>1, <2>1, <1>1 DEF CurrentClass
    <3>4. priority(p) \in Int
      BY <1>2, <1>4
    <3> QED BY <3>1, <3>2, <3>3, <3>4, <1>1 DEF SameClass
  <2>3. currPriority' = priority(p)
    BY <1>3, <1>9
  <2>4. Level(q) /\ Level(k) /\ OneAhead(q, k)
    BY <1>1, <2>1
  <2> HIDE DEF q, k, back
  <2> QED BY <1>3, <1>4, <1>5, <1>6, <2>2, <2>3, <2>4
<1> QED BY <1>7, <1>8, <1>9

LEMMA PriorityFirstStep ==
  ASSUME IInv, PriorityFirst
  PROVE  IInv'
<1>1. PICK q, k \in SUBSET Processes : \E p \in q :
           /\ q \cup k = ready \cup holdout /\ q \cap k = {}
           /\ Level(q) /\ Level(k) /\ OneAhead(q, k)
           /\ \A r \in q : priority(p) <= priority(r)
           /\ \A r \in q \ {p} : SameClass(p, r) => p < r
           /\ \A h \in k : SameClass(h, p)
           /\ currPriority' = priority(p) /\ Burst(p)
           /\ ready' = q \ {p}
           /\ holdout' = IF Done(est_remaining_runtime'[p]) THEN k
                                                            ELSE k \cup {p}
  BY Picked
<1>2. PICK p \in q :
           /\ q \cup k = ready \cup holdout /\ q \cap k = {}
           /\ Level(q) /\ Level(k) /\ OneAhead(q, k)
           /\ \A r \in q : priority(p) <= priority(r)
           /\ \A r \in q \ {p} : SameClass(p, r) => p < r
           /\ \A h \in k : SameClass(h, p)
           /\ currPriority' = priority(p) /\ Burst(p)
           /\ ready' = q \ {p}
           /\ holdout' = IF Done(est_remaining_runtime'[p]) THEN k
                                                            ELSE k \cup {p}
  BY <1>1
<1>3. /\ TestTypeOK /\ Remaining /\ EvenTurns /\ policy = "priority"
      /\ Unfinished = q \cup k /\ p \in Processes /\ p \in Unfinished
      /\ UNCHANGED <<iFile, processes, policy, processQueue>>
  BY <1>2 DEF IInv, PriorityFirst, Unfinished
<1>4. /\ Given(p)' = Given(p) + cyclesPerBurst
      /\ \A r \in Processes \ {p} :
           /\ Given(r)' = Given(r)
           /\ est_remaining_runtime'[r] = est_remaining_runtime[r]
      /\ cyclesPerBurst \in Nat
      /\ \A r \in Processes : Given(r) \in Int /\ r \in Nat /\ priority(r) \in Int
      /\ Processes' = Processes
  BY <1>2, <1>3, BurstGives, Numbers DEF Processes
<1>5. \A r \in Processes : priority(r)' = priority(r) /\ Work(r)' = Work(r)
  BY <1>3 DEF priority, Work
<1>6. /\ Unfinished' = ready' \cup holdout'
      /\ Unfinished' \subseteq q \cup k
      /\ p \in Unfinished' => ~Done(est_remaining_runtime'[p])
  BY <1>2, <1>3 DEF Unfinished
<1>7. TestTypeOK'
  <2>1. /\ est_remaining_runtime' \in [Processes -> Int]
        /\ completed' \in Seq(Processes)
    BY <1>2, <1>3, BurstGives
  <2>2. \A r \in Processes :
          \/ est_remaining_runtime'[r] = Work(r)
          \/ /\ Work(r) <= 0
             /\ est_remaining_runtime'[r] = Work(r) - cyclesPerBurst
          \/ est_remaining_runtime'[r] \in (1 - cyclesPerBurst)..Work(r)
    BY <1>2, <1>3, BurstLeaves
  <2>3. ready' \in SUBSET Processes /\ holdout' \in SUBSET (Processes \ ready')
    BY <1>2
  <2>4. currPriority' \in Int
    BY <1>2, <1>3, <1>4
  <2> QED BY <2>1, <2>2, <2>3, <2>4, <1>3, <1>4, <1>5 DEF TestTypeOK
<1>8. Remaining'
  <2> SUFFICES ASSUME NEW r \in Unfinished'
               PROVE  \/ est_remaining_runtime'[r] = Work(r)
                      \/ est_remaining_runtime'[r] \in 1..Work(r)
    BY <1>3 DEF Remaining, Work
  <2>1. CASE r = p
    BY <2>1, <1>2, <1>3, <1>6, BurstLeaves
  <2>2. CASE r # p
    BY <2>2, <1>2, <1>3, <1>4, <1>6 DEF Remaining
  <2> QED BY <2>1, <2>2
(* The picked process is level with its class in q, behind that in k.      *)
<1>9. /\ \A r \in q : SameClass(r, p) => Given(r) = Given(p)
      /\ \A h \in k : Given(h) = Given(p) + cyclesPerBurst /\ h < p
  BY <1>2, <1>3 DEF Level, OneAhead, SameClass
<1>10. EvenTurns'
  <2> SUFFICES ASSUME NEW a \in Unfinished', NEW b \in Processes,
                      SameClass(b, a)
               PROVE  /\ Given(b)' <= Given(a)' + cyclesPerBurst
                      /\ a < b => Given(b)' <= Given(a)'
    <3>1. Unfinished' \subseteq Processes
      BY <1>2, <1>6
    <3> QED BY <3>1, <1>3, <1>4, <1>5 DEF EvenTurns, Peers, SameClass
  <2>1. a \in q \cup k /\ a \in Processes /\ a \in Unfinished
    BY <1>3, <1>6
  <2>2. /\ Given(b) <= Given(a) + cyclesPerBurst
        /\ a < b => Given(b) <= Given(a)
    BY <2>1, <1>3 DEF EvenTurns, Peers, SameClass
  <2>3. CASE a = p
    BY <2>2, <2>3, <1>3, <1>4
  <2>4. CASE a # p /\ b # p
    BY <2>1, <2>2, <2>4, <1>4
  <2>5. CASE a # p /\ b = p /\ a \in q
    <3>1. Given(a) = Given(p) /\ p < a
      BY <2>5, <1>2, <1>9 DEF SameClass
    <3> QED BY <3>1, <2>1, <2>5, <1>3, <1>4
  <2>6. CASE a # p /\ b = p /\ a \in k
    <3>1. Given(a) = Given(p) + cyclesPerBurst
      BY <2>6, <1>9
    <3> QED BY <3>1, <2>1, <2>6, <1>3, <1>4
  <2> QED BY <2>1, <2>3, <2>4, <2>5, <2>6
<1>11. PriorityInv'
  <2>1. ready' \subseteq Processes \ {p} /\ ready' \subseteq q
    BY <1>2
  <2>2. \A h \in holdout' : \/ h = p
                            \/ h \in k /\ h \in Processes \ {p}
    BY <1>2
  <2>3. Level(ready)'
    BY <2>1, <1>2, <1>4, <1>5 DEF Level, SameClass
  <2>4. \A h \in holdout' : Given(h)' = Given(p) + cyclesPerBurst
    BY <2>2, <1>4, <1>9
  <2>5. Level(holdout)'
    BY <2>4 DEF Level
  <2>6. \A h \in holdout' : priority(h)' = priority(p)
    BY <2>2, <1>2, <1>3, <1>5 DEF SameClass
  <2>7. \A r \in ready' : SameClass(r, p) => Given(r)' = Given(p) /\ p < r
    BY <2>1, <1>2, <1>4, <1>9 DEF SameClass
  <2>8. OneAhead(ready, holdout)'
    <3> SUFFICES ASSUME NEW a \in ready', NEW b \in holdout',
                        priority(a)' = priority(b)'
                 PROVE  Given(b)' = Given(a)' + cyclesPerBurst /\ b < a
      BY DEF OneAhead, SameClass
    <3>1. SameClass(a, p)
      BY <2>1, <2>6, <1>5 DEF SameClass
    <3>2. Given(a)' = Given(p) /\ p < a
      BY <3>1, <2>7
    <3>3. b = p \/ b < p
      BY <2>2, <1>9
    <3>4. b \in Nat /\ a \in Nat /\ p \in Nat
      BY <2>1, <2>2, <1>3, <1>4
    <3> QED BY <3>2, <3>3, <3>4, <2>4
  <2>9. CurrentClass(ready, holdout, currPriority)'
    <3>1. \A r \in ready' : priority(r)' >= currPriority'
      BY <2>1, <1>2, <1>3, <1>4, <1>5
    <3> QED BY <3>1, <2>6, <1>2 DEF CurrentClass
  <2> QED BY <2>3, <2>5, <2>8, <2>9 DEF PriorityInv
<1> QED BY <1>3, <1>7, <1>8, <1>10, <1>11 DEF IInv

-------------------------------------------------------------------------------
LEMMA InitIInv == TestInit => IInv
<1> SUFFICES ASSUME TestInit PROVE IInv
  OBVIOUS
<1>1. processes \in ProcessFiles /\ processes \in Seq(Row)
  BY FilesAssumption DEF TestInit
<1>2. /\ Processes = 1..Len(processes) /\ Len(processes) \in Nat
      /\ processQueue \in Seq(Processes)
  BY <1>1 DEF TestInit, Processes
<1>3. \A p \in Processes : Work(p) \in Int
  <2>1. \A p \in Processes : processes[p] \in Row
    BY <1>1, <1>2
  <2> QED BY <2>1 DEF Work, Row
<1>4. TestTypeOK
  BY <1>1, <1>2, <1>3 DEF TestInit, TestTypeOK
<1>5. \A p \in Processes : Given(p) = 0
  BY <1>3 DEF Given, TestInit
<1>6. Unfinished \subseteq Processes
  BY <1>2, RangeOfSeq DEF TestInit, Unfinished
<1>7. Remaining
  BY <1>6 DEF Remaining, TestInit
<1>8. EvenTurns
  BY <1>5, <1>6, CyclesAssumption DEF EvenTurns, Peers
<1>9. Rotation
  BY <1>2, <1>5 DEF TestInit, Rotation
<1> QED BY <1>4, <1>7, <1>8, <1>9 DEF TestInit, IInv

LEMMA StartStep ==
  ASSUME IInv, StartPriority
  PROVE  IInv'
<1>1. /\ TestTypeOK /\ processes' = processes /\ processQueue' = processQueue
      /\ Processes' = Processes /\ policy' = "priority"
      /\ est_remaining_runtime' = [p \in Processes |-> Work(p)]
      /\ ready' = Processes /\ holdout' = {} /\ currPriority' = 0
      /\ completed' = <<>> /\ iFile' = iFile
  BY DEF IInv, StartPriority, Processes
<1>2. \A p \in Processes : Work(p) \in Int /\ Work(p)' = Work(p)
  BY <1>1, Numbers DEF Work
<1>3. TestTypeOK'
  BY <1>1, <1>2 DEF TestTypeOK
<1>4. \A p \in Processes : Given(p)' = 0
  BY <1>1, <1>2 DEF Given
<1>5. Unfinished' = Processes
  BY <1>1 DEF Unfinished
<1>6. Remaining'
  BY <1>1, <1>2, <1>5 DEF Remaining
<1>7. EvenTurns'
  BY <1>1, <1>4, <1>5, CyclesAssumption DEF EvenTurns, Peers
<1>8. PriorityInv'
  BY <1>1, <1>4 DEF PriorityInv, Level, OneAhead, CurrentClass
<1> QED BY <1>1, <1>3, <1>6, <1>7, <1>8 DEF IInv

(* The invariant is inductive: reading the file, stopping and stuttering   *)
(* leave every part as it was.                                             *)
LEMMA StepIInv == IInv /\ [TestNext]_testVars => IInv'
<1> SUFFICES ASSUME IInv, [TestNext]_testVars PROVE IInv'
  OBVIOUS
<1>1. CASE UNCHANGED testVars \/ Stop \/ ReadProcesses
  <2>1. /\ UNCHANGED <<processes, est_remaining_runtime, processQueue,
                       ready, holdout, currPriority, completed>>
        /\ UNCHANGED policy \/ (policy = "priority" /\ policy' = "stopped")
        /\ UNCHANGED iFile \/ iFile' \in {"eof", "failed"}
    BY <1>1 DEF testVars, Stop, ReadProcesses
  <2>2. TestTypeOK'
    BY <2>1 DEF IInv, TestTypeOK, Work, Processes
  <2>3. Unfinished' = Unfinished
    BY <2>1 DEF Unfinished
  <2>4. Remaining'
    BY <2>1, <2>3 DEF IInv, Remaining, Work
  <2>5. EvenTurns'
    BY <2>1, <2>3 DEF IInv, EvenTurns, Peers, Given, Work, priority,
                      Processes
  <2>6. ASSUME policy' = "roundRobin"
        PROVE  Rotation'
    BY <2>1, <2>6 DEF IInv, Rotation, Given, Work
  <2>7. ASSUME policy' = "priority"
        PROVE  PriorityInv'
    BY <2>1, <2>7 DEF IInv, PriorityInv, Level, OneAhead, CurrentClass,
                      SameClass, Given, Work, priority
  <2> QED BY <2>2, <2>4, <2>5, <2>6, <2>7 DEF IInv
<1>2. CASE RoundRobin
  BY <1>2, RoundRobinStep
<1>3. CASE StartPriority
  BY <1>3, StartStep
<1>4. CASE PriorityFirst
  BY <1>4, PriorityFirstStep
<1> QED BY <1>1, <1>2, <1>3, <1>4 DEF TestNext

(* It holds in every reachable state.                                      *)
LEMMA Invariance == TestSpec => []IInv
BY InitIInv, StepIInv, PTL DEF TestSpec

-------------------------------------------------------------------------------
(* Within a class no unfinished process is more than one burst behind, nor *)
(* behind one that is later in the file (scheduler.cpp:74-138).            *)
THEOREM TurnsAreEven == TestSpec => []EvenTurns
<1>1. IInv => EvenTurns
  BY DEF IInv
<1> QED BY <1>1, Invariance, PTL

(* PriorityFirst never serves a process while one of a better class is     *)
(* unfinished, be it in the priority_queue or in holdout.                  *)
THEOREM BestClassFirst == TestSpec => StrictPriority
<1>1. ASSUME IInv, PriorityFirst
      PROVE  \A p \in Processes :
               est_remaining_runtime'[p] # est_remaining_runtime[p] =>
                 \A r \in ready \cup holdout : priority(p) <= priority(r)
  <2>1. PICK q, k \in SUBSET Processes : \E p \in q :
             /\ q \cup k = ready \cup holdout
             /\ \A r \in q : priority(p) <= priority(r)
             /\ \A h \in k : SameClass(h, p)
             /\ Burst(p)
    BY <1>1, Picked
  <2>2. PICK p \in q :
             /\ q \cup k = ready \cup holdout
             /\ \A r \in q : priority(p) <= priority(r)
             /\ \A h \in k : SameClass(h, p)
             /\ Burst(p)
    BY <2>1
  <2>3. \A r \in Processes \ {p} :
          est_remaining_runtime'[r] = est_remaining_runtime[r]
    <3>1. TestTypeOK /\ processes' = processes /\ p \in Processes
      BY <1>1 DEF IInv, PriorityFirst
    <3> QED BY <3>1, <2>2, BurstGives
  <2>4. \A r \in ready \cup holdout : priority(p) <= priority(r)
    <3>1. priority(p) \in Int
      BY <1>1, Numbers DEF IInv
    <3> QED BY <3>1, <2>2 DEF SameClass
  <2> QED BY <2>3, <2>4
<1>2. IInv /\ [TestNext]_testVars =>
        [policy = "priority" =>
           \A p \in Processes :
             est_remaining_runtime'[p] # est_remaining_runtime[p] =>
               \A q \in ready \cup holdout : priority(p) <= priority(q)]_testVars
  <2> SUFFICES ASSUME IInv, TestNext, policy = "priority", NEW p \in Processes,
                      est_remaining_runtime'[p] # est_remaining_runtime[p]
               PROVE  \A q \in ready \cup holdout : priority(p) <= priority(q)
    BY DEF testVars
  <2>1. PriorityFirst
    BY DEF TestNext, RoundRobin, StartPriority, Stop, ReadProcesses
  <2> QED BY <1>1, <2>1
<1> QED BY <1>2, Invariance, PTL DEF TestSpec, StrictPriority

-------------------------------------------------------------------------------
(* Both policies complete the processes in the order the file determines.  *)

(* Multiples of a burst.                                                   *)
LEMMA Multiples ==
  ASSUME NEW c \in Nat, c >= 1, NEW m \in Nat, NEW n \in Nat
  PROVE  /\ m < n <=> m * c < n * c
         /\ m < n => m * c + c <= n * c
         /\ m * c < n * c + c => m * c <= n * c
         /\ (m + 1) * c = m * c + c
         /\ m * c \in Nat
<1>1. /\ m * c \in Nat /\ n * c \in Nat /\ (m + 1) * c = m * c + c
  OBVIOUS
<1>2. m < n => m * c + c <= n * c
  <2>1. m < n => (n - m - 1) * c >= 0
    OBVIOUS
  <2>2. n * c = m * c + c + (n - m - 1) * c
    OBVIOUS
  <2> QED BY <1>1, <2>1, <2>2
<1>3. n <= m => n * c <= m * c
  <2>1. n <= m => (m - n) * c >= 0
    OBVIOUS
  <2>2. m * c = n * c + (m - n) * c
    OBVIOUS
  <2> QED BY <1>1, <2>1, <2>2
<1>4. n < m => n * c + c <= m * c
  <2>1. n < m => (m - n - 1) * c >= 0
    OBVIOUS
  <2>2. m * c = n * c + c + (m - n - 1) * c
    OBVIOUS
  <2> QED BY <1>1, <2>1, <2>2
<1>5. m * c < n * c + c => m * c <= n * c
  BY <1>1, <1>3, <1>4, <1>2
<1> QED BY <1>1, <1>2, <1>3, <1>5

(* A process needs as many bursts as cover its work, and one at least.     *)
LEMMA BurstsCoverWork ==
  ASSUME TestTypeOK, NEW p \in Processes
  PROVE  /\ Bursts(p) \in Nat /\ Bursts(p) >= 1
         /\ Work(p) <= Bursts(p) * cyclesPerBurst
         /\ \/ Bursts(p) * cyclesPerBurst < Work(p) + cyclesPerBurst
            \/ Bursts(p) = 1
<1> DEFINE c == cyclesPerBurst
           w == Work(p)
           d == (w + c - 1) \div c
<1>1. c \in Nat /\ c >= 1 /\ w \in Int
  BY Numbers
<1>2. CASE w <= c
  BY <1>1, <1>2 DEF Bursts
<1>3. CASE w > c
  <2> HIDE DEF c, w
  <2>1. /\ d \in Int /\ c * d <= w + c - 1 /\ w + c - 1 < c * (d + 1)
    BY <1>1
  <2> HIDE DEF d
  <2>2. c * d = d * c /\ c * (d + 1) = d * c + c
    BY <1>1, <2>1
  <2>3. d >= 1
    <3>1. d * c > 0
      BY <1>1, <1>3, <2>1, <2>2
    <3> QED BY <3>1, <1>1, <2>1
  <2>4. Bursts(p) = d
    BY <1>1, <1>3 DEF Bursts, c, w, d
  <2>5. w <= d * c /\ d * c < w + c
    BY <1>1, <2>1, <2>2
  <2> QED BY <2>1, <2>3, <2>4, <2>5 DEF c, w
<1> QED BY <1>1, <1>2, <1>3

(* The front p of a turn: whoever else is unfinished is of a worse class,  *)
(* or level with p and later in the file, or one burst ahead.              *)
InFront(p, r) ==
  \/ policy # "roundRobin" /\ priority(p) < priority(r)
  \/ r \in Peers(p) /\ \/ Given(r) = Given(p) /\ p < r
                       \/ Given(r) = Given(p) + cyclesPerBurst

(* A burst of either policy, and whom it goes to.                          *)
LEMMA NextInLine ==
  ASSUME IInv, RoundRobin \/ PriorityFirst
  PROVE  \E p \in Processes \cap Unfinished :
           /\ Burst(p) /\ UNCHANGED <<processes, policy>>
           /\ Unfinished' = IF Done(est_remaining_runtime'[p])
                            THEN Unfinished \ {p} ELSE Unfinished
           /\ \A r \in Unfinished \ {p} : InFront(p, r)
           /\ Unfinished \subseteq Processes
<1>1. CASE RoundRobin
  <2> DEFINE q == processQueue
             p == Head(q)
             t == Tail(q)
  <2>1. /\ TestTypeOK /\ Rotation /\ policy = "roundRobin" /\ q # <<>>
        /\ q \in Seq(Processes) /\ Unfinished = Range(q)
    BY <1>1 DEF IInv, RoundRobin, TestTypeOK, Unfinished
  <2>2. /\ p \in Processes /\ t \in Seq(Processes)
        /\ Range(q) = {p} \cup Range(t) /\ Range(q) \subseteq Processes
    BY <2>1, HeadTailSeq, RangeOfSeq
  <2>3. /\ Burst(p) /\ UNCHANGED <<processes, policy>>
        /\ q' = IF Done(est_remaining_runtime'[p]) THEN t ELSE Append(t, p)
    BY <1>1 DEF RoundRobin, PushBack
  <2>4. \A r \in Range(t) :
          \/ Given(r) = Given(p) /\ p < r
          \/ Given(r) = Given(p) + cyclesPerBurst /\ r < p
    <3> SUFFICES ASSUME NEW j \in DOMAIN t
                 PROVE  LET r == t[j] IN
                        \/ Given(r) = Given(p) /\ p < r
                        \/ Given(r) = Given(p) + cyclesPerBurst /\ r < p
      BY DEF Range
    <3>1. /\ j + 1 \in DOMAIN q /\ 1 \in DOMAIN q /\ 1 < j + 1
          /\ t[j] = q[j + 1] /\ q[1] = p
      BY <2>1
    <3> QED BY <3>1, <2>1 DEF Rotation
  <2>5. \A r \in Processes : Given(r) \in Int /\ r \in Nat
    BY <2>1, Numbers
  <2> HIDE DEF p, t
  <2>6. p \notin Range(t)
    BY <2>2, <2>4, <2>5
  <2>7. Range(Append(t, p)) = Range(t) \cup {p}
    BY <2>2, AppendSeq
  <2>8. Unfinished' = Range(q')
    BY <2>1, <2>3 DEF Unfinished
  <2>9. \A r \in Unfinished \ {p} : InFront(p, r)
    BY <2>1, <2>2, <2>4 DEF InFront, Peers
  <2> HIDE DEF q
  <2> QED BY <2>1, <2>2, <2>3, <2>6, <2>7, <2>8, <2>9
<1>2. CASE PriorityFirst
  <2>1. PICK q, k \in SUBSET Processes : \E p \in q :
             /\ q \cup k = ready \cup holdout /\ q \cap k = {}
             /\ Level(q) /\ OneAhead(q, k)
             /\ \A r \in q : priority(p) <= priority(r)
             /\ \A r \in q \ {p} : SameClass(p, r) => p < r
             /\ \A h \in k : SameClass(h, p)
             /\ Burst(p)
             /\ ready' = q \ {p}
             /\ holdout' = IF Done(est_remaining_runtime'[p]) THEN k
                                                              ELSE k \cup {p}
    BY <1>2, Picked
  <2>2. PICK p \in q :
             /\ q \cup k = ready \cup holdout /\ q \cap k = {}
             /\ Level(q) /\ OneAhead(q, k)
             /\ \A r \in q : priority(p) <= priority(r)
             /\ \A r \in q \ {p} : SameClass(p, r) => p < r
             /\ \A h \in k : SameClass(h, p)
             /\ Burst(p)
             /\ ready' = q \ {p}
             /\ holdout' = IF Done(est_remaining_runtime'[p]) THEN k
                                                              ELSE k \cup {p}
    BY <2>1
  <2>3. /\ TestTypeOK /\ policy = "priority" /\ UNCHANGED <<processes, policy>>
        /\ Unfinished = q \cup k /\ Unfinished' = ready' \cup holdout'
    BY <1>2, <2>2 DEF IInv, PriorityFirst, Unfinished
  <2>4. \A r \in Processes : priority(r) \in Int
    BY <2>3, Numbers
  <2>5. ASSUME NEW r \in q \ {p}
        PROVE  InFront(p, r)
    <3>1. CASE SameClass(p, r)
      <4>1. Given(r) = Given(p) /\ p < r
        BY <3>1, <2>2 DEF Level
      <4> QED BY <3>1, <4>1 DEF InFront, Peers, SameClass
    <3>2. CASE ~SameClass(p, r)
      <4>1. priority(p) < priority(r)
        BY <3>2, <2>2, <2>4 DEF SameClass
      <4> QED BY <4>1, <2>3 DEF InFront
    <3> QED BY <3>1, <3>2
  <2>6. ASSUME NEW h \in k
        PROVE  InFront(p, h)
    <3>1. SameClass(p, h) /\ Given(h) = Given(p) + cyclesPerBurst
      BY <2>2 DEF OneAhead, SameClass
    <3> QED BY <3>1 DEF InFront, Peers, SameClass
  <2>7. Unfinished' = IF Done(est_remaining_runtime'[p])
                      THEN Unfinished \ {p} ELSE Unfinished
    BY <2>2, <2>3
  <2> QED BY <2>2, <2>3, <2>5, <2>6, <2>7
<1> QED BY <1>1, <1>2

(* Time is given in whole bursts, and an unfinished process has not had    *)
(* all that its work takes.                                                *)
InBursts ==
  /\ \A p \in Processes : \E n \in Nat : Given(p) = n * cyclesPerBurst
  /\ \A p \in Unfinished :
       Given(p) + cyclesPerBurst <= Bursts(p) * cyclesPerBurst

(* The burst after which a process is done is the last it needs.           *)
LEMMA LastBurst ==
  ASSUME TestTypeOK, InBursts, NEW p \in Processes \cap Unfinished, Burst(p),
         UNCHANGED processes
  PROVE  /\ \E n \in Nat : Given(p)' = n * cyclesPerBurst
         /\ Done(est_remaining_runtime'[p]) =>
              Bursts(p) * cyclesPerBurst = Given(p) + cyclesPerBurst
         /\ ~Done(est_remaining_runtime'[p]) =>
              Given(p)' + cyclesPerBurst <= Bursts(p) * cyclesPerBurst
<1> DEFINE c == cyclesPerBurst
           w == Work(p)
           r == est_remaining_runtime'[p]
           g == Given(p)
           T == Bursts(p) * c
<1>1. /\ c \in Nat /\ c >= 1 /\ w \in Int /\ g \in Int
      /\ est_remaining_runtime[p] \in Int
  BY Numbers
<1>2. r = w - (g + c) /\ Given(p)' = g + c
  BY <1>1, BurstGives DEF Given
<1>3. PICK n \in Nat : g = n * c
  BY DEF InBursts
<1>4. /\ Bursts(p) \in Nat /\ Bursts(p) >= 1 /\ w <= T
      /\ T < w + c \/ Bursts(p) = 1
  BY BurstsCoverWork
<1>5. /\ (n + 1) * c = n * c + c /\ T \in Nat
      /\ T < (n + 1) * c + c => T <= (n + 1) * c
      /\ n + 1 < Bursts(p) => (n + 1) * c + c <= T
      /\ n + 1 < Bursts(p) <=> (n + 1) * c < T
  BY <1>1, <1>4, Multiples
<1>6. g + c <= T
  BY DEF InBursts
<1>7. Bursts(p) = 1 => T = c
  BY <1>1
<1>8. g >= 0
  BY <1>1, <1>3
<1> HIDE DEF c, w, r, g, T
<1>9. Given(p)' = (n + 1) * c
  BY <1>2, <1>3, <1>5
<1>10. Done(r) => T = g + c
  BY <1>1, <1>2, <1>3, <1>4, <1>5, <1>6, <1>7, <1>8 DEF Done
<1>11. ~Done(r) => Given(p)' + c <= T
  BY <1>1, <1>2, <1>3, <1>4, <1>5, <1>6 DEF Done
<1> QED BY <1>9, <1>10, <1>11 DEF c, r, g, T

(* So of two unfinished processes the one in front completes first.        *)
LEMMA FrontCompletesFirst ==
  ASSUME TestTypeOK, InBursts, NEW p \in Processes, NEW r \in Processes,
         r \in Unfinished, InFront(p, r),
         Bursts(p) * cyclesPerBurst = Given(p) + cyclesPerBurst
  PROVE  CompletesBefore(p, r)
<1> DEFINE c == cyclesPerBurst
<1>1. /\ c \in Nat /\ c >= 1 /\ Given(p) \in Int /\ Given(r) \in Int
      /\ Bursts(p) \in Nat /\ Bursts(r) \in Nat
  BY Numbers, BurstsCoverWork
<1>2. Given(r) + c <= Bursts(r) * c
  BY DEF InBursts
<1>3. /\ Bursts(p) < Bursts(r) <=> Bursts(p) * c < Bursts(r) * c
      /\ Bursts(r) < Bursts(p) <=> Bursts(r) * c < Bursts(p) * c
      /\ Bursts(p) * c \in Nat /\ Bursts(r) * c \in Nat
  BY <1>1, Multiples
<1>4. CASE Given(r) = Given(p) /\ p < r /\ r \in Peers(p)
  <2>1. Bursts(p) * c <= Bursts(r) * c
    BY <1>2, <1>4
  <2>2. Bursts(p) < Bursts(r) \/ Bursts(p) = Bursts(r)
    BY <1>1, <1>3, <2>1
  <2> QED BY <1>4, <2>2 DEF CompletesBefore
<1>5. CASE Given(r) = Given(p) + c /\ r \in Peers(p)
  <2>1. Bursts(p) * c < Bursts(r) * c
    BY <1>1, <1>2, <1>3, <1>5
  <2> QED BY <1>3, <1>5, <2>1 DEF CompletesBefore
<1> QED BY <1>4, <1>5 DEF InFront, CompletesBefore

(* The inductive invariant.                                                *)
DInv == IInv /\ InBursts /\ CompletionOrder

(* What a burst does to the order in which processes complete.             *)
LEMMA BurstDInv ==
  ASSUME DInv, RoundRobin \/ PriorityFirst
  PROVE  InBursts' /\ CompletionOrder'
<1>1. PICK p \in Processes \cap Unfinished :
         /\ Burst(p) /\ UNCHANGED <<processes, policy>>
         /\ Unfinished' = IF Done(est_remaining_runtime'[p])
                          THEN Unfinished \ {p} ELSE Unfinished
         /\ \A r \in Unfinished \ {p} : InFront(p, r)
         /\ Unfinished \subseteq Processes
  BY NextInLine DEF DInv
<1>2. TestTypeOK /\ InBursts /\ CompletionOrder /\ completed \in Seq(Processes)
  BY DEF DInv, IInv, TestTypeOK
<1>3. /\ \E n \in Nat : Given(p)' = n * cyclesPerBurst
      /\ Done(est_remaining_runtime'[p]) =>
           Bursts(p) * cyclesPerBurst = Given(p) + cyclesPerBurst
      /\ ~Done(est_remaining_runtime'[p]) =>
           Given(p)' + cyclesPerBurst <= Bursts(p) * cyclesPerBurst
  BY <1>1, <1>2, LastBurst
<1>4. /\ \A q \in Processes \ {p} : Given(q)' = Given(q)
      /\ Processes' = Processes
  BY <1>1, <1>2, BurstGives DEF Processes
<1>5. \A q \in Processes : Bursts(q)' = Bursts(q)
  BY <1>1 DEF Bursts, Work
<1>6. InBursts'
  BY <1>1, <1>2, <1>3, <1>4, <1>5 DEF InBursts
<1>7. \A a, b : CompletesBefore(a, b)' <=> CompletesBefore(a, b)
  BY <1>1 DEF CompletesBefore, Peers, priority, Bursts, Work, Processes
<1>8. CASE ~Done(est_remaining_runtime'[p])
  <2>1. completed' = completed /\ Unfinished' = Unfinished
    BY <1>1, <1>8 DEF Burst
  <2> QED BY <2>1, <1>2, <1>4, <1>6, <1>7 DEF CompletionOrder
<1>9. CASE Done(est_remaining_runtime'[p])
  <2>1. completed' = Append(completed, p) /\ Unfinished' = Unfinished \ {p}
    BY <1>1, <1>9 DEF Burst
  <2>2. Range(completed') = Range(completed) \cup {p}
    BY <1>2, <2>1, AppendSeq
  <2>3. /\ Len(completed) \in Nat /\ DOMAIN completed = 1..Len(completed)
        /\ DOMAIN completed' = 1..(Len(completed) + 1)
        /\ \A i \in 1..Len(completed) : completed'[i] = completed[i]
        /\ completed'[Len(completed) + 1] = p
    BY <1>2, <2>1
  <2>4. \A r \in Unfinished \ {p} : CompletesBefore(p, r)
    BY <1>1, <1>2, <1>3, <1>9, FrontCompletesFirst
  <2>5. ASSUME NEW i \in DOMAIN completed', NEW j \in DOMAIN completed', i < j,
               NEW a, a = completed'[i], NEW b, b = completed'[j]
        PROVE  CompletesBefore(a, b)
    <3>1. i \in DOMAIN completed /\ a = completed[i]
      BY <2>3, <2>5
    <3>2. CASE j \in DOMAIN completed
      BY <3>1, <3>2, <2>3, <2>5, <1>2 DEF CompletionOrder
    <3>3. CASE j \notin DOMAIN completed
      <4>1. b = p
        BY <3>3, <2>3, <2>5
      <4> QED BY <3>1, <4>1, <1>1, <1>2 DEF CompletionOrder
    <3> QED BY <3>2, <3>3
  <2>6. ASSUME NEW i \in DOMAIN completed', NEW a, a = completed'[i],
               NEW r \in Unfinished \ {p}
        PROVE  CompletesBefore(a, r)
    <3>1. CASE i \in DOMAIN completed
      BY <3>1, <2>3, <2>6, <1>2 DEF CompletionOrder
    <3>2. CASE i \notin DOMAIN completed
      <4>1. a = p
        BY <3>2, <2>3, <2>6
      <4> QED BY <4>1, <2>4
    <3> QED BY <3>1, <3>2
  <2>7. Range(completed') \cup Unfinished' = Processes'
    BY <1>1, <1>2, <1>4, <2>1, <2>2 DEF CompletionOrder
  <2> QED BY <1>6, <1>7, <2>1, <2>5, <2>6, <2>7 DEF CompletionOrder
<1> QED BY <1>8, <1>9

(* Nobody has been given anything, and everybody is unfinished.            *)
Fresh == /\ completed = <<>> /\ Unfinished = Processes
         /\ \A p \in Processes : est_remaining_runtime[p] = Work(p)

(* Then nothing has been given out of order.                               *)
LEMMA FreshStart == TestTypeOK /\ Fresh => InBursts /\ CompletionOrder
<1> SUFFICES ASSUME TestTypeOK, Fresh PROVE InBursts /\ CompletionOrder
  OBVIOUS
<1> USE DEF Fresh
<1>1. \A p \in Processes : Given(p) = 0
  BY Numbers DEF Given
<1>2. /\ cyclesPerBurst \in Nat /\ cyclesPerBurst >= 1
      /\ 0 * cyclesPerBurst = 0
  BY Numbers
<1>3. ASSUME NEW p \in Processes
      PROVE  Given(p) + cyclesPerBurst <= Bursts(p) * cyclesPerBurst
  <2>1. Bursts(p) \in Nat /\ Bursts(p) >= 1
    BY BurstsCoverWork
  <2>2. 0 < Bursts(p) => 0 * cyclesPerBurst + cyclesPerBurst
                           <= Bursts(p) * cyclesPerBurst
    BY <1>2, <2>1, Multiples
  <2> QED BY <1>1, <1>2, <2>1, <2>2
<1>4. InBursts
  BY <1>1, <1>2, <1>3 DEF InBursts
<1>5. DOMAIN completed = {} /\ Range(completed) = {}
  BY DEF Range
<1> QED BY <1>4, <1>5 DEF CompletionOrder

(* The processes complete in the order the file alone determines: by class *)
(* under PriorityFirst, then by the number of bursts the work takes, then  *)
(* by row; and none is forgotten or completed twice.                       *)
(* (scheduler.cpp:82-92, 104-137)                                          *)
THEOREM CompletesInOrder == TestSpec => []CompletionOrder
<1>1. TestInit => DInv
  <2> SUFFICES ASSUME TestInit PROVE DInv
    OBVIOUS
  <2>1. IInv /\ TestTypeOK
    BY InitIInv DEF IInv
  <2>2. Processes = 1..Len(processes)
    BY <2>1, Numbers
  <2>3. Unfinished = Processes
    BY <2>2 DEF TestInit, Unfinished, Range
  <2>4. Fresh
    BY <2>3 DEF TestInit, Fresh
  <2> QED BY <2>1, <2>4, FreshStart DEF DInv
<1>2. DInv /\ [TestNext]_testVars => DInv'
  <2> SUFFICES ASSUME DInv, [TestNext]_testVars PROVE InBursts' /\ CompletionOrder'
    BY StepIInv DEF DInv
  <2>1. CASE RoundRobin \/ PriorityFirst
    BY <2>1, BurstDInv
  <2>2. CASE StartPriority
    <3>1. TestTypeOK' /\ TestTypeOK
      BY StepIInv DEF DInv, IInv
    <3>2. Fresh'
      BY <2>2 DEF StartPriority, Fresh, Unfinished, Processes, Work
    <3>3. (TestTypeOK /\ Fresh => InBursts /\ CompletionOrder)'
      BY FreshStart, PTL
    <3> QED BY <3>1, <3>2, <3>3
  <2>3. CASE UNCHANGED testVars \/ Stop \/ ReadProcesses
    <3>1. /\ UNCHANGED <<processes, est_remaining_runtime, processQueue,
                         ready, holdout, completed>>
          /\ UNCHANGED policy \/ (policy = "priority" /\ policy' = "stopped")
      BY <2>3 DEF testVars, Stop, ReadProcesses
    <3>2. Unfinished' = Unfinished /\ Processes' = Processes
      BY <3>1 DEF Unfinished, Processes
    <3>3. \A a, b : CompletesBefore(a, b)' <=> CompletesBefore(a, b)
      BY <3>1 DEF CompletesBefore, Peers, priority, Bursts, Work, Processes
    <3>4. \A p : Given(p)' = Given(p) /\ Bursts(p)' = Bursts(p)
      BY <3>1 DEF Given, Bursts, Work
    <3> QED BY <3>1, <3>2, <3>3, <3>4 DEF DInv, InBursts, CompletionOrder
  <2> QED BY <2>1, <2>2, <2>3 DEF TestNext
<1>3. DInv => CompletionOrder
  BY DEF DInv
<1> QED BY <1>1, <1>2, <1>3, PTL DEF TestSpec

===============================================================================
