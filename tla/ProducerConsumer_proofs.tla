------------------------- MODULE ProducerConsumer_proofs ------------------------
(***************************************************************************)
(* What LAB/Task5/ProducerConsumer.c guarantees for any number of runs,    *)
(* any ring and any number of rounds: its semaphores count what they are   *)
(* for, and each run is a bounded buffer, first in first out.              *)
(***************************************************************************)
EXTENDS ProducerConsumer, TLAPS

(* Where the processes of a run can be, and what i says of that.           *)
Rounds(r) ==
  /\ \A role \in Roles : /\ at[r][role] \in 1..5 => i[r][role] < Loops
                         /\ at[r][role] = NotBegun => i[r][role] = 0
                         /\ at[r][role] = AfterLoop => i[r][role] = Loops
  /\ at[r]["producer"] = NotBegun <=> at[r]["consumer"] = NotBegun
  /\ at[r]["producer"] = Exited => /\ at[r]["consumer"] = Exited
                                   /\ i[r]["producer"] = i[r]["consumer"]
  /\ at[r]["consumer"] = Exited => \/ i[r]["consumer"] = Loops
                                   \/ at[r]["producer"] = Exited

(* A round has put, or taken, one entry.                                   *)
Lengths(r) ==
  /\ Len(entered[r]) = i[r]["producer"] + Past(r, "producer", 4, 5)
  /\ Len(consumed[r]) = i[r]["consumer"] + Past(r, "consumer", 4, 5)

Turns(r) == Counted(r) /\ Rounds(r) /\ Lengths(r)

(* The cell d cells after the one the consumer goes on with; what waits in *)
(* the ring; and that the ring holds it.                                   *)
CellAt(r, d) == IF Wrapped(nextc[r]) + d < N THEN Wrapped(nextc[r]) + d
                                             ELSE Wrapped(nextc[r]) + d - N

Waiting(r) == Len(entered[r]) - Len(consumed[r])

Place(r) == Wrapped(nextp[r]) = CellAt(r, Waiting(r))

Held(r) ==
  r \notin disturbed =>
    \A d \in 0..(Waiting(r) - 1) :
      buffer[CellAt(r, d)] = entered[r][Len(consumed[r]) + d + 1]

(* The inductive invariant.                                                *)
IInv == TypeOK /\ \A r \in Runs : Turns(r) /\ Place(r) /\ Held(r)

-------------------------------------------------------------------------------
(* The call at each place.                                                 *)
Waits(role)     == IF role = "producer" THEN "empty" ELSE "full"
Announces(role) == IF role = "producer" THEN "full" ELSE "empty"

LEMMA PCalls ==
  ASSUME NEW r \in Runs, NEW role \in Roles, NEW s, MayCall(r, role, <<"P", s>>)
  PROVE  \/ at[r][role] = 1 /\ s = Waits(role)
         \/ at[r][role] = 2 /\ s = "mutex"
BY DEF MayCall, Text, ProducerText, ConsumerText, Roles, Waits

LEMMA VCalls ==
  ASSUME NEW r \in Runs, NEW role \in Roles, NEW s, MayCall(r, role, <<"V", s>>)
  PROVE  \/ at[r][role] = 4 /\ s = "mutex"
         \/ at[r][role] = 5 /\ s = Announces(role)
BY DEF MayCall, Text, ProducerText, ConsumerText, Roles, Announces

LEMMA InsideCalls ==
  ASSUME NEW r \in Runs
  PROVE  /\ MayCall(r, "producer", <<"produce">>) => at[r]["producer"] = 3
         /\ MayCall(r, "consumer", <<"consume">>) => at[r]["consumer"] = 3
BY DEF MayCall, Text, ProducerText, ConsumerText

(* The three ways on.                                                      *)
LEMMA WaysOn ==
  ASSUME TypeOK, NEW r \in Runs, NEW role \in Roles,
         at[r][role] \in 1..5, i[r][role] < Loops, GoOn(r, role)
  PROVE  /\ at' \in [Runs -> [Roles -> NotBegun..Exited]]
         /\ i' \in [Runs -> [Roles -> 0..Loops]]
         /\ \A s \in Runs \ {r} : at'[s] = at[s] /\ i'[s] = i[s]
         /\ \A other \in Roles \ {role} : /\ at'[r][other] = at[r][other]
                                         /\ i'[r][other] = i[r][other]
         /\ at[r][role] < 5 => /\ at'[r][role] = at[r][role] + 1
                               /\ i'[r][role] = i[r][role]
         /\ at[r][role] = 5 => /\ i'[r][role] = i[r][role] + 1
                               /\ at'[r][role] = IF i'[r][role] < Loops
                                                 THEN 1 ELSE AfterLoop
<1> DEFINE Places == NotBegun..Exited
           Counts == 0..Loops
<1>1. at \in [Runs -> [Roles -> Places]] /\ i \in [Runs -> [Roles -> Counts]]
  BY DEF TypeOK
<1>2. at[r][role] \in Places /\ i[r][role] \in Counts
  BY <1>1
<1>3. CASE at[r][role] < 5
  <2>1. at' = [at EXCEPT ![r][role] = @ + 1] /\ i' = i
    BY <1>3 DEF GoOn
  <2>2. at[r][role] + 1 \in Places
    BY <1>2, <1>3 DEF NotBegun, Exited
  <2> HIDE DEF Places, Counts
  <2> QED
    BY <1>1, <1>3, <2>1, <2>2 DEF Places, Counts
<1>4. CASE at[r][role] = 5
  <2>1. PICK next \in {1, AfterLoop} :
          /\ next = IF i[r][role] + 1 < Loops THEN 1 ELSE AfterLoop
          /\ i' = [i EXCEPT ![r][role] = @ + 1]
          /\ at' = [at EXCEPT ![r][role] = next]
    BY <1>4 DEF GoOn
  <2>2. i[r][role] + 1 \in Counts
    BY <1>2, LoopsAssumption
  <2>3. next \in Places
    BY DEF NotBegun, AfterLoop, Exited
  <2> HIDE DEF Places, Counts
  <2>4. /\ at' \in [Runs -> [Roles -> Places]]
        /\ i' \in [Runs -> [Roles -> Counts]]
    BY <1>1, <2>1, <2>2, <2>3
  <2>5. at'[r][role] = next /\ i'[r][role] = i[r][role] + 1
    BY <1>1, <2>1
  <2>6. /\ \A s \in Runs \ {r} : at'[s] = at[s] /\ i'[s] = i[s]
        /\ \A other \in Roles \ {role} : /\ at'[r][other] = at[r][other]
                                        /\ i'[r][other] = i[r][other]
    BY <1>1, <2>1
  <2> QED
    BY <1>4, <2>1, <2>4, <2>5, <2>6 DEF Places, Counts
<1> QED
  BY <1>3, <1>4

(* A run none of whose state is touched keeps what the invariant says of   *)
(* it.                                                                     *)
LEMMA Untouched ==
  ASSUME NEW s \in Runs, Turns(s), Place(s),
         sem'[s] = sem[s], at'[s] = at[s], i'[s] = i[s],
         nextp'[s] = nextp[s], nextc'[s] = nextc[s],
         entered'[s] = entered[s], consumed'[s] = consumed[s]
  PROVE  /\ Turns(s)' /\ Place(s)'
         /\ Waiting(s)' = Waiting(s)
         /\ \A d : CellAt(s, d)' = CellAt(s, d)
<1>1. Counted(s)'
  BY DEF Turns, Counted, Past
<1>2. Rounds(s)'
  BY DEF Turns, Rounds
<1>3. Lengths(s)'
  BY DEF Turns, Lengths, Past
<1>4. Waiting(s)' = Waiting(s) /\ \A d : CellAt(s, d)' = CellAt(s, d)
  BY DEF Waiting, CellAt, Wrapped
<1>5. Place(s)'
  BY DEF Place, Waiting, CellAt, Wrapped
<1> QED
  BY <1>1, <1>2, <1>3, <1>4, <1>5 DEF Turns

LEMMA LeftAlone ==
  ASSUME NEW s \in Runs, Turns(s), Place(s), Held(s),
         sem'[s] = sem[s], at'[s] = at[s], i'[s] = i[s],
         nextp'[s] = nextp[s], nextc'[s] = nextc[s],
         entered'[s] = entered[s], consumed'[s] = consumed[s],
         buffer' = buffer, disturbed' = disturbed
  PROVE  Turns(s)' /\ Place(s)' /\ Held(s)'
<1>1. Turns(s)' /\ Place(s)'
  BY Untouched
<1>2. Held(s)'
  BY DEF Held, Waiting, CellAt, Wrapped
<1> QED
  BY <1>1, <1>2

LEMMA SemMoves ==
  ASSUME TypeOK, NEW r \in Runs, NEW role \in Roles, SemCall(r, role)
  PROVE  /\ sem' \in [Runs -> [Semaphores -> Nat]]
         /\ \A t \in Runs \ {r} : sem'[t] = sem[t]
         /\ \/ /\ at[r][role] = 1
               /\ sem[r][Waits(role)] > 0
               /\ sem'[r] = [sem[r] EXCEPT ![Waits(role)] = @ - 1]
            \/ /\ at[r][role] = 2
               /\ sem[r]["mutex"] > 0
               /\ sem'[r] = [sem[r] EXCEPT !["mutex"] = @ - 1]
            \/ /\ at[r][role] = 4
               /\ sem'[r] = [sem[r] EXCEPT !["mutex"] = @ + 1]
            \/ /\ at[r][role] = 5
               /\ sem'[r] = [sem[r] EXCEPT ![Announces(role)] = @ + 1]
<1>1. PICK s \in Semaphores :
        \/ /\ MayCall(r, role, <<"P", s>>) /\ sem[r][s] > 0
           /\ sem' = [sem EXCEPT ![r][s] = @ - 1]
        \/ /\ MayCall(r, role, <<"V", s>>)
           /\ sem' = [sem EXCEPT ![r][s] = @ + 1]
  BY DEF SemCall
<1>2. sem \in [Runs -> [Semaphores -> Nat]] /\ sem[r][s] \in Nat
  BY DEF TypeOK
<1>3. CASE /\ MayCall(r, role, <<"P", s>>) /\ sem[r][s] > 0
           /\ sem' = [sem EXCEPT ![r][s] = @ - 1]
  <2>1. sem[r][s] - 1 \in Nat
    BY <1>2, <1>3
  <2>2. /\ sem' \in [Runs -> [Semaphores -> Nat]]
        /\ \A t \in Runs \ {r} : sem'[t] = sem[t]
        /\ sem'[r] = [sem[r] EXCEPT ![s] = @ - 1]
    BY <1>2, <1>3, <2>1
  <2>3. \/ at[r][role] = 1 /\ s = Waits(role)
        \/ at[r][role] = 2 /\ s = "mutex"
    BY <1>3, PCalls
  <2> QED
    BY <1>3, <2>2, <2>3
<1>4. CASE /\ MayCall(r, role, <<"V", s>>)
           /\ sem' = [sem EXCEPT ![r][s] = @ + 1]
  <2>1. /\ sem' \in [Runs -> [Semaphores -> Nat]]
        /\ \A t \in Runs \ {r} : sem'[t] = sem[t]
        /\ sem'[r] = [sem[r] EXCEPT ![s] = @ + 1]
    BY <1>2, <1>4
  <2>2. \/ at[r][role] = 4 /\ s = "mutex"
        \/ at[r][role] = 5 /\ s = Announces(role)
    BY <1>4, VCalls
  <2> QED
    BY <2>1, <2>2
<1> QED
  BY <1>1, <1>3, <1>4

(* P and V.                                                                *)
LEMMA SemStep ==
  ASSUME IInv, NEW r \in Runs, NEW role \in Roles, SemCall(r, role)
  PROVE  IInv'
<1>1. TypeOK /\ Turns(r) /\ Place(r) /\ Held(r)
  BY DEF IInv
<1>2. /\ buffer' = buffer /\ nextp' = nextp /\ nextc' = nextc
      /\ entered' = entered /\ consumed' = consumed
      /\ badInputs' = badInputs /\ disturbed' = disturbed
  BY DEF SemCall
<1>3. at[r][role] \in 1..5 /\ i[r][role] < Loops
  <2>1. at[r][role] \in 1..5
    BY DEF SemCall, MayCall
  <2> QED
    BY <1>1, <2>1 DEF Turns, Rounds
<1>4. GoOn(r, role)
  BY DEF SemCall
<1>5. /\ at' \in [Runs -> [Roles -> NotBegun..Exited]]
      /\ i' \in [Runs -> [Roles -> 0..Loops]]
      /\ \A s \in Runs \ {r} : at'[s] = at[s] /\ i'[s] = i[s]
      /\ \A other \in Roles \ {role} : /\ at'[r][other] = at[r][other]
                                      /\ i'[r][other] = i[r][other]
      /\ at[r][role] < 5 => /\ at'[r][role] = at[r][role] + 1
                            /\ i'[r][role] = i[r][role]
      /\ at[r][role] = 5 => /\ i'[r][role] = i[r][role] + 1
                            /\ at'[r][role] = IF i'[r][role] < Loops
                                              THEN 1 ELSE AfterLoop
  BY <1>1, <1>3, <1>4, WaysOn
<1>6. /\ sem' \in [Runs -> [Semaphores -> Nat]]
      /\ \A t \in Runs \ {r} : sem'[t] = sem[t]
      /\ \/ /\ at[r][role] = 1
            /\ sem[r][Waits(role)] > 0
            /\ sem'[r] = [sem[r] EXCEPT ![Waits(role)] = @ - 1]
         \/ /\ at[r][role] = 2
            /\ sem[r]["mutex"] > 0
            /\ sem'[r] = [sem[r] EXCEPT !["mutex"] = @ - 1]
         \/ /\ at[r][role] = 4
            /\ sem'[r] = [sem[r] EXCEPT !["mutex"] = @ + 1]
         \/ /\ at[r][role] = 5
            /\ sem'[r] = [sem[r] EXCEPT ![Announces(role)] = @ + 1]
  BY <1>1, SemMoves
<1>7. TypeOK'
  BY <1>1, <1>2, <1>5, <1>6 DEF TypeOK
<1>8. /\ at[r] \in [Roles -> 0..7] /\ at'[r] \in [Roles -> 0..7]
      /\ i[r] \in [Roles -> Nat] /\ i'[r] \in [Roles -> Nat]
      /\ sem[r] \in [Semaphores -> Nat]
  BY <1>1, <1>5, LoopsAssumption DEF TypeOK, NotBegun, Exited
<1>9. Turns(r)'
  <2>1. CASE role = "producer"
    <3>1. /\ \/ /\ at[r]["producer"] = 1
             /\ sem'[r]["empty"] = sem[r]["empty"] - 1
             /\ sem'[r]["full"] = sem[r]["full"]
             /\ sem'[r]["mutex"] = sem[r]["mutex"]
          \/ /\ at[r]["producer"] = 2
             /\ sem'[r]["empty"] = sem[r]["empty"]
             /\ sem'[r]["full"] = sem[r]["full"]
             /\ sem'[r]["mutex"] = sem[r]["mutex"] - 1
          \/ /\ at[r]["producer"] = 4
             /\ sem'[r]["empty"] = sem[r]["empty"]
             /\ sem'[r]["full"] = sem[r]["full"]
             /\ sem'[r]["mutex"] = sem[r]["mutex"] + 1
          \/ /\ at[r]["producer"] = 5
             /\ sem'[r]["empty"] = sem[r]["empty"]
             /\ sem'[r]["full"] = sem[r]["full"] + 1
             /\ sem'[r]["mutex"] = sem[r]["mutex"]
    BY <1>6, <1>8, <2>1 DEF Waits, Announces, Semaphores
    <3>2. /\ at'[r]["consumer"] = at[r]["consumer"]
          /\ i'[r]["consumer"] = i[r]["consumer"]
          /\ at[r]["producer"] \in 1..5 /\ i[r]["producer"] < Loops
          /\ at[r]["producer"] < 5 => /\ at'[r]["producer"] = at[r]["producer"] + 1
                                     /\ i'[r]["producer"] = i[r]["producer"]
          /\ at[r]["producer"] = 5 => /\ i'[r]["producer"] = i[r]["producer"] + 1
                                     /\ at'[r]["producer"] =
                                          IF i'[r]["producer"] < Loops THEN 1 ELSE 6
      BY <1>3, <1>5, <2>1 DEF Roles, AfterLoop
    <3>3. /\ at[r]["producer"] \in 0..7 /\ at[r]["consumer"] \in 0..7
          /\ at'[r]["producer"] \in 0..7 /\ at'[r]["consumer"] \in 0..7
          /\ i[r]["producer"] \in Nat /\ i[r]["consumer"] \in Nat
          /\ i'[r]["producer"] \in Nat /\ i'[r]["consumer"] \in Nat
          /\ sem[r]["empty"] \in Nat /\ sem[r]["full"] \in Nat
          /\ sem[r]["mutex"] \in Nat
      BY <1>8 DEF Roles, Semaphores
    <3>4. Counted(r) /\ Rounds(r) /\ Lengths(r)
      BY <1>1 DEF Turns
    <3>5. Counted(r)'
      <4>1. CASE at[r]["producer"] = 1
        BY <3>1, <3>2, <3>3, <3>4, <4>1, NAssumption DEF Counted, Past
      <4>2. CASE at[r]["producer"] = 2
        BY <3>1, <3>2, <3>3, <3>4, <4>2, NAssumption DEF Counted, Past
      <4>3. CASE at[r]["producer"] = 4
        BY <3>1, <3>2, <3>3, <3>4, <4>3, NAssumption DEF Counted, Past
      <4>4. CASE at[r]["producer"] = 5
        BY <3>1, <3>2, <3>3, <3>4, <4>4, NAssumption DEF Counted, Past
      <4> QED
        BY <3>1, <4>1, <4>2, <4>3, <4>4
    <3>6. Rounds(r)'
      BY <3>2, <3>3, <3>4, LoopsAssumption
      DEF Rounds, Roles, NotBegun, AfterLoop, Exited
    <3>7. Lengths(r)'
      BY <1>2, <3>1, <3>2, <3>3, <3>4 DEF Lengths, Past
    <3> QED
      BY <3>5, <3>6, <3>7 DEF Turns
  <2>2. CASE role = "consumer"
    <3>1. /\ \/ /\ at[r]["consumer"] = 1
             /\ sem'[r]["full"] = sem[r]["full"] - 1
             /\ sem'[r]["empty"] = sem[r]["empty"]
             /\ sem'[r]["mutex"] = sem[r]["mutex"]
          \/ /\ at[r]["consumer"] = 2
             /\ sem'[r]["full"] = sem[r]["full"]
             /\ sem'[r]["empty"] = sem[r]["empty"]
             /\ sem'[r]["mutex"] = sem[r]["mutex"] - 1
          \/ /\ at[r]["consumer"] = 4
             /\ sem'[r]["full"] = sem[r]["full"]
             /\ sem'[r]["empty"] = sem[r]["empty"]
             /\ sem'[r]["mutex"] = sem[r]["mutex"] + 1
          \/ /\ at[r]["consumer"] = 5
             /\ sem'[r]["full"] = sem[r]["full"]
             /\ sem'[r]["empty"] = sem[r]["empty"] + 1
             /\ sem'[r]["mutex"] = sem[r]["mutex"]
    BY <1>6, <1>8, <2>2 DEF Waits, Announces, Semaphores
    <3>2. /\ at'[r]["producer"] = at[r]["producer"]
          /\ i'[r]["producer"] = i[r]["producer"]
          /\ at[r]["consumer"] \in 1..5 /\ i[r]["consumer"] < Loops
          /\ at[r]["consumer"] < 5 => /\ at'[r]["consumer"] = at[r]["consumer"] + 1
                                     /\ i'[r]["consumer"] = i[r]["consumer"]
          /\ at[r]["consumer"] = 5 => /\ i'[r]["consumer"] = i[r]["consumer"] + 1
                                     /\ at'[r]["consumer"] =
                                          IF i'[r]["consumer"] < Loops THEN 1 ELSE 6
      BY <1>3, <1>5, <2>2 DEF Roles, AfterLoop
    <3>3. /\ at[r]["producer"] \in 0..7 /\ at[r]["consumer"] \in 0..7
          /\ at'[r]["producer"] \in 0..7 /\ at'[r]["consumer"] \in 0..7
          /\ i[r]["producer"] \in Nat /\ i[r]["consumer"] \in Nat
          /\ i'[r]["producer"] \in Nat /\ i'[r]["consumer"] \in Nat
          /\ sem[r]["empty"] \in Nat /\ sem[r]["full"] \in Nat
          /\ sem[r]["mutex"] \in Nat
      BY <1>8 DEF Roles, Semaphores
    <3>4. Counted(r) /\ Rounds(r) /\ Lengths(r)
      BY <1>1 DEF Turns
    <3>5. Counted(r)'
      <4>1. CASE at[r]["consumer"] = 1
        BY <3>1, <3>2, <3>3, <3>4, <4>1, NAssumption DEF Counted, Past
      <4>2. CASE at[r]["consumer"] = 2
        BY <3>1, <3>2, <3>3, <3>4, <4>2, NAssumption DEF Counted, Past
      <4>3. CASE at[r]["consumer"] = 4
        BY <3>1, <3>2, <3>3, <3>4, <4>3, NAssumption DEF Counted, Past
      <4>4. CASE at[r]["consumer"] = 5
        BY <3>1, <3>2, <3>3, <3>4, <4>4, NAssumption DEF Counted, Past
      <4> QED
        BY <3>1, <4>1, <4>2, <4>3, <4>4
    <3>6. Rounds(r)'
      BY <3>2, <3>3, <3>4, LoopsAssumption
      DEF Rounds, Roles, NotBegun, AfterLoop, Exited
    <3>7. Lengths(r)'
      BY <1>2, <3>1, <3>2, <3>3, <3>4 DEF Lengths, Past
    <3> QED
      BY <3>5, <3>6, <3>7 DEF Turns
  <2> QED
    BY <2>1, <2>2 DEF Roles
<1>10. Place(r)' /\ Held(r)'
  BY <1>1, <1>2 DEF Place, Held, Waiting, CellAt, Wrapped
<1>11. ASSUME NEW s \in Runs \ {r}
       PROVE  Turns(s)' /\ Place(s)' /\ Held(s)'
  BY <1>2, <1>5, <1>6, <1>11, LeftAlone DEF IInv
<1> QED
  BY <1>7, <1>9, <1>10, <1>11 DEF IInv

(* How many entries wait: at least one when the consumer takes, fewer than *)
(* N when the producer puts, never more than N.                            *)
LEMMA WaitingBounds ==
  ASSUME TypeOK, NEW r \in Runs, Turns(r)
  PROVE  /\ Waiting(r) \in 0..N
         /\ Len(entered[r]) \in Nat /\ Len(consumed[r]) \in Nat
         /\ at[r]["producer"] = 3 => Waiting(r) < N
         /\ at[r]["consumer"] = 3 => Waiting(r) > 0
         /\ at[r]["producer"] \in {NotBegun, Exited} => Waiting(r) = 0
<1>1. /\ at[r]["producer"] \in 0..7 /\ at[r]["consumer"] \in 0..7
      /\ i[r]["producer"] \in Nat /\ i[r]["consumer"] \in Nat
      /\ sem[r]["empty"] \in Nat /\ sem[r]["full"] \in Nat
  BY LoopsAssumption DEF TypeOK, Roles, Semaphores, NotBegun, Exited
<1>2. Counted(r) /\ Rounds(r) /\ Lengths(r)
  BY DEF Turns
<1>3. at[r]["producer"] = 0 => i[r]["producer"] = 0 /\ i[r]["consumer"] = 0
                               /\ at[r]["consumer"] = 0
  BY <1>2 DEF Rounds, Roles, NotBegun
<1>4. at[r]["producer"] = 7 => /\ at[r]["consumer"] = 7
                               /\ i[r]["producer"] = i[r]["consumer"]
  BY <1>2 DEF Rounds, Exited
<1>5. /\ Past(r, "producer", 2, 5) \in 0..1 /\ Past(r, "consumer", 2, 5) \in 0..1
      /\ Past(r, "producer", 4, 5) \in 0..Past(r, "producer", 2, 5)
      /\ Past(r, "consumer", 4, 5) \in 0..Past(r, "consumer", 2, 5)
      /\ at[r]["producer"] = 3 => Past(r, "producer", 2, 5) = 1
                                  /\ Past(r, "producer", 4, 5) = 0
      /\ at[r]["consumer"] = 3 => Past(r, "consumer", 2, 5) = 1
                                  /\ Past(r, "consumer", 4, 5) = 0
      /\ at[r]["producer"] \in {0, 7} => Past(r, "producer", 4, 5) = 0
                                         /\ Past(r, "consumer", 4, 5) = 0
  BY <1>1, <1>3, <1>4 DEF Past
<1>6. Len(entered[r]) \in Nat /\ Len(consumed[r]) \in Nat
  <2>1. entered[r] \in Seq(Entries) /\ consumed[r] \in Seq(Entries)
    BY DEF TypeOK
  <2> QED
    BY <2>1
<1>7. PICK e \in Nat, c \in Nat, p4 \in 0..1, c4 \in 0..1, p2 \in 0..1, c2 \in 0..1 :
        /\ e = Len(entered[r]) /\ c = Len(consumed[r])
        /\ p4 = Past(r, "producer", 4, 5) /\ c4 = Past(r, "consumer", 4, 5)
        /\ p2 = Past(r, "producer", 2, 5) /\ c2 = Past(r, "consumer", 2, 5)
  BY <1>5, <1>6
<1>8. /\ e = i[r]["producer"] + p4 /\ c = i[r]["consumer"] + c4
      /\ sem[r]["full"] + i[r]["consumer"] + c2 = i[r]["producer"]
      /\ sem[r]["empty"] + sem[r]["full"] + p2 + c2 = N
      /\ Waiting(r) = e - c
  BY <1>2, <1>7 DEF Counted, Lengths, Waiting
<1>9. Waiting(r) + c4 = sem[r]["full"] + c2 + p4
  BY <1>1, <1>8
<1>10. Waiting(r) \in 0..N
  BY <1>1, <1>5, <1>7, <1>8, <1>9, NAssumption
<1>11. /\ at[r]["producer"] = 3 => Waiting(r) < N
       /\ at[r]["consumer"] = 3 => Waiting(r) > 0
  BY <1>1, <1>5, <1>7, <1>8, <1>9, NAssumption
<1>12. at[r]["producer"] \in {NotBegun, Exited} => Waiting(r) = 0
  BY <1>1, <1>3, <1>4, <1>5, <1>7, <1>8 DEF NotBegun, Exited
<1> QED
  BY <1>6, <1>10, <1>11, <1>12

(* producer()                                                              *)
LEMMA ProduceStep ==
  ASSUME IInv, NEW r \in Runs, Produce(r)
  PROVE  IInv'
<1>1. TypeOK /\ Turns(r) /\ Place(r) /\ Held(r)
  BY DEF IInv
<1>2. PICK d : /\ d = buffer'[Wrapped(nextp[r])]
               /\ \/ /\ d = <<r, i[r]["producer"]>>
                     /\ buffer' = [buffer EXCEPT ![Wrapped(nextp[r])] = d]
                     /\ badInputs' = badInputs
                  \/ /\ badInputs < MaxBadInputs
                     /\ badInputs' = badInputs + 1
                     /\ buffer' = buffer
               /\ nextp' = [nextp EXCEPT ![r] = Wrapped(nextp[r]) + 1]
               /\ entered' = [entered EXCEPT ![r] = Append(@, d)]
  <2> DEFINE cell == Wrapped(nextp[r])
  <2>1. cell \in 0..(N - 1)
    BY <1>1, NAssumption DEF TypeOK, Wrapped
  <2>2. buffer \in [0..(N - 1) -> Entries]
    BY <1>1 DEF TypeOK
  <2>3. /\ \/ /\ buffer' = [buffer EXCEPT ![cell] = <<r, i[r]["producer"]>>]
              /\ badInputs' = badInputs
           \/ /\ badInputs < MaxBadInputs
              /\ badInputs' = badInputs + 1
              /\ buffer' = buffer
        /\ nextp' = [nextp EXCEPT ![r] = cell + 1]
        /\ entered' = [entered EXCEPT ![r] = Append(@, buffer'[cell])]
    BY DEF Produce
  <2>4. ASSUME buffer' = [buffer EXCEPT ![cell] = <<r, i[r]["producer"]>>]
        PROVE  buffer'[cell] = <<r, i[r]["producer"]>>
    BY <2>1, <2>2, <2>4
  <2> QED
    BY <2>3, <2>4
<1>3. /\ disturbed' = disturbed \cup {s \in Runs \ {r} : Begun(s) /\ ~Ended(s)}
      /\ GoOn(r, "producer")
      /\ sem' = sem /\ nextc' = nextc /\ consumed' = consumed
  BY DEF Produce
<1>4. at[r]["producer"] = 3 /\ i[r]["producer"] < Loops
  <2>1. at[r]["producer"] = 3
    BY InsideCalls DEF Produce
  <2> QED
    BY <1>1, <2>1 DEF Turns, Rounds, Roles
<1>5. /\ at' \in [Runs -> [Roles -> NotBegun..Exited]]
      /\ i' \in [Runs -> [Roles -> 0..Loops]]
      /\ \A s \in Runs \ {r} : at'[s] = at[s] /\ i'[s] = i[s]
      /\ at'[r]["consumer"] = at[r]["consumer"]
      /\ i'[r]["consumer"] = i[r]["consumer"]
      /\ at'[r]["producer"] = 4 /\ i'[r]["producer"] = i[r]["producer"]
  <2>1. "producer" \in Roles /\ "consumer" \in Roles \ {"producer"}
    BY DEF Roles
  <2> QED
    BY <1>1, <1>3, <1>4, <2>1, WaysOn
<1>6. Wrapped(nextp[r]) \in 0..(N - 1) /\ d \in Entries
  <2>1. Wrapped(nextp[r]) \in 0..(N - 1)
    BY <1>1, NAssumption DEF TypeOK, Wrapped
  <2>2. i[r]["producer"] \in 0..(Loops - 1)
    BY <1>1, <1>4, LoopsAssumption DEF TypeOK, Roles
  <2>3. <<r, i[r]["producer"]>> \in Entries
    BY <2>2 DEF Entries
  <2>4. buffer[Wrapped(nextp[r])] \in Entries
    BY <1>1, <2>1 DEF TypeOK
  <2> QED
    BY <1>2, <2>1, <2>3, <2>4
<1>7. TypeOK'
  <2>1. buffer' \in [0..(N - 1) -> Entries] /\ badInputs' \in 0..MaxBadInputs
    <3>1. buffer \in [0..(N - 1) -> Entries] /\ badInputs \in 0..MaxBadInputs
      BY <1>1 DEF TypeOK
    <3>2. buffer' \in [0..(N - 1) -> Entries]
      BY <1>2, <1>6, <3>1
    <3>3. badInputs' \in 0..MaxBadInputs
      BY <1>2, <3>1, MaxBadInputsAssumption
    <3> QED
      BY <3>2, <3>3
  <2>2. nextp' \in [Runs -> 0..N]
    BY <1>1, <1>2, <1>6, NAssumption DEF TypeOK
  <2>3. entered' \in [Runs -> Seq(Entries)]
    <3>1. entered[r] \in Seq(Entries)
      BY <1>1 DEF TypeOK
    <3>2. Append(entered[r], d) \in Seq(Entries)
      BY <1>6, <3>1
    <3> QED
      BY <1>1, <1>2, <3>2 DEF TypeOK
  <2> QED
    BY <1>1, <1>3, <1>5, <2>1, <2>2, <2>3 DEF TypeOK
<1>8. /\ Len(entered'[r]) = Len(entered[r]) + 1
      /\ entered'[r][Len(entered[r]) + 1] = d
      /\ \A k \in 1..Len(entered[r]) : entered'[r][k] = entered[r][k]
      /\ Len(entered[r]) \in Nat
  <2>1. entered[r] \in Seq(Entries)
    BY <1>1 DEF TypeOK
  <2>2. entered'[r] = Append(entered[r], d)
    BY <1>1, <1>2 DEF TypeOK
  <2> QED
    BY <1>6, <2>1, <2>2
<1>9. Turns(r)'
  <2>1. /\ at[r]["consumer"] \in 0..7
        /\ i[r]["producer"] \in Nat /\ i[r]["consumer"] \in Nat
    BY <1>1, LoopsAssumption DEF TypeOK, Roles, NotBegun, Exited
  <2>2. Counted(r)'
    BY <1>1, <1>3, <1>4, <1>5, <2>1 DEF Turns, Counted, Past
  <2>3. Rounds(r)'
    BY <1>1, <1>4, <1>5, <2>1 DEF Turns, Rounds, Roles, NotBegun, AfterLoop, Exited
  <2>4. Lengths(r)'
    BY <1>1, <1>3, <1>4, <1>5, <1>8, <2>1 DEF Turns, Lengths, Past
  <2> QED
    BY <2>2, <2>3, <2>4 DEF Turns
<1>10. /\ Waiting(r) \in 0..(N - 1) /\ Len(consumed[r]) \in Nat
       /\ Waiting(r)' = Waiting(r) + 1
       /\ Wrapped(nextc[r]) \in 0..(N - 1)
  <2>1. /\ Waiting(r) \in 0..N /\ Waiting(r) < N
        /\ Len(entered[r]) \in Nat /\ Len(consumed[r]) \in Nat
    BY <1>1, <1>4, WaitingBounds
  <2>2. Wrapped(nextc[r]) \in 0..(N - 1)
    BY <1>1, NAssumption DEF TypeOK, Wrapped
  <2>3. PICK e \in Nat, c \in Nat : e = Len(entered[r]) /\ c = Len(consumed[r])
    BY <2>1
  <2>4. Waiting(r) = e - c /\ Waiting(r)' = (e + 1) - c
    BY <1>3, <1>8, <2>3 DEF Waiting
  <2>5. Waiting(r)' = Waiting(r) + 1
    BY <2>4
  <2> QED
    BY <2>1, <2>2, <2>5, NAssumption
<1>11. /\ Wrapped(nextp[r]) = CellAt(r, Waiting(r))
       /\ nextp'[r] = CellAt(r, Waiting(r)) + 1
       /\ \A k : CellAt(r, k)' = CellAt(r, k)
  BY <1>1, <1>2, <1>3 DEF Place, TypeOK, CellAt, Wrapped
<1>12. Place(r)'
  <2>1. Wrapped(nextp[r])' = CellAt(r, Waiting(r) + 1)
    BY <1>10, <1>11, NAssumption DEF CellAt, Wrapped
  <2> QED
    BY <1>10, <1>11, <2>1 DEF Place
<1>13. Held(r)'
  <2> SUFFICES ASSUME r \notin disturbed', NEW k \in 0..(Waiting(r)' - 1)
               PROVE  buffer'[CellAt(r, k)'] = entered'[r][Len(consumed'[r]) + k + 1]
    BY DEF Held
  <2> SUFFICES buffer'[CellAt(r, k)] = entered'[r][Len(consumed[r]) + k + 1]
    BY <1>3, <1>11
  <2>1. r \notin disturbed
    BY <1>3
  <2>2. k \in 0..Waiting(r)
    <3>1. PICK w \in Nat : w = Waiting(r) /\ w + 1 = Waiting(r)'
      BY <1>10, NAssumption
    <3>2. k \in 0..w
      BY <3>1
    <3> QED
      BY <3>1, <3>2
  <2>3. CASE k = Waiting(r)
    <3>1. Len(consumed[r]) + k + 1 = Len(entered[r]) + 1
      BY <1>8, <1>10, <2>3 DEF Waiting
    <3> QED
      BY <1>2, <1>8, <1>11, <2>3, <3>1
  <2>4. CASE k < Waiting(r)
    <3>1. /\ CellAt(r, k) \in 0..(N - 1)
          /\ CellAt(r, k) # CellAt(r, Waiting(r))
      BY <1>10, <2>2, <2>4, NAssumption DEF CellAt
    <3>2. buffer'[CellAt(r, k)] = buffer[CellAt(r, k)]
      BY <1>1, <1>2, <1>11, <3>1 DEF TypeOK
    <3>3. buffer[CellAt(r, k)] = entered[r][Len(consumed[r]) + k + 1]
      BY <1>1, <1>10, <2>1, <2>2, <2>4 DEF Held
    <3>4. Len(consumed[r]) + k + 1 \in 1..Len(entered[r])
      <4>1. PICK e \in Nat, c \in Nat : e = Len(entered[r]) /\ c = Len(consumed[r])
        BY <1>8, <1>10
      <4>2. k \in Nat
        BY <1>10, <2>2
      <4>3. Waiting(r) = e - c
        BY <4>1 DEF Waiting
      <4>4. c + k + 1 \in 1..e
        BY <2>4, <4>2, <4>3
      <4> QED
        BY <4>1, <4>4
    <3> QED
      BY <1>8, <3>2, <3>3, <3>4
  <2> QED
    BY <1>10, <2>2, <2>3, <2>4
<1>14. ASSUME NEW s \in Runs \ {r}
       PROVE  Turns(s)' /\ Place(s)' /\ Held(s)'
  <2>1. TypeOK /\ Turns(s) /\ Place(s) /\ Held(s)
    BY DEF IInv
  <2>2. nextp'[s] = nextp[s] /\ entered'[s] = entered[s]
    BY <1>1, <1>2 DEF TypeOK
  <2>3. /\ Turns(s)' /\ Place(s)' /\ Waiting(s)' = Waiting(s)
    BY <1>3, <1>5, <2>1, <2>2, Untouched
  <2>4. s \notin disturbed' => at[s]["producer"] \in {NotBegun, Exited}
    BY <1>3 DEF Begun, Ended
  <2>5. s \notin disturbed' => Waiting(s)' = 0
    BY <2>1, <2>3, <2>4, WaitingBounds
  <2>6. Held(s)'
    BY <2>5 DEF Held
  <2> QED
    BY <2>3, <2>6
<1> QED
  BY <1>7, <1>9, <1>12, <1>13, <1>14 DEF IInv

(* consumer()                                                              *)
LEMMA ConsumeStep ==
  ASSUME IInv, NEW r \in Runs, Consume(r)
  PROVE  IInv'
<1>1. TypeOK /\ Turns(r) /\ Place(r) /\ Held(r)
  BY DEF IInv
<1>2. PICK d : /\ d = buffer[Wrapped(nextc[r])]
               /\ consumed' = [consumed EXCEPT ![r] = Append(@, d)]
               /\ nextc' = [nextc EXCEPT ![r] = Wrapped(nextc[r]) + 1]
  BY DEF Consume
<1>3. /\ GoOn(r, "consumer")
      /\ sem' = sem /\ buffer' = buffer /\ nextp' = nextp
      /\ entered' = entered /\ badInputs' = badInputs /\ disturbed' = disturbed
  BY DEF Consume
<1>4. at[r]["consumer"] = 3 /\ i[r]["consumer"] < Loops
  <2>1. at[r]["consumer"] = 3
    BY InsideCalls DEF Consume
  <2> QED
    BY <1>1, <2>1 DEF Turns, Rounds, Roles
<1>5. /\ at' \in [Runs -> [Roles -> NotBegun..Exited]]
      /\ i' \in [Runs -> [Roles -> 0..Loops]]
      /\ \A s \in Runs \ {r} : at'[s] = at[s] /\ i'[s] = i[s]
      /\ at'[r]["producer"] = at[r]["producer"]
      /\ i'[r]["producer"] = i[r]["producer"]
      /\ at'[r]["consumer"] = 4 /\ i'[r]["consumer"] = i[r]["consumer"]
  <2>1. "consumer" \in Roles /\ "producer" \in Roles \ {"consumer"}
    BY DEF Roles
  <2> QED
    BY <1>1, <1>3, <1>4, <2>1, WaysOn
<1>6. Wrapped(nextc[r]) \in 0..(N - 1) /\ d \in Entries
  BY <1>1, <1>2, NAssumption DEF TypeOK, Wrapped
<1>7. TypeOK'
  <2>1. nextc' \in [Runs -> 0..N]
    BY <1>1, <1>2, <1>6, NAssumption DEF TypeOK
  <2>2. consumed' \in [Runs -> Seq(Entries)]
    <3>1. consumed[r] \in Seq(Entries)
      BY <1>1 DEF TypeOK
    <3>2. Append(consumed[r], d) \in Seq(Entries)
      BY <1>6, <3>1
    <3> QED
      BY <1>1, <1>2, <3>2 DEF TypeOK
  <2> QED
    BY <1>1, <1>3, <1>5, <2>1, <2>2 DEF TypeOK
<1>8. Len(consumed'[r]) = Len(consumed[r]) + 1 /\ Len(consumed[r]) \in Nat
  <2>1. consumed[r] \in Seq(Entries)
    BY <1>1 DEF TypeOK
  <2>2. consumed'[r] = Append(consumed[r], d)
    BY <1>1, <1>2 DEF TypeOK
  <2> QED
    BY <1>6, <2>1, <2>2
<1>9. Turns(r)'
  <2>1. /\ at[r]["producer"] \in 0..7
        /\ i[r]["producer"] \in Nat /\ i[r]["consumer"] \in Nat
    BY <1>1, LoopsAssumption DEF TypeOK, Roles, NotBegun, Exited
  <2>2. Counted(r)'
    BY <1>1, <1>3, <1>4, <1>5, <2>1 DEF Turns, Counted, Past
  <2>3. Rounds(r)'
    BY <1>1, <1>4, <1>5, <2>1 DEF Turns, Rounds, Roles, NotBegun, AfterLoop, Exited
  <2>4. Lengths(r)'
    BY <1>1, <1>3, <1>4, <1>5, <1>8, <2>1 DEF Turns, Lengths, Past
  <2> QED
    BY <2>2, <2>3, <2>4 DEF Turns
<1>10. PICK e \in Nat, c \in Nat :
         /\ e = Len(entered[r]) /\ c = Len(consumed[r])
         /\ e - c \in 1..N
         /\ Waiting(r) = e - c
         /\ Waiting(r)' = e - (c + 1)
  <2>1. /\ Waiting(r) \in 0..N /\ Waiting(r) > 0 /\ Len(entered[r]) \in Nat
    BY <1>1, <1>4, WaitingBounds
  <2>2. PICK e \in Nat, c \in Nat : e = Len(entered[r]) /\ c = Len(consumed[r])
    BY <1>8, <2>1
  <2>3. Waiting(r) = e - c /\ Waiting(r)' = e - (c + 1)
    BY <1>3, <1>8, <2>2 DEF Waiting
  <2>4. e - c \in 1..N
    BY <2>1, <2>3, NAssumption
  <2> QED
    BY <2>2, <2>3, <2>4
<1>11. \A k \in 0..(N - 1) : CellAt(r, k)' = CellAt(r, k + 1)
  <2>1. nextc'[r] = Wrapped(nextc[r]) + 1
    BY <1>1, <1>2 DEF TypeOK
  <2> QED
    BY <1>6, <2>1, NAssumption DEF CellAt, Wrapped
<1>12. Place(r)'
  <2>1. e - (c + 1) \in 0..(N - 1) /\ (e - (c + 1)) + 1 = e - c
    BY <1>10, NAssumption
  <2>2. CellAt(r, e - (c + 1))' = CellAt(r, e - c)
    BY <1>11, <2>1
  <2>3. Wrapped(nextp[r])' = CellAt(r, e - c)
    BY <1>1, <1>3, <1>10 DEF Place, Wrapped
  <2>4. CellAt(r, Waiting(r))' = CellAt(r, e - (c + 1))'
    BY <1>10 DEF CellAt
  <2> QED
    BY <2>2, <2>3, <2>4 DEF Place
<1>13. Held(r)'
  <2> SUFFICES ASSUME r \notin disturbed, NEW k \in 0..(Waiting(r)' - 1)
               PROVE  buffer[CellAt(r, k)'] = entered[r][Len(consumed[r]) + 1 + k + 1]
    BY <1>3, <1>8 DEF Held
  <2>1. /\ k \in 0..(N - 1) /\ k + 1 \in 0..(Waiting(r) - 1)
        /\ c + 1 + k + 1 = c + (k + 1) + 1
    <3>1. PICK n \in 1..N : n = Waiting(r) /\ n - 1 = Waiting(r)'
      <4>1. (e - c) - 1 = e - (c + 1)
        OBVIOUS
      <4> QED
        BY <1>10, <4>1
    <3>2. k \in 0..(n - 1 - 1) /\ k \in Nat
      BY <3>1, NAssumption
    <3>3. k \in 0..(N - 1) /\ k + 1 \in 0..(n - 1)
      BY <3>2, NAssumption
    <3>4. c + 1 + k + 1 = c + (k + 1) + 1
      BY <3>2
    <3> QED
      BY <3>1, <3>3, <3>4
  <2>2. CellAt(r, k)' = CellAt(r, k + 1)
    BY <1>11, <2>1
  <2>3. buffer[CellAt(r, k + 1)] = entered[r][Len(consumed[r]) + (k + 1) + 1]
    BY <1>1, <2>1 DEF Held
  <2> QED
    BY <1>10, <2>1, <2>2, <2>3
<1>14. ASSUME NEW s \in Runs \ {r}
       PROVE  Turns(s)' /\ Place(s)' /\ Held(s)'
  <2>1. nextc'[s] = nextc[s] /\ consumed'[s] = consumed[s]
    BY <1>1, <1>2 DEF TypeOK
  <2> QED
    BY <1>3, <1>5, <2>1, LeftAlone DEF IInv
<1> QED
  BY <1>7, <1>9, <1>12, <1>13, <1>14 DEF IInv

(* fork                                                                    *)
LEMMA ForkStep ==
  ASSUME IInv, NEW r \in Runs, Fork(r)
  PROVE  IInv'
<1>1. TypeOK /\ Turns(r) /\ Place(r) /\ Held(r)
  BY DEF IInv
<1>2. PICK first \in {1, Exited} :
        at' = [at EXCEPT ![r] = [role \in Roles |-> first]]
  BY DEF Fork
<1>3. /\ sem' = sem /\ buffer' = buffer /\ nextp' = nextp /\ nextc' = nextc
      /\ i' = i /\ entered' = entered /\ consumed' = consumed
      /\ badInputs' = badInputs /\ disturbed' = disturbed
  BY DEF Fork
<1>4. at[r]["producer"] = 0 /\ at[r]["consumer"] = 0
  BY <1>1 DEF Fork, Begun, Turns, Rounds, NotBegun
<1>5. /\ at' \in [Runs -> [Roles -> NotBegun..Exited]]
      /\ at'[r]["producer"] = first /\ at'[r]["consumer"] = first
      /\ \A s \in Runs \ {r} : at'[s] = at[s]
  <2>1. first \in NotBegun..Exited
    BY DEF NotBegun, Exited
  <2> QED
    BY <1>1, <1>2, <2>1 DEF TypeOK, Roles
<1>6. TypeOK'
  BY <1>1, <1>3, <1>5 DEF TypeOK
<1>7. Turns(r)'
  <2>1. i[r]["producer"] = 0 /\ i[r]["consumer"] = 0
    BY <1>1, <1>4 DEF Turns, Rounds, Roles, NotBegun
  <2>2. Counted(r)'
    BY <1>1, <1>3, <1>4, <1>5 DEF Turns, Counted, Past, Exited
  <2>3. Rounds(r)'
    BY <1>1, <1>3, <1>5, <2>1, LoopsAssumption
    DEF Turns, Rounds, Roles, NotBegun, AfterLoop, Exited
  <2>4. Lengths(r)'
    BY <1>1, <1>3, <1>4, <1>5 DEF Turns, Lengths, Past, Exited
  <2> QED
    BY <2>2, <2>3, <2>4 DEF Turns
<1>8. Place(r)' /\ Held(r)'
  BY <1>1, <1>3 DEF Place, Held, Waiting, CellAt, Wrapped
<1>9. ASSUME NEW s \in Runs \ {r}
      PROVE  Turns(s)' /\ Place(s)' /\ Held(s)'
  BY <1>3, <1>5, LeftAlone DEF IInv
<1> QED
  BY <1>6, <1>7, <1>8, <1>9 DEF IInv

(* The end, and the parent's wait for its child.                           *)
LEMMA ExitStep ==
  ASSUME IInv, NEW r \in Runs, NEW role \in Roles, Exit(r, role)
  PROVE  IInv'
<1>1. TypeOK /\ Turns(r) /\ Place(r) /\ Held(r)
  BY DEF IInv
<1>2. /\ at[r][role] = AfterLoop
      /\ role = "producer" => at[r]["consumer"] = Exited
      /\ at' = [at EXCEPT ![r][role] = Exited]
      /\ sem' = sem /\ buffer' = buffer /\ nextp' = nextp /\ nextc' = nextc
      /\ i' = i /\ entered' = entered /\ consumed' = consumed
      /\ badInputs' = badInputs /\ disturbed' = disturbed
  BY DEF Exit
<1>3. /\ at' \in [Runs -> [Roles -> NotBegun..Exited]]
      /\ at'[r][role] = Exited
      /\ \A other \in Roles \ {role} : at'[r][other] = at[r][other]
      /\ \A s \in Runs \ {r} : at'[s] = at[s]
  <2>1. Exited \in NotBegun..Exited
    BY DEF NotBegun, Exited
  <2> QED
    BY <1>1, <1>2, <2>1 DEF TypeOK
<1>4. TypeOK'
  BY <1>1, <1>2, <1>3 DEF TypeOK
<1>5. Turns(r)'
  <2>1. CASE role = "producer"
    <3>1. /\ at[r]["producer"] = AfterLoop /\ at[r]["consumer"] = Exited
          /\ at'[r]["producer"] = Exited /\ at'[r]["consumer"] = Exited
          /\ i[r]["producer"] = Loops /\ i[r]["consumer"] = Loops
      BY <1>1, <1>2, <1>3, <2>1 DEF Turns, Rounds, Roles, AfterLoop, Exited
    <3> QED
      BY <1>1, <1>2, <3>1
      DEF Turns, Counted, Rounds, Lengths, Past, Roles, NotBegun, AfterLoop, Exited
  <2>2. CASE role = "consumer"
    <3>1. /\ at[r]["consumer"] = AfterLoop /\ at'[r]["consumer"] = Exited
          /\ at'[r]["producer"] = at[r]["producer"]
          /\ i[r]["consumer"] = Loops
      BY <1>1, <1>2, <1>3, <2>2 DEF Turns, Rounds, Roles, AfterLoop, Exited
    <3> QED
      BY <1>1, <1>2, <3>1
      DEF Turns, Counted, Rounds, Lengths, Past, Roles, NotBegun, AfterLoop, Exited
  <2> QED
    BY <2>1, <2>2 DEF Roles
<1>6. Place(r)' /\ Held(r)'
  BY <1>1, <1>2 DEF Place, Held, Waiting, CellAt, Wrapped
<1>7. ASSUME NEW s \in Runs \ {r}
      PROVE  Turns(s)' /\ Place(s)' /\ Held(s)'
  BY <1>2, <1>3, LeftAlone DEF IInv
<1> QED
  BY <1>4, <1>5, <1>6, <1>7 DEF IInv

-------------------------------------------------------------------------------
LEMMA InitIInv == Init => IInv
<1> SUFFICES ASSUME Init PROVE IInv
  OBVIOUS
<1>1. SemCreate \in [Semaphores -> Nat]
  BY NAssumption DEF SemCreate, Semaphores, EmptyAtFirst
<1>2. SemCreate["mutex"] = 1 /\ SemCreate["empty"] = N /\ SemCreate["full"] = 0
  BY DEF SemCreate, Semaphores, EmptyAtFirst
<1>3. Zero \in Entries
  BY DEF Entries
<1>4. TypeOK
  BY <1>1, <1>3, NAssumption, LoopsAssumption, MaxBadInputsAssumption
  DEF Init, TypeOK, NotBegun, Exited
<1>5. ASSUME NEW r \in Runs
      PROVE  Turns(r) /\ Place(r) /\ Held(r)
  <2>1. /\ \A role \in Roles : at[r][role] = 0 /\ i[r][role] = 0
        /\ "producer" \in Roles /\ "consumer" \in Roles
        /\ sem[r] = SemCreate /\ nextp[r] = 0 /\ nextc[r] = 0
        /\ Len(entered[r]) = 0 /\ Len(consumed[r]) = 0
    BY DEF Init, Roles, NotBegun
  <2>2. Counted(r)
    BY <1>2, <2>1, NAssumption DEF Counted, Past
  <2>3. Rounds(r)
    BY <2>1 DEF Rounds, NotBegun, AfterLoop, Exited
  <2>4. Lengths(r)
    BY <2>1 DEF Lengths, Past
  <2>5. Waiting(r) = 0
    BY <2>1 DEF Waiting
  <2>6. Place(r)
    BY <2>1, <2>5, NAssumption DEF Place, CellAt, Wrapped
  <2>7. Held(r)
    BY <2>5 DEF Held
  <2> QED
    BY <2>2, <2>3, <2>4, <2>6, <2>7 DEF Turns
<1> QED
  BY <1>4, <1>5 DEF IInv

LEMMA NextIInv == IInv /\ [Next]_vars => IInv'
<1> SUFFICES ASSUME IInv, [Next]_vars PROVE IInv'
  OBVIOUS
<1>1. ASSUME NEW r \in Runs, Fork(r) PROVE IInv'
  BY <1>1, ForkStep
<1>2. ASSUME NEW r \in Runs, NEW role \in Roles, Step(r, role) PROVE IInv'
  <2>1. CASE SemCall(r, role)
    BY <2>1, SemStep
  <2>2. CASE role = "producer" /\ Produce(r)
    BY <2>2, ProduceStep
  <2>3. CASE role = "consumer" /\ Consume(r)
    BY <2>3, ConsumeStep
  <2>4. CASE Exit(r, role)
    BY <2>4, ExitStep
  <2> QED
    BY <1>2, <2>1, <2>2, <2>3, <2>4 DEF Step
<1>3. CASE UNCHANGED vars
  BY <1>3 DEF vars, IInv, TypeOK, Turns, Counted, Rounds, Lengths, Past, Place,
              Held, Waiting, CellAt, Wrapped
<1> QED
  BY <1>1, <1>2, <1>3 DEF Next

LEMMA Invariance == Spec => []IInv
BY InitIInv, NextIInv, PTL DEF Spec

(* The semaphores count what they are for (ProducerConsumer.c:75-111).     *)
THEOREM SemaphoresAreRight == Spec => []SemaphoresCount
<1>1. IInv => SemaphoresCount
  BY DEF IInv, Turns, SemaphoresCount
<1> QED
  BY <1>1, Invariance, PTL

-------------------------------------------------------------------------------
(* The run looked at is any of them.                                       *)
LEMMA AnyRunIsARun == AnyRun \in Runs
BY RunsAssumption DEF AnyRun

LEMMA ProduceIsPut ==
  ASSUME IInv, NEW r \in Runs, Produce(r)
  PROVE  [Buffer!Next]_(Buffer!vars)
<1> DEFINE a == AnyRun
<1>1. a \in Runs /\ TypeOK /\ Turns(a)
  BY AnyRunIsARun DEF IInv
<1>2. PICK d : /\ d = buffer'[Wrapped(nextp[r])]
               /\ entered' = [entered EXCEPT ![r] = Append(@, d)]
  BY DEF Produce
<1>3. /\ disturbed' = disturbed \cup {s \in Runs \ {r} : Begun(s) /\ ~Ended(s)}
      /\ consumed' = consumed
  BY DEF Produce
<1>4. CASE r = a
  <2>1. d \in Entries
    <3>1. TypeOK'
      BY ProduceStep DEF IInv
    <3>2. Wrapped(nextp[r]) \in 0..(N - 1)
      BY <1>1, NAssumption DEF TypeOK, Wrapped
    <3> QED
      BY <1>2, <3>1, <3>2 DEF TypeOK
  <2>2. at[a]["producer"] = 3
    BY <1>4, InsideCalls DEF Produce
  <2>3. Len(entered[a]) < Len(consumed[a]) + N
    <3>1. PICK e \in Nat, c \in Nat : e = Len(entered[a]) /\ c = Len(consumed[a])
      BY <1>1, WaitingBounds
    <3>2. e - c < N
      BY <1>1, <2>2, <3>1, WaitingBounds DEF Waiting
    <3>3. e < c + N
      BY <3>2, NAssumption
    <3> QED
      BY <3>1, <3>3
  <2>4. entered'[a] = Append(entered[a], d)
    BY <1>1, <1>2, <1>4 DEF TypeOK
  <2>5. (a \notin disturbed') = (a \notin disturbed)
    BY <1>3, <1>4
  <2>6. Buffer!Put(d)
    BY <1>3, <2>3, <2>4, <2>5 DEF Buffer!Put
  <2> QED
    BY <2>1, <2>6 DEF Buffer!Next
<1>5. CASE r # a
  <2>1. entered'[a] = entered[a] /\ consumed'[a] = consumed[a]
    BY <1>1, <1>2, <1>3, <1>5 DEF TypeOK
  <2>2. CASE a \in disturbed'
    <3>1. (a \notin disturbed') = FALSE
      BY <2>2
    <3> QED
      BY <2>1, <3>1 DEF Buffer!Next, Buffer!Intrude
  <2>3. CASE a \notin disturbed'
    <3>1. (a \notin disturbed') = (a \notin disturbed)
      BY <1>3, <2>3
    <3> QED
      BY <2>1, <3>1 DEF Buffer!vars
  <2> QED
    BY <2>2, <2>3
<1> QED
  BY <1>4, <1>5

LEMMA ConsumeIsTake ==
  ASSUME IInv, NEW r \in Runs, Consume(r)
  PROVE  [Buffer!Next]_(Buffer!vars)
<1> DEFINE a == AnyRun
<1>1. a \in Runs /\ TypeOK /\ Turns(a) /\ Held(a)
  BY AnyRunIsARun DEF IInv
<1>2. PICK d : /\ d = buffer[Wrapped(nextc[r])]
               /\ consumed' = [consumed EXCEPT ![r] = Append(@, d)]
  BY DEF Consume
<1>3. entered' = entered /\ disturbed' = disturbed
  BY DEF Consume
<1>4. CASE r = a
  <2>1. Wrapped(nextc[a]) \in 0..(N - 1)
    BY <1>1, NAssumption DEF TypeOK, Wrapped
  <2>2. d \in Entries
    BY <1>1, <1>2, <1>4, <2>1 DEF TypeOK
  <2>3. at[a]["consumer"] = 3
    BY <1>4, InsideCalls DEF Consume
  <2>4. Waiting(a) \in 0..N /\ Waiting(a) > 0
    BY <1>1, <2>3, WaitingBounds
  <2>5. Len(consumed[a]) < Len(entered[a])
    <3>1. PICK e \in Nat, c \in Nat : e = Len(entered[a]) /\ c = Len(consumed[a])
      BY <1>1, WaitingBounds
    <3>2. e - c > 0
      BY <2>4, <3>1 DEF Waiting
    <3>3. c < e
      BY <3>2
    <3> QED
      BY <3>1, <3>3
  <2>6. a \notin disturbed => d = entered[a][Len(consumed[a]) + 1]
    <3>1. CellAt(a, 0) = Wrapped(nextc[a])
      BY <2>1, NAssumption DEF CellAt
    <3>2. 0 \in 0..(Waiting(a) - 1)
      BY <2>4, NAssumption
    <3>3. a \notin disturbed =>
            buffer[CellAt(a, 0)] = entered[a][Len(consumed[a]) + 0 + 1]
      BY <1>1, <3>2 DEF Held
    <3>4. Len(consumed[a]) + 0 + 1 = Len(consumed[a]) + 1
      BY <1>1, WaitingBounds
    <3> QED
      BY <1>2, <1>4, <3>1, <3>3, <3>4
  <2>7. consumed'[a] = Append(consumed[a], d)
    BY <1>1, <1>2, <1>4 DEF TypeOK
  <2>8. Buffer!Take(d)
    BY <1>3, <2>5, <2>6, <2>7 DEF Buffer!Take
  <2> QED
    BY <2>2, <2>8 DEF Buffer!Next
<1>5. CASE r # a
  <2>1. entered'[a] = entered[a] /\ consumed'[a] = consumed[a]
    BY <1>1, <1>2, <1>3, <1>5 DEF TypeOK
  <2> QED
    BY <1>3, <2>1 DEF Buffer!vars
<1> QED
  BY <1>4, <1>5

(* A run is a bounded buffer of N cells, first in first out, and, until    *)
(* another run writes into the segment, what is taken is what was put      *)
(* (ProducerConsumer.c:20-37, 44, 90-111).                                 *)
THEOREM IsABuffer == Spec => BufferSpec
<1>1. Init => Buffer!Init
  BY AnyRunIsARun DEF Init, Buffer!Init
<1>2. IInv /\ [Next]_vars => [Buffer!Next]_(Buffer!vars)
  <2> SUFFICES ASSUME IInv, [Next]_vars
               PROVE  [Buffer!Next]_(Buffer!vars)
    OBVIOUS
  <2>1. ASSUME NEW r \in Runs, NEW role \in Roles, SemCall(r, role)
        PROVE  UNCHANGED Buffer!vars
    BY <2>1 DEF SemCall, Buffer!vars
  <2>2. ASSUME NEW r \in Runs, NEW role \in Roles, Exit(r, role)
        PROVE  UNCHANGED Buffer!vars
    BY <2>2 DEF Exit, Buffer!vars
  <2>3. ASSUME NEW r \in Runs, Fork(r)
        PROVE  UNCHANGED Buffer!vars
    BY <2>3 DEF Fork, Buffer!vars
  <2>4. CASE UNCHANGED vars
    BY <2>4 DEF vars, Buffer!vars
  <2>5. ASSUME NEW r \in Runs, Produce(r) \/ Consume(r)
        PROVE  [Buffer!Next]_(Buffer!vars)
    BY <2>5, ProduceIsPut, ConsumeIsTake
  <2> QED
    BY <2>1, <2>2, <2>3, <2>4, <2>5 DEF Next, Step
<1> QED
  BY <1>1, <1>2, Invariance, PTL DEF Spec, BufferSpec, Buffer!Spec

===============================================================================
